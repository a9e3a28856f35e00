------------------------------- MODULE Sigma -------------------------------
(* Pedersen commitments and Schnorr proofs of knowledge of an opening         *)
(* (zk_proof/), over a group of any size.  Somebody commits, somebody makes a *)
(* proof for the commitment of the moment, and the proof may be checked       *)
(* against a later commitment than the one it was made for.                   *)
(*                                                                            *)
(* SHA-256 is a random oracle: the digest of a transcript is chosen when it   *)
(* is first asked for and remembered.  Nonces and random blindings are any    *)
(* numbers secrets.randbelow may return.  A call whose arguments are out of   *)
(* range raises, and is no step.                                              *)
EXTENDS Integers

CONSTANTS P, G,        \* modulus and generator
          Candidate,   \* _h_candidate, a hash
          Message, Blinding, Nonce,   \* the numbers used, all below Q
          Digest,      \* digests read as numbers
          MaxCommits,  \* bound on the commitments made
          None

Q == (P - 1) \div 2

Scalars == 0 .. Q - 1

\* pow(b, e, P)
Pow(b, e) ==
    LET power[n \in 0 .. e] == IF n = 0 THEN 1 ELSE (power[n - 1] * b) % P
    IN  power[e]

H == Pow(Candidate, 2)

\* The check at import time.
VerifyGroupParameters == Pow(G, Q) = 1 /\ Pow(H, Q) = 1 /\ H \notin {0, 1}

\* That P is a safe prime is known of the P in the code, not checked there.
ASSUME GroupParameters ==
    /\ P \in Nat /\ \A d \in 2 .. P - 1 : P % d # 0
    /\ Q > 1 /\ \A d \in 2 .. Q - 1 : Q % d # 0
    /\ G \in Nat /\ Candidate \in Nat
    /\ VerifyGroupParameters

ASSUME ScalarAssumption ==
    /\ Message \cup Blinding \cup Nonce \subseteq Scalars
    /\ Digest \subseteq Nat /\ MaxCommits \in Nat

ASSUME NoneAssumption == None \notin BOOLEAN

VARIABLES value,    \* commitment.value
          commits,  \* commitments made so far
          proof,    \* the proof; None before it is made
          made,     \* what it was made from
          digests,  \* what SHA-256 was asked so far, with its answers
          result    \* what verify_proof said of proof and value

vars == <<value, commits, proof, made, digests, result>>

-----------------------------------------------------------------------------
\* int.from_bytes(digest) % Q, for transactions (hash_to_scalar) and challenges.
Reduce(digest) == digest % Q

MutantCom(message, blinding) == Pow(G, message)

Com(message, blinding) == (Pow(G, message) * Pow(H, blinding)) % P

VerifyOpening(commitment, message, blinding) ==
    {message, blinding} \subseteq Scalars /\ commitment = Com(message, blinding)

MutantResponse(nonce, challenge, secret) == (challenge * secret) % Q

Response(nonce, challenge, secret) == (nonce + challenge * secret) % Q

MutantEquation(commitment, p, challenge) ==
    (Pow(G, p.s1) * Pow(H, p.s2)) % P = (p.t * commitment) % P

Equation(commitment, p, challenge) ==
    (Pow(G, p.s1) * Pow(H, p.s2)) % P = (p.t * Pow(commitment, challenge)) % P

MutantInRange(commitment, p) == 1 < commitment /\ commitment < P /\ 1 < p.t /\ p.t < P

MutantCanonical(commitment, p) ==
    1 <= commitment /\ commitment < P /\ 1 <= p.t /\ p.t < P /\ p.s1 < Q /\ p.s2 < Q

InRange(commitment, p) == 1 <= commitment /\ commitment < P /\ 1 <= p.t /\ p.t < P

\* SHA-256 answers the same transcript with the same digest.
Hash(commitment, t, digest) ==
    LET known == {d \in digests : d.commitment = commitment /\ d.t = t}
        new   == [commitment |-> commitment, t |-> t, digest |-> digest]
    IN  /\ known \subseteq {new}
        /\ digests' = digests \cup {new}

-----------------------------------------------------------------------------
Init ==
    /\ value = None /\ proof = None /\ made = None /\ result = None
    /\ commits = 0
    /\ digests = {}

\* commit; a blinding of 0 is only ever the caller's.
Commit(message, blinding) ==
    /\ commits < MaxCommits                                               \* bound
    /\ value' = Com(message, blinding)
    /\ commits' = commits + 1
    /\ result' = None
    /\ UNCHANGED <<proof, made, digests>>

\* generate_proof, which does not check that message and blinding open the
\* commitment.
GenerateProof(message, blinding, k1, k2, digest) ==
    LET t == Com(k1, k2)
        e == Reduce(digest)
    IN  /\ value # None
        /\ proof = None                             \* bound: one proof is made
        /\ Hash(value, t, digest)
        /\ proof' = [t |-> t, s1 |-> Response(k1, e, message), s2 |-> Response(k2, e, blinding)]
        /\ made' = [commitment |-> value, message |-> message, blinding |-> blinding, e |-> e]
        /\ result' = None
        /\ UNCHANGED <<value, commits>>

VerifyProof(digest) ==
    /\ proof # None
    /\ IF InRange(value, proof)
       THEN /\ Hash(value, proof.t, digest)
            /\ result' = Equation(value, proof, Reduce(digest))
       ELSE result' = FALSE /\ UNCHANGED digests
    /\ UNCHANGED <<value, commits, proof, made>>

Next ==
    \/ \E message \in Message \cup {Reduce(d) : d \in Digest}, blinding \in Blinding :
          \/ Commit(message, blinding)
          \/ \E k1, k2 \in Nonce, digest \in Digest :
                GenerateProof(message, blinding, k1, k2, digest)
    \/ \E digest \in Digest : VerifyProof(digest)

Spec == Init /\ [][Next]_vars

-----------------------------------------------------------------------------
\* The challenge of the transcript that verify_proof hashed.
Challenge ==
    Reduce((CHOOSE d \in digests : d.commitment = value /\ d.t = proof.t).digest)

\* A proof made from an opening of the commitment verifies, whatever the
\* nonces, the challenge and the commitment are: 0 and 1 included
\* (schnorr.py:78-88, 112-117).
HonestProofsVerify ==
    result # None /\ made.commitment = value
        /\ VerifyOpening(value, made.message, made.blinding) => result

\* Of the proofs that generate_proof makes (nobody forges one here), a proof
\* that verifies was made from an opening of the commitment it is checked
\* against, though generate_proof does not look, or the challenges it got are an
\* accident: 0, if that commitment is the one it was made for
\* (schnorr.py:50-60, 112-117).
AcceptedProofsKnow ==
    result = TRUE =>
        \/ VerifyOpening(value, made.message, made.blinding)
        \/ /\ Pow(Com(made.message, made.blinding), made.e) = Pow(value, Challenge)
           /\ made.commitment = value => made.e = 0

\* "(s1 + Q, s2) verifies identically to (s1, s2)" (schnorr.py:20-23).
ReencodedProofsVerifyAlike ==
    result # None =>
        \A p \in {[proof EXCEPT !.s1 = @ + Q], [proof EXCEPT !.s2 = @ + Q]} :
            result = (InRange(value, p) /\ Equation(value, p, Challenge))

\* "for any two messages there exists a blinding" that gives the same
\* commitment, and for each of those openings there are nonces that give the
\* same proof: neither shows which opening was used (pedersen.py:3-7,
\* schnorr.py:1-8, 84-88).
OpeningStaysHidden ==
    /\ value # None =>
          \A message \in Scalars : \E blinding \in Scalars : value = Com(message, blinding)
    /\ proof # None /\ VerifyOpening(made.commitment, made.message, made.blinding) =>
          \A message, blinding \in Scalars :
              made.commitment = Com(message, blinding) =>
                  \E k1, k2 \in Scalars :
                      /\ proof.t = Com(k1, k2)
                      /\ proof.s1 = Response(k1, made.e, message)
                      /\ proof.s2 = Response(k2, made.e, blinding)
=============================================================================
