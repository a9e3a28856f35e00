CONSTANTS
    None = None
    P = 23
    G = 2
    Candidate = 7
    Message <- MCMessage
    Blinding <- MCBlinding
    Nonce <- MCNonce
    Digest <- MCDigest
    MaxCommits = 2
SPECIFICATION Spec
INVARIANTS
    HonestProofsVerify
    AcceptedProofsKnow
    ReencodedProofsVerifyAlike
    OpeningStaysHidden
