---------------------------- MODULE Verification ----------------------------
(***************************************************************************)
(* VerificationService: one-time codes and magic links of one target and   *)
(* purpose.  Guesses overlap: each reads the newest unused challenge,      *)
(* compares, and then writes with a guarded UPDATE.  Hashes are left out:  *)
(* a guess is right or wrong.                                              *)
(***************************************************************************)
EXTENDS Naturals, FiniteSets

CONSTANTS
    MaxChallenges,  \* challenges sent in a behaviour
    Guessers,       \* requests under way at the same time
    MaxAttempts,    \* MAX_ATTEMPTS
    MaxRecent       \* codes per target and minute

VARIABLES
    challenge,  \* verification_challenges in order of creation
    asked,      \* requests: the challenge read, and whether the guess is right
    tried,      \* wrong codes compared with each challenge
    accepted    \* how often each challenge let somebody in

vars == <<challenge, asked, tried, accepted>>

Challenges == 1..MaxChallenges
\* recent: created within the last minute; a magic link has no code.
ChallengeType == [kind : {"none", "code", "magic"}, attempts : 0..MaxAttempts, used : BOOLEAN,
                  expired : BOOLEAN, recent : BOOLEAN]
AskType == [at : {"idle", "save", "wrong", "right", "magic"}, on : 0..MaxChallenges]

NoChallenge == [kind |-> "none", attempts |-> 0, used |-> FALSE, expired |-> FALSE,
                recent |-> FALSE]
Idle == [at |-> "idle", on |-> 0]

Init ==
    /\ challenge = [c \in Challenges |-> NoChallenge]
    /\ asked = [p \in Guessers |-> Idle]
    /\ tried = [c \in Challenges |-> 0]
    /\ accepted = [c \in Challenges |-> 0]

Sent == {c \in Challenges : challenge[c].kind # "none"}
Unused == {c \in Sent : ~challenge[c].used}
Continue(p, at, c) == asked' = [asked EXCEPT ![p] = [at |-> at, on |-> c]]
End(p) == Continue(p, "idle", 0)
At(p, step) == asked[p].at = step

Insert(kind) ==
    \E c \in Challenges :
        /\ Sent = 1..(c - 1)
        /\ challenge' = [challenge EXCEPT ![c] = [NoChallenge EXCEPT !.kind = kind, !.recent = TRUE]]

\* sendCode: the rate limit is counted before the row is saved.
SendCount(p) ==
    /\ At(p, "idle")
    /\ Cardinality({c \in Sent : challenge[c].recent}) < MaxRecent
    /\ Continue(p, "save", 0)
    /\ UNCHANGED <<challenge, tried, accepted>>

SendSave(p) ==
    /\ At(p, "save")
    /\ Insert("code")
    /\ End(p)
    /\ UNCHANGED <<tried, accepted>>

\* createMagicLink has no limit of its own.
SendMagic ==
    /\ Insert("magic")
    /\ UNCHANGED <<asked, tried, accepted>>

Newest(S) == CHOOSE c \in S : \A d \in S : d <= c

\* verifyCode: the newest unused challenge of the target, whatever its kind; a
\* magic link has no code, so no guess matches it.
Guess(p, right) ==
    LET c == Newest(Unused)
    IN /\ At(p, "idle") /\ Unused # {}
       /\ ~challenge[c].expired /\ challenge[c].attempts < MaxAttempts
       /\ right => challenge[c].kind = "code"
       /\ Continue(p, IF right THEN "right" ELSE "wrong", c)
       /\ tried' = IF right THEN tried ELSE [tried EXCEPT ![c] = @ + 1]
       /\ UNCHANGED <<challenge, accepted>>

\* [mutant] Counting looks at the challenge read before: overlapping guesses
\* count once.
CountAsRead(p) == challenge[asked[p].on].attempts = 0
\* [mutant] Counting does not look at the limit.
CountUnused(p) == ~challenge[asked[p].on].used
MayCount(p) ==
    LET c == challenge[asked[p].on] IN ~c.used /\ c.attempts < MaxAttempts

WrongCode(p) ==
    /\ At(p, "wrong")
    /\ challenge' = IF MayCount(p)
                    THEN [challenge EXCEPT ![asked[p].on].attempts = @ + 1] ELSE challenge
    /\ End(p)
    /\ UNCHANGED <<tried, accepted>>

\* [mutant] Consumed although another request has consumed it.
ConsumeRead(p) == ~challenge[asked[p].on].expired
MayConsume(p) ==
    LET c == challenge[asked[p].on]
    IN ~c.used /\ ~c.expired /\ (At(p, "right") => c.attempts < MaxAttempts)

Consume(p) ==
    /\ At(p, "right") \/ At(p, "magic")
    /\ IF MayConsume(p)
       THEN /\ challenge' = [challenge EXCEPT ![asked[p].on].used = TRUE]
            /\ accepted' = [accepted EXCEPT ![asked[p].on] = @ + 1]
       ELSE UNCHANGED <<challenge, accepted>>
    /\ End(p)
    /\ UNCHANGED tried

\* consumeMagic: by its own token.
OpenMagic(p, c) ==
    /\ At(p, "idle") /\ c \in Unused
    /\ challenge[c].kind = "magic" /\ ~challenge[c].expired
    /\ Continue(p, "magic", c)
    /\ UNCHANGED <<challenge, tried, accepted>>

Expire(c) ==
    /\ c \in Sent /\ ~challenge[c].expired
    /\ challenge' = [challenge EXCEPT ![c].expired = TRUE, ![c].recent = FALSE]
    /\ UNCHANGED <<asked, tried, accepted>>

MinutePasses(c) ==
    /\ c \in Sent /\ challenge[c].recent
    /\ challenge' = [challenge EXCEPT ![c].recent = FALSE]
    /\ UNCHANGED <<asked, tried, accepted>>

Next ==
    \/ \E p \in Guessers :
        \/ SendCount(p) \/ SendSave(p)
        \/ \E right \in BOOLEAN : Guess(p, right)
        \/ WrongCode(p) \/ Consume(p)
        \/ \E c \in Challenges : OpenMagic(p, c)
    \/ SendMagic
    \/ \E c \in Challenges : Expire(c) \/ MinutePasses(c)

Spec == Init /\ [][Next]_vars

-----------------------------------------------------------------------------
TypeOK ==
    /\ challenge \in [Challenges -> ChallengeType]
    /\ asked \in [Guessers -> AskType]
    /\ tried \in [Challenges -> Nat]
    /\ accepted \in [Challenges -> Nat]

\* One code, one login (verifyCode, consumeMagic): however many requests found a
\* challenge unused, it lets one of them in.
AcceptedOnce == \A c \in Challenges : accepted[c] <= 1

\* The attempt limit under overlapping guesses (verifyCode): beyond MaxAttempts
\* only guesses that were compared at the same time get through.
GuessesBounded ==
    \A c \in Challenges :
        tried[c] < MaxAttempts + Cardinality(Guessers)
=============================================================================
