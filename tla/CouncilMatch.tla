---------------------------- MODULE CouncilMatch ----------------------------
(***************************************************************************)
(* What a room promises about one match, whoever is connected and however  *)
(* the events arrive: the phases in their order, who is still alive, and   *)
(* when the match is over.  RoomState is shown to implement it.            *)
(***************************************************************************)
EXTENDS Naturals, FiniteSets

CONSTANTS People, None

VARIABLES
    stage,     \* the phase
    night,     \* how many nights have begun
    living,
    killers,   \* dealt at the start; the others learn it only at the end
    speaker,   \* whose last words are heard
    winner

matchVars == <<stage, night, living, killers, speaker, winner>>

Settled(L) ==
    \/ L \cap killers = {}
    \/ Cardinality(L \cap killers) >= Cardinality(L \ killers)

Verdict(L) == IF L \cap killers = {} THEN "VILLAGERS" ELSE "KILLERS"

NoMatch ==
    /\ stage = "WAITING" /\ night = 0
    /\ living = {} /\ killers = {} /\ speaker = None /\ winner = None

Begin ==
    /\ stage = "WAITING" /\ stage' = "NIGHT" /\ night' = 1
    /\ living' \in SUBSET People
    /\ \E k \in living' : killers' = {k}
    /\ UNCHANGED <<speaker, winner>>

\* The match is over exactly when L settles it; else it goes on.
CloseWith(L) ==
    /\ Settled(L)
    /\ stage' = "FINISHED" /\ winner' = Verdict(L)
    /\ living' = {} /\ killers' = {} /\ speaker' = None
    /\ UNCHANGED night

GoOnWith(L, next, n) ==
    /\ ~Settled(L)
    /\ stage' = next /\ night' = n /\ living' = L /\ speaker' = None
    /\ UNCHANGED <<killers, winner>>

NightEnds ==
    /\ stage = "NIGHT"
    /\ \E L \in {living} \cup {living \ {v} : v \in living} :
          CloseWith(L) \/ GoOnWith(L, "DAY_DISCUSSION", night)

VotingOpens ==
    /\ stage = "DAY_DISCUSSION" /\ stage' = "DAY_VOTING"
    /\ UNCHANGED <<night, living, killers, speaker, winner>>

\* One of L is executed and speaks before anyone looks for a winner.
Verdicts(L) ==
    \/ \E t \in L :
          /\ stage' = "LAST_WORDS" /\ speaker' = t /\ living' = L \ {t}
          /\ UNCHANGED <<night, killers, winner>>
    \/ CloseWith(L)
    \/ GoOnWith(L, "NIGHT", night + 1)

VotingEnds == stage = "DAY_VOTING" /\ Verdicts(living)

\* A shot may be the last thing the ballot was waiting for.
Shot ==
    /\ stage \in {"DAY_DISCUSSION", "DAY_VOTING"}
    /\ \E t \in living :
          \/ CloseWith(living \ {t})
          \/ GoOnWith(living \ {t}, stage, night)
          \/ /\ stage = "DAY_VOTING" /\ ~Settled(living \ {t})
             /\ Verdicts(living \ {t})

SpeechEnds ==
    /\ stage = "LAST_WORDS"
    /\ CloseWith(living) \/ GoOnWith(living, "NIGHT", night + 1)

CallOff ==
    /\ stage # "WAITING" /\ stage' = "WAITING" /\ night' = 0
    /\ living' = {} /\ killers' = {} /\ speaker' = None /\ winner' = None

MatchNext ==
    Begin \/ NightEnds \/ VotingOpens \/ VotingEnds \/ Shot \/ SpeechEnds \/ CallOff

MatchSpec == NoMatch /\ [][MatchNext]_matchVars

=============================================================================
