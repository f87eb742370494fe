---------------------------- MODULE BlindExchange ----------------------------
(***************************************************************************)
(* What the blind exchange promises the two sides of every pair            *)
(* (docs/adr/0006): while reviews may be written, either both become        *)
(* visible in one step or neither, nobody begins one with the other's in    *)
(* view, and what is written is neither withdrawn nor hidden again.         *)
(* Reviews is shown to implement it.                                        *)
(***************************************************************************)
CONSTANT Pairs  \* who writes, and about whom

VARIABLES
  writing,  \* the reviews being submitted
  hidden,   \* written, and seen by nobody
  shown,    \* published
  over      \* no review may be begun any more

vars == <<writing, hidden, shown, over>>

Opposite(p) == <<p[2], p[1]>>

Init ==
  /\ writing = {} /\ hidden = {} /\ shown = {}
  /\ over = FALSE

Begin(p) ==
  /\ ~over
  /\ p \notin writing \cup hidden \cup shown
  /\ Opposite(p) \notin shown
  /\ writing' = writing \cup {p}
  /\ UNCHANGED <<hidden, shown, over>>

Abandon(p) ==
  /\ p \in writing
  /\ writing' = writing \ {p}
  /\ UNCHANGED <<hidden, shown, over>>

Hide(p) ==
  /\ p \in writing
  /\ writing' = writing \ {p}
  /\ hidden' = hidden \cup {p}
  /\ UNCHANGED <<shown, over>>

\* The second of the two makes both visible; afterwards the first may be already.
Exchange(p) ==
  /\ p \in writing
  /\ Opposite(p) \in hidden \/ (over /\ Opposite(p) \in shown)
  /\ writing' = writing \ {p}
  /\ hidden' = hidden \ {Opposite(p)}
  /\ shown' = shown \cup {p, Opposite(p)}
  /\ UNCHANGED over

\* A review without an answer is shown when there can be none.
Show(p) ==
  /\ over
  /\ p \in hidden
  /\ hidden' = hidden \ {p}
  /\ shown' = shown \cup {p}
  /\ UNCHANGED <<writing, over>>

Close ==
  /\ over' = TRUE
  /\ UNCHANGED <<writing, hidden, shown>>

Next ==
  \/ \E p \in Pairs : Begin(p) \/ Abandon(p) \/ Hide(p) \/ Exchange(p) \/ Show(p)
  \/ Close

Spec == Init /\ [][Next]_vars
=============================================================================
