---------------------------- MODULE GameweekProofs ----------------------------
(***************************************************************************)
(* What holds of a gameweek for any number of preparers, runs, contents of *)
(* evidence and journal records, overlapping and killed runs included.     *)
(*                                                                         *)
(* Every run writes under names of its own and names the files of others.  *)
(* A name is only worth something when the file behind it can not change   *)
(* any more; the one way it can is that its writer is still at work, and   *)
(* then two runs worked on the evidence at once and the history variable   *)
(* "overlapped" says so.  That is what the Named predicates express.       *)
(***************************************************************************)
EXTENDS DecisionJournal, FiniteSetTheorems, TLAPS

-----------------------------------------------------------------------------
(* How far a run is *)

BeforeState       == {"idle", "state", "newstate"}
StateOpen         == BeforeState \cup {"fillstate"}
BeforeDecision    == StateOpen \cup {"movestate", "receipt", "decision", "newdecision"}
DecisionOpen      == BeforeDecision \cup {"filldecision"}
BeforeReliability == DecisionOpen \cup {"movedecision", "reliability", "newreliability"}
ReliabilityOpen   == BeforeReliability \cup {"fillreliability"}

GameweekWritten == {"unlinkgameweek", "final", "unlinkfinal"}
Timed           == {"assemble"} \cup GameweekWritten
Binding         == {"gameweek"} \cup Timed
Loaded          == {"newreliability", "fillreliability", "movereliability"} \cup Binding
DecisionKnown   == {"reliability"} \cup Loaded
Completing      == {"unlinkfinal", "verify", "done"}
HasState        == {"receipt", "decision", "newdecision", "filldecision", "movedecision",
                    "verify", "done"} \cup DecisionKnown

-----------------------------------------------------------------------------
(* Files that can be relied on *)

(* State file s was adopted for evidence e, or written by its own run. *)
NamedState(s, e) ==
  /\ s \in Run /\ run[s].ev = e /\ e \in Supported
  /\ run[s].pc \notin StateOpen
  /\ statefile[s] = None \/ run[s].pc = "movestate" => e \in overlapped
  /\ statefile[s] # None => statefile[s].stage # "torn"

(* Decision d was found for state s: if it is there, it is for that state. *)
FoundDecision(d, s) ==
  /\ d \in Run /\ run[d].pc \notin DecisionOpen
  /\ decision[d] # None => decision[d].state.by = s

(* Decision d was read for state s. *)
NamedDecision(d, s) ==
  /\ d \in Run /\ decision[d] # None
  /\ decision[d].stage = "final" /\ decision[d].state.by = s

(* Reliability report q was read for decision d. *)
NamedReliability(q, d, s, e) ==
  /\ q \in Run /\ run[q].pc \notin ReliabilityOpen
  /\ reliability[q] = None \/ run[q].pc = "movereliability" => e \in overlapped
  /\ reliability[q] # None => /\ reliability[q].stage # "torn"
                              /\ reliability[q].decision = d /\ reliability[q].state = s

StateBefore(s, at) == statefile[s] # None => statefile[s].at <= at

-----------------------------------------------------------------------------
(* The inductive invariant of the runs *)

StateRow(r) ==
  LET f == statefile[r]
      l == run[r].pc IN
  /\ l \in BeforeState => f = None
  /\ l = "fillstate" => f # None /\ f.stage = "torn"
  /\ l = "movestate" => f # None /\ f.stage = "whole"
  /\ l \notin {"fillstate", "movestate", "dead"} /\ f # None => f.stage = "final"
  /\ f # None => /\ f.ev = run[r].ev /\ f.ev \in Supported
                 /\ f.at <= now /\ f.at < Deadline

DecisionRow(r) ==
  LET f == decision[r]
      l == run[r].pc IN
  /\ l \in BeforeDecision => f = None
  /\ l = "filldecision" => f # None /\ f.stage = "torn"
  /\ l = "movedecision" => f # None /\ f.stage = "whole"
  /\ l \in {"filldecision", "movedecision"} => f.state = run[r].state
  /\ l \notin {"filldecision", "movedecision", "dead"} /\ f # None => f.stage = "final"
  /\ f # None => NamedState(f.state.by, run[r].ev)

ReliabilityRow(r) ==
  LET f == reliability[r]
      l == run[r].pc IN
  /\ l \in BeforeReliability => f = None
  /\ l = "fillreliability" => f # None /\ f.stage = "torn"
  /\ l = "movereliability" => f # None /\ f.stage = "whole"
  /\ l \in {"fillreliability", "movereliability"} =>
       f.state = run[r].state.by /\ f.decision = run[r].decision
  /\ l \notin {"fillreliability", "movereliability", "dead"} /\ f # None => f.stage = "final"
  /\ f # None => NamedState(f.state, run[r].ev) /\ NamedDecision(f.decision, f.state)

RunRow(r) ==
  LET t == run[r]
      s == t.state.by IN
  /\ t.pc = "idle" => t.ev = None
  /\ t.pc # "idle" => t.ev \in Evidence
  /\ t.pc \notin {"idle", "failed", "dead"} => t.ev \in Supported
  /\ t.pc \in {"newstate"} \cup Timed => t.at <= now /\ t.at < Deadline
  /\ t.pc \in HasState => /\ t.state \in Path /\ t.state.stage # "torn"
                          /\ NamedState(s, t.ev)
  /\ t.pc \in DecisionKnown => FoundDecision(t.decision, s)
  /\ t.pc \in Loaded => NamedDecision(t.decision, s)
  /\ t.pc \in Binding => /\ t.reliability \in Path
                         /\ NamedReliability(t.reliability.by, t.decision, s, t.ev)
  /\ t.pc \in Timed => StateBefore(s, t.at)
  /\ t.pc \in GameweekWritten => gameweek[s] = Built(r)
  /\ t.pc \in Completing => final[s] # None

GameweekRow(s) ==
  LET g == gameweek[s] IN
  g # None => /\ NamedState(s, run[s].ev) /\ NamedDecision(g.decision, s)
              /\ NamedReliability(g.reliability, g.decision, s, run[s].ev)

FinalRow(s) ==
  LET f == final[s] IN
  f # None => /\ gameweek[s] = [decision |-> f.decision, reliability |-> f.reliability]
              /\ f.at <= now /\ f.at < Deadline /\ StateBefore(s, f.at)

(* Two runs that are at work on the same evidence have been noticed. *)
OverlapsSeen ==
  /\ overlapped \subseteq Evidence
  /\ \A q, r \in Run : q # r /\ Live(q) /\ Live(r) /\ run[q].ev = run[r].ev =>
       run[r].ev \in overlapped

Shapes ==
  /\ now \in Time /\ faults \in 0 .. MaxFaults
  /\ run \in [Run -> RunState]
  /\ statefile \in [Run -> StateFile \cup {None}]
  /\ decision \in [Run -> Decision \cup {None}]
  /\ reliability \in [Run -> Reliability \cup {None}]
  /\ gameweek \in [Run -> Gameweek \cup {None}]
  /\ final \in [Run -> Final \cup {None}]
  /\ receipt \in [Evidence -> Path \cup {None}]
  /\ doubled \subseteq Run

RunsInv ==
  /\ Shapes /\ OverlapsSeen
  /\ \A r \in Run : /\ RunRow(r)
                    /\ StateRow(r) /\ DecisionRow(r) /\ ReliabilityRow(r)
                    /\ GameweekRow(r) /\ FinalRow(r)
-----------------------------------------------------------------------------
(* What every step does to the files *)

(* Run q goes on: its evidence stays, and a file it has finished stays as well. *)
Onward(q) ==
  /\ run[q].pc # "idle" => run'[q].ev = run[q].ev /\ run'[q].pc # "idle"
  /\ run[q].pc \notin StateOpen =>
       /\ run'[q].pc \notin StateOpen
       /\ run'[q].pc = "movestate" => run[q].pc = "movestate"
       /\ \/ statefile'[q] = statefile[q]
          \/ /\ run[q].pc = "movestate"
             /\ statefile'[q] # None => /\ statefile'[q].stage # "torn"
                                        /\ statefile'[q].at = statefile[q].at
  /\ run[q].pc \notin DecisionOpen =>
       /\ run'[q].pc \notin DecisionOpen
       /\ \/ decision'[q] = decision[q]
          \/ /\ run[q].pc = "movedecision"
             /\ decision'[q] # None => decision'[q].state = decision[q].state
  /\ run[q].pc \notin ReliabilityOpen =>
       /\ run'[q].pc \notin ReliabilityOpen
       /\ run'[q].pc = "movereliability" => run[q].pc = "movereliability"
       /\ \/ reliability'[q] = reliability[q]
          \/ /\ run[q].pc = "movereliability"
             /\ reliability'[q] # None => /\ reliability'[q].stage # "torn"
                                          /\ reliability'[q].decision = reliability[q].decision
                                          /\ reliability'[q].state = reliability[q].state

Progress ==
  /\ now <= now' /\ overlapped \subseteq overlapped'
  /\ \A q \in Run : Onward(q)
  /\ \A s \in Run : gameweek[s] # None => gameweek'[s] = gameweek[s]
  /\ \A s \in Run : final[s] # None => final'[s] = final[s]

(* What can be relied on stays so. *)
LEMMA NamedStateStays ==
  ASSUME RunsInv, Progress, NEW s \in Run, NEW e, NamedState(s, e)
  PROVE  NamedState(s, e)'
<1>1. /\ run[s].pc \notin StateOpen /\ run[s].pc # "idle" /\ Onward(s)
      /\ run[s].ev = e /\ e \in Supported
  BY DEF Progress, NamedState, StateOpen, BeforeState
<1>2. run[s].pc = "movestate" => statefile[s] # None
  BY DEF RunsInv, StateRow
<1> QED BY <1>1, <1>2 DEF NamedState, Progress, Onward

LEMMA FoundDecisionStays ==
  ASSUME RunsInv, Progress, NEW d \in Run, NEW s, FoundDecision(d, s)
  PROVE  FoundDecision(d, s)'
<1>1. Onward(d)
  BY DEF Progress
<1>2. run[d].pc = "movedecision" => decision[d] # None
  BY DEF RunsInv, DecisionRow
<1> QED BY <1>1, <1>2 DEF FoundDecision, Onward

LEMMA NamedDecisionStays ==
  ASSUME RunsInv, Progress, NEW d \in Run, NEW s, NamedDecision(d, s)
  PROVE  NamedDecision(d, s)'
<1>1. Onward(d)
  BY DEF Progress
<1>2. run[d].pc \notin DecisionOpen \cup {"movedecision"}
  BY DEF RunsInv, DecisionRow, NamedDecision, DecisionOpen
<1> QED BY <1>1, <1>2 DEF NamedDecision, Onward

LEMMA NamedReliabilityStays ==
  ASSUME RunsInv, Progress, NEW q \in Run, NEW d, NEW s, NEW e, NamedReliability(q, d, s, e)
  PROVE  NamedReliability(q, d, s, e)'
<1>1. Onward(q) /\ overlapped \subseteq overlapped'
  BY DEF Progress
<1>2. run[q].pc = "movereliability" => reliability[q] # None
  BY DEF RunsInv, ReliabilityRow
<1> QED BY <1>1, <1>2 DEF NamedReliability, Onward

LEMMA StateBeforeStays ==
  ASSUME RunsInv, Progress, NEW s \in Run, NEW e, NEW at, NamedState(s, e), StateBefore(s, at)
  PROVE  StateBefore(s, at)'
<1>1. Onward(s) /\ run[s].pc \notin StateOpen
  BY DEF Progress, NamedState
<1>2. run[s].pc = "movestate" => statefile[s] # None
  BY DEF RunsInv, StateRow
<1> QED BY <1>1, <1>2 DEF StateBefore, Onward

(* What run q knows and has written stays so while another run goes on. *)
LEMMA RowsStay ==
  ASSUME RunsInv, Progress, now \in Time, now' \in Time, NEW q \in Run,
         run'[q] = run[q], statefile'[q] = statefile[q], decision'[q] = decision[q],
         reliability'[q] = reliability[q]
  PROVE  RunRow(q)' /\ StateRow(q)' /\ DecisionRow(q)' /\ ReliabilityRow(q)'
<1> USE TimeAssumption
<1>1. now <= now'
  BY DEF Progress
<1>2. StateRow(q)'
  BY <1>1 DEF RunsInv, StateRow, Shapes, StateFile, Time
<1>3. DecisionRow(q)'
  <2>1. decision[q] # None => NamedState(decision[q].state.by, run[q].ev)'
    BY NamedStateStays DEF RunsInv, DecisionRow, NamedState
  <2> QED BY <2>1 DEF RunsInv, DecisionRow
<1>4. ReliabilityRow(q)'
  <2>1. reliability[q] # None => /\ NamedState(reliability[q].state, run[q].ev)'
                                 /\ NamedDecision(reliability[q].decision, reliability[q].state)'
    BY NamedStateStays, NamedDecisionStays DEF RunsInv, ReliabilityRow, NamedState, NamedDecision
  <2> QED BY <2>1 DEF RunsInv, ReliabilityRow
<1>5. RunRow(q)'
  <2> DEFINE t == run[q]
  <2>1. t.pc \in HasState => NamedState(t.state.by, t.ev)'
    BY NamedStateStays DEF RunsInv, RunRow, NamedState
  <2>2. t.pc \in DecisionKnown => FoundDecision(t.decision, t.state.by)'
    BY FoundDecisionStays DEF RunsInv, RunRow, FoundDecision
  <2>3. t.pc \in Loaded => NamedDecision(t.decision, t.state.by)'
    BY NamedDecisionStays DEF RunsInv, RunRow, NamedDecision
  <2>4. t.pc \in Binding =>
          NamedReliability(t.reliability.by, t.decision, t.state.by, t.ev)'
    <3>1. ASSUME t.pc \in Binding
          PROVE  /\ t.reliability.by \in Run
                 /\ NamedReliability(t.reliability.by, t.decision, t.state.by, t.ev)
      BY <3>1 DEF RunsInv, RunRow, NamedReliability
    <3> QED BY <3>1, NamedReliabilityStays
  <2>5. t.pc \in Timed => StateBefore(t.state.by, t.at)'
    BY StateBeforeStays DEF RunsInv, RunRow, Timed, GameweekWritten, HasState, DecisionKnown,
                            Loaded, Binding, NamedState
  <2>6. t.pc \in GameweekWritten => gameweek'[t.state.by] = Built(q)
    <3>1. t.pc \in GameweekWritten => /\ t.state.by \in Run /\ Built(q) # None
                                      /\ gameweek[t.state.by] = Built(q)
      <4>1. t.pc \in GameweekWritten => t.state \in Path /\ t.decision \in Run
                                        /\ t.reliability \in Path
        BY DEF RunsInv, RunRow, HasState, DecisionKnown, Loaded, Binding, Timed,
               GameweekWritten, FoundDecision
      <4>2. t.pc \in GameweekWritten => Built(q) \in Gameweek
        BY <4>1 DEF Built, Gameweek, Path
      <4> QED BY <4>1, <4>2, AbsentAssumption DEF RunsInv, RunRow, Path
    <3> QED BY <3>1 DEF Progress
  <2>7. t.pc \in Completing => final'[t.state.by] # None
    BY DEF RunsInv, RunRow, Progress, Completing, HasState, DecisionKnown, Loaded, Binding,
           Timed, GameweekWritten, NamedState
  <2>8. t.pc \in {"newstate"} \cup Timed => t.at <= now' /\ t.at < Deadline
    BY <1>1 DEF RunsInv, RunRow, Shapes, RunState, Time
  <2> QED BY <2>1, <2>2, <2>3, <2>4, <2>5, <2>6, <2>7, <2>8 DEF RunsInv, RunRow, Built
<1> QED BY <1>2, <1>3, <1>4, <1>5

LEMMA KeysStay ==
  ASSUME RunsInv, Progress, now \in Time, now' \in Time, NEW s \in Run
  PROVE  /\ gameweek'[s] = gameweek[s] => GameweekRow(s)'
         /\ gameweek'[s] = gameweek[s] /\ final'[s] = final[s] => FinalRow(s)'
<1>1. ASSUME gameweek[s] # None
      PROVE  /\ gameweek'[s] = gameweek[s] /\ run'[s].ev = run[s].ev
             /\ NamedState(s, run[s].ev)'
             /\ NamedDecision(gameweek[s].decision, s)'
             /\ NamedReliability(gameweek[s].reliability, gameweek[s].decision, s, run[s].ev)'
  <2>1. /\ NamedState(s, run[s].ev)
        /\ gameweek[s].decision \in Run /\ gameweek[s].reliability \in Run
        /\ NamedDecision(gameweek[s].decision, s)
        /\ NamedReliability(gameweek[s].reliability, gameweek[s].decision, s, run[s].ev)
    BY <1>1 DEF RunsInv, GameweekRow, NamedDecision, NamedReliability
  <2>2. run'[s].ev = run[s].ev
    BY <2>1 DEF Progress, Onward, NamedState, StateOpen, BeforeState
  <2> QED BY <1>1, <2>1, <2>2, NamedStateStays, NamedDecisionStays, NamedReliabilityStays
          DEF Progress
<1>2. gameweek'[s] = gameweek[s] => GameweekRow(s)'
  BY <1>1 DEF GameweekRow
<1>3. ASSUME gameweek'[s] = gameweek[s], final'[s] = final[s] PROVE FinalRow(s)'
  <2> SUFFICES ASSUME final[s] # None PROVE FinalRow(s)'
    BY <1>3 DEF FinalRow
  <2>1. /\ final[s].at <= now /\ final[s].at < Deadline /\ StateBefore(s, final[s].at)
        /\ gameweek[s] = [decision |-> final[s].decision, reliability |-> final[s].reliability]
        /\ final[s].at \in Time /\ final[s].decision \in Run /\ final[s].reliability \in Run
    BY DEF RunsInv, FinalRow, Shapes, Final
  <2>2. gameweek[s] # None
    <3>1. gameweek[s] \in Gameweek
      BY <2>1 DEF Gameweek
    <3> QED BY <3>1, AbsentAssumption
  <2>3. NamedState(s, run[s].ev)
    BY <2>2 DEF RunsInv, GameweekRow
  <2>4. final[s].at <= now'
    BY <2>1, TimeAssumption DEF Progress, Time
  <2>5. statefile'[s] # None => statefile'[s].at <= final[s].at
    <3>1. \A at : StateBefore(s, at) => StateBefore(s, at)'
      BY <2>3, StateBeforeStays
    <3> QED BY <2>1, <3>1 DEF StateBefore
  <2> QED BY <1>3, <2>1, <2>4, <2>5 DEF FinalRow, StateBefore
<1> QED BY <1>2, <1>3

(* The step of one run: it may have a row of its own to account for, and one
   gameweek decision or manifest. *)
ElseSame(r) ==
  \A q \in Run \ {r} : /\ run'[q] = run[q] /\ statefile'[q] = statefile[q]
                       /\ decision'[q] = decision[q] /\ reliability'[q] = reliability[q]

KeysGrow == /\ \A s \in Run : gameweek[s] # None => gameweek'[s] = gameweek[s]
            /\ \A s \in Run : final[s] # None => final'[s] = final[s]

LEMMA OneRunMoves ==
  ASSUME RunsInv, NEW r \in Run, Shapes', ElseSame(r), Onward(r), KeysGrow,
         now <= now', overlapped \subseteq overlapped'
  PROVE  Progress
<1>1. \A q \in Run \ {r} : Onward(q)
  BY DEF ElseSame, Onward
<1> QED BY <1>1 DEF Progress, KeysGrow

LEMMA Assembled ==
  ASSUME RunsInv, NEW r \in Run, Shapes', ElseSame(r), Progress, OverlapsSeen',
         RunRow(r)', StateRow(r)', DecisionRow(r)', ReliabilityRow(r)',
         \A s \in Run : gameweek'[s] = gameweek[s] \/ GameweekRow(s)',
         \A s \in Run : (gameweek'[s] = gameweek[s] /\ final'[s] = final[s]) \/ FinalRow(s)'
  PROVE  RunsInv'
<1>1. now \in Time /\ now' \in Time
  BY DEF RunsInv, Shapes
<1>2. \A q \in Run \ {r} : RunRow(q)' /\ StateRow(q)' /\ DecisionRow(q)' /\ ReliabilityRow(q)'
  BY <1>1, RowsStay DEF ElseSame
<1>3. \A s \in Run : GameweekRow(s)' /\ FinalRow(s)'
  BY <1>1, KeysStay
<1>4. \A q \in Run : RunRow(q)' /\ StateRow(q)' /\ DecisionRow(q)' /\ ReliabilityRow(q)'
  BY <1>2
<1> QED BY <1>3, <1>4 DEF RunsInv

(* No run becomes one that is at work on evidence it was not at work on. *)
LEMMA OverlapsStaySeen ==
  ASSUME RunsInv, NEW r \in Run, ElseSame(r), overlapped' = overlapped,
         run'[r].ev = run[r].ev, Live(r)
  PROVE  OverlapsSeen'
  BY DEF RunsInv, OverlapsSeen, ElseSame, Live

-----------------------------------------------------------------------------
(* Steps that write no file of their own *)

Writing == {"fillstate", "movestate", "filldecision", "movedecision", "fillreliability",
            "movereliability"}

Forward(l, m) ==
  /\ m \in BeforeState => l \in BeforeState
  /\ m \in BeforeDecision => l \in BeforeDecision
  /\ m \in BeforeReliability => l \in BeforeReliability

(* Run r goes from l to m, or is killed, and leaves its own files alone. *)
LEMMA FilesRowsStay ==
  ASSUME RunsInv, NEW r \in Run, now' = now, UNCHANGED <<statefile, decision, reliability>>,
         overlapped \subseteq overlapped', run' \in [Run -> RunState], ElseSame(r), KeysGrow,
         run[r].pc # "idle" => run'[r].ev = run[r].ev,
         run'[r].pc # "idle", run[r].pc # "dead",
         \/ run'[r].pc = "dead"
         \/ /\ run[r].pc \notin Writing /\ run'[r].pc \notin Writing
            /\ Forward(run[r].pc, run'[r].pc)
  PROVE  Progress /\ StateRow(r)' /\ DecisionRow(r)' /\ ReliabilityRow(r)'
<1> DEFINE l == run[r].pc
           m == run'[r].pc
<1>0. l \in RunLabels /\ m \in RunLabels
  BY DEF RunsInv, Shapes, RunState
<1>1. /\ l \notin StateOpen => m \notin StateOpen \cup {"movestate"}
      /\ l \notin DecisionOpen => m \notin DecisionOpen \cup {"movedecision"}
      /\ l \notin ReliabilityOpen => m \notin ReliabilityOpen \cup {"movereliability"}
  BY DEF Forward, Writing, StateOpen, DecisionOpen, ReliabilityOpen, BeforeState, BeforeDecision,
         BeforeReliability
<1>2. Onward(r)
  BY <1>1 DEF Onward
<1>3. Progress
  <2>1. \A q \in Run \ {r} : Onward(q)
    BY DEF ElseSame, Onward
  <2>2. now <= now'
    BY TimeAssumption DEF RunsInv, Shapes, Time
  <2> QED BY <1>2, <2>1, <2>2 DEF Progress, KeysGrow
<1>4. StateRow(r)'
  <2>1. statefile[r] # None => l # "idle"
    BY DEF RunsInv, StateRow, BeforeState
  <2>2. m = "dead" \/ (l \notin {"fillstate", "movestate"} /\ m \notin {"fillstate", "movestate"})
    BY DEF Writing
  <2>3. m \in BeforeState => l \in BeforeState
    BY DEF Forward, BeforeState
  <2> QED BY <2>1, <2>2, <2>3 DEF RunsInv, StateRow, BeforeState
<1>5. DecisionRow(r)'
  <2>1. decision[r] # None => l # "idle" /\ NamedState(decision[r].state.by, run[r].ev)'
    BY <1>3, NamedStateStays DEF RunsInv, DecisionRow, BeforeDecision, StateOpen, BeforeState,
                                 NamedState
  <2>2. m = "dead" \/ (l \notin {"filldecision", "movedecision"}
                       /\ m \notin {"filldecision", "movedecision"})
    BY DEF Writing
  <2>3. m \in BeforeDecision => l \in BeforeDecision
    BY DEF Forward, BeforeDecision, StateOpen, BeforeState
  <2> QED BY <2>1, <2>2, <2>3 DEF RunsInv, DecisionRow, BeforeDecision, StateOpen, BeforeState
<1>6. ReliabilityRow(r)'
  <2>1. reliability[r] # None =>
          /\ l # "idle" /\ NamedState(reliability[r].state, run[r].ev)'
          /\ NamedDecision(reliability[r].decision, reliability[r].state)'
    BY <1>3, NamedStateStays, NamedDecisionStays
       DEF RunsInv, ReliabilityRow, BeforeReliability, DecisionOpen, BeforeDecision, StateOpen,
           BeforeState, NamedState, NamedDecision
  <2>2. m = "dead" \/ (l \notin {"fillreliability", "movereliability"}
                       /\ m \notin {"fillreliability", "movereliability"})
    BY DEF Writing
  <2>3. m \in BeforeReliability => l \in BeforeReliability
    BY DEF Forward, BeforeReliability, DecisionOpen, BeforeDecision, StateOpen, BeforeState
  <2> QED BY <2>1, <2>2, <2>3
        DEF RunsInv, ReliabilityRow, BeforeReliability, DecisionOpen, BeforeDecision, StateOpen,
            BeforeState
<1> QED BY <1>3, <1>4, <1>5, <1>6

(* How far run r may go without writing a file of its own. *)
Moves(r) ==
  /\ run' \in [Run -> RunState] /\ ElseSame(r)
  /\ Live(r) /\ run'[r].ev = run[r].ev /\ run'[r].pc # "idle"
  /\ \/ run'[r].pc = "dead"
     \/ /\ run[r].pc \notin Writing /\ run'[r].pc \notin Writing
        /\ Forward(run[r].pc, run'[r].pc)

LEMMA RunMoves ==
  ASSUME RunsInv, NEW r \in Run, Moves(r), Shapes', KeysGrow,
         UNCHANGED <<now, overlapped, statefile, decision, reliability>>,
         Progress => RunRow(r)',
         Progress => \A s \in Run : gameweek'[s] = gameweek[s] \/ GameweekRow(s)',
         Progress => \A s \in Run : \/ gameweek'[s] = gameweek[s] /\ final'[s] = final[s]
                                    \/ FinalRow(s)'
  PROVE  RunsInv' /\ Progress
<1>1. Progress /\ StateRow(r)' /\ DecisionRow(r)' /\ ReliabilityRow(r)'
  BY FilesRowsStay DEF Moves, Live
<1>2. OverlapsSeen'
  BY OverlapsStaySeen DEF Moves
<1> QED BY <1>1, <1>2, Assembled DEF Moves

LEMMA LocalMove ==
  ASSUME RunsInv, NEW r \in Run, Moves(r), Shapes',
         UNCHANGED <<now, overlapped, statefile, decision, reliability, gameweek, final>>,
         Progress => RunRow(r)'
  PROVE  RunsInv' /\ Progress
BY RunMoves DEF KeysGrow

LEMMA GoesOn ==
  ASSUME RunsInv, NEW r \in Run, NEW l \in RunLabels, Goto(r, l)
  PROVE  /\ run' \in [Run -> RunState] /\ \A q \in Run \ {r} : run'[q] = run[q]
         /\ run'[r] = [run[r] EXCEPT !.pc = l]
         /\ run'[r].pc = l /\ run'[r].ev = run[r].ev /\ run'[r].at = run[r].at
         /\ run'[r].state = run[r].state /\ run'[r].decision = run[r].decision
         /\ run'[r].reliability = run[r].reliability /\ run'[r].error = run[r].error
BY DEF RunsInv, Shapes, RunState, Goto

(* Run r ends, with an error or killed. *)
Stops(r) ==
  /\ run' \in [Run -> RunState] /\ \A q \in Run \ {r} : run'[q] = run[q]
  /\ run'[r].pc \in {"failed", "dead"} /\ run'[r].ev = run[r].ev

LEMMA EndedRun ==
  ASSUME RunsInv, NEW r \in Run, NEW l \in RunLabels, NEW why \in Errors
  PROVE  /\ Ended(r, l) \in RunState /\ Ended(r, l).pc = l /\ Ended(r, l).ev = run[r].ev
         /\ Ended(r, l).error = None /\ Ended(r, l).at = 0
         /\ [Ended(r, l) EXCEPT !.error = why] \in RunState
         /\ [Ended(r, l) EXCEPT !.error = why].pc = l
         /\ [Ended(r, l) EXCEPT !.error = why].ev = run[r].ev
         /\ [Ended(r, l) EXCEPT !.error = why].error = why
<1>1. IdleRun \in RunState /\ IdleRun.error = None /\ IdleRun.at = 0
  BY TimeAssumption DEF IdleRun, RunState, RunLabels, Time
<1>2. run[r].ev \in Evidence \cup {None}
  BY DEF RunsInv, Shapes, RunState
<1>3. /\ Ended(r, l) \in RunState /\ Ended(r, l).pc = l /\ Ended(r, l).ev = run[r].ev
      /\ Ended(r, l).error = None /\ Ended(r, l).at = 0
  BY <1>1, <1>2 DEF Ended, RunState
<1> QED BY <1>3 DEF RunState

LEMMA RunFails ==
  ASSUME RunsInv, NEW r \in Run, NEW why \in Errors, Fail(r, why)
  PROVE  Stops(r) /\ run'[r].pc = "failed" /\ run'[r].error = why
<1> DEFINE t == [Ended(r, "failed") EXCEPT !.error = why]
<1>1. run' = [run EXCEPT ![r] = t]
  BY DEF Fail
<1>2. t \in RunState /\ t.pc = "failed" /\ t.ev = run[r].ev /\ t.error = why
  <2>1. "failed" \in RunLabels
    BY DEF RunLabels
  <2> QED BY <2>1, EndedRun
<1> HIDE DEF t
<1> QED BY <1>1, <1>2 DEF RunsInv, Shapes, Stops

LEMMA RunKilled ==
  ASSUME RunsInv, NEW r \in Run, run' = [run EXCEPT ![r] = Ended(r, "dead")]
  PROVE  Stops(r) /\ run'[r].pc = "dead" /\ run'[r].error = None
<1> DEFINE t == Ended(r, "dead")
<1>1. run' = [run EXCEPT ![r] = t]
  OBVIOUS
<1>2. t \in RunState /\ t.pc = "dead" /\ t.ev = run[r].ev /\ t.error = None
  <2>1. "dead" \in RunLabels /\ "STORAGE" \in Errors
    BY DEF RunLabels, Errors
  <2> QED BY <2>1, EndedRun
<1> HIDE DEF t
<1> QED BY <1>1, <1>2 DEF RunsInv, Shapes, Stops

(* A run that has ended relies on nothing. *)
LEMMA StoppedRow ==
  ASSUME RunsInv, NEW r \in Run, run[r].pc # "idle", Stops(r)
  PROVE  RunRow(r)'
<1>1. run'[r].ev \in Evidence
  BY DEF RunsInv, RunRow, Stops
<1> QED BY <1>1 DEF RunRow, Stops, Timed, GameweekWritten, HasState, DecisionKnown, Loaded,
                    Binding, Completing

LEMMA Failed ==
  ASSUME RunsInv, NEW r \in Run, NEW why \in Errors, Fail(r, why), Live(r),
         run[r].pc \notin Writing,
         UNCHANGED <<now, overlapped, faults, chain>>
  PROVE  RunsInv' /\ Progress
<1>1. Stops(r) /\ run'[r].pc = "failed"
  BY RunFails
<1>2. Moves(r)
  BY <1>1 DEF Moves, Stops, ElseSame, Writing, Forward, BeforeState, BeforeDecision, StateOpen,
              BeforeReliability, DecisionOpen, chain
<1>3. Shapes'
  BY <1>1 DEF RunsInv, Shapes, Stops, chain
<1>4. RunRow(r)'
  BY <1>1, StoppedRow DEF Live
<1> QED BY <1>2, <1>3, <1>4, LocalMove DEF chain

LEMMA Killed ==
  ASSUME RunsInv, NEW r \in Run, run' = [run EXCEPT ![r] = Ended(r, "dead")], Live(r),
         faults' \in 0 .. MaxFaults,
         UNCHANGED <<now, overlapped, chain>>
  PROVE  RunsInv' /\ Progress
<1>1. Stops(r) /\ run'[r].pc = "dead"
  BY RunKilled
<1>2. Moves(r)
  BY <1>1 DEF Moves, Stops, ElseSame, chain
<1>3. Shapes'
  BY <1>1 DEF RunsInv, Shapes, Stops, chain
<1>4. RunRow(r)'
  BY <1>1, StoppedRow DEF Live
<1> QED BY <1>2, <1>3, <1>4, LocalMove DEF chain

-----------------------------------------------------------------------------
(* resume_gameweek: one lemma per step *)

ChainFiles == <<statefile, decision, reliability, gameweek, final>>

LEMMA StartResumeKeeps ==
  ASSUME RunsInv, NEW r \in Run, NEW e \in Evidence, StartResume(r, e)
  PROVE  /\ RunsInv' /\ Progress
         /\ run'[r].ev = e /\ run'[r].pc \in {"state", "failed"}
         /\ \A q \in Run \ {r} : run'[q] = run[q]
<1> DEFINE sound == PreparationValid /\ BeforeDeadline /\ e \in Supported
           l == IF sound THEN "state" ELSE "failed"
           why == CASE ~PreparationValid -> "HASH_MISMATCH"
                    [] PreparationValid /\ ~BeforeDeadline -> "DEADLINE"
                    [] PreparationValid /\ BeforeDeadline /\ e \notin Supported -> "INVALID_EVIDENCE"
                    [] OTHER -> None
           t == [IdleRun EXCEPT !.ev = e, !.pc = l, !.error = why]
<1>1. /\ l \in {"state", "failed"} /\ l \in RunLabels
      /\ l = "state" => e \in Supported
  BY DEF RunLabels
<1>2. why \in Errors \cup {None}
  BY DEF Errors
<1>3. run' = [run EXCEPT ![r] = t] /\ run[r].pc = "idle"
  BY DEF StartResume, At
<1> HIDE DEF l, why
<1>4. t \in RunState /\ t.pc = l /\ t.ev = e
  <2>1. IdleRun \in RunState
    BY TimeAssumption DEF IdleRun, RunState, RunLabels, Time
  <2> QED BY <1>1, <1>2, <2>1 DEF RunState
<1> HIDE DEF t
<1>5. /\ run' \in [Run -> RunState] /\ run'[r] = t
      /\ \A q \in Run \ {r} : run'[q] = run[q]
  BY <1>3, <1>4 DEF RunsInv, Shapes
<1>6. overlapped' = IF \E q \in Run \ {r} : Live(q) /\ run[q].ev = e
                      THEN overlapped \cup {e} ELSE overlapped
  BY DEF StartResume
<1>7. UNCHANGED <<now, faults, chain>>
  BY DEF StartResume
<1>8. Shapes' /\ ElseSame(r) /\ KeysGrow
  BY <1>5, <1>7 DEF RunsInv, Shapes, chain, ElseSame, KeysGrow
<1>9. Progress /\ StateRow(r)' /\ DecisionRow(r)' /\ ReliabilityRow(r)'
  <2>1. UNCHANGED <<statefile, decision, reliability>> /\ now' = now
    BY <1>7 DEF chain
  <2>2. /\ run'[r].pc \in {"state", "failed"}
        /\ Forward(run[r].pc, run'[r].pc)
        /\ run[r].pc \notin Writing /\ run'[r].pc \notin Writing
    BY <1>1, <1>3, <1>4, <1>5 DEF Forward, Writing, BeforeState, BeforeDecision, StateOpen,
                                  BeforeReliability, DecisionOpen
  <2>3. overlapped \subseteq overlapped'
    BY <1>6
  <2> QED BY <1>3, <1>5, <1>8, <2>1, <2>2, <2>3, FilesRowsStay
<1>10. OverlapsSeen'
  <2>1. overlapped' \subseteq Evidence
    BY <1>6 DEF RunsInv, OverlapsSeen
  <2>2. ASSUME NEW p \in Run, NEW q \in Run, p # q, Live(p)', Live(q)', run'[p].ev = run'[q].ev
        PROVE  run'[q].ev \in overlapped'
    <3>1. CASE p # r /\ q # r
      BY <1>5, <1>6, <2>2, <3>1 DEF RunsInv, OverlapsSeen, Live
    <3>2. CASE p = r \/ q = r
      BY <1>4, <1>5, <1>6, <2>2, <3>2 DEF Live
    <3> QED BY <3>1, <3>2
  <2> QED BY <2>1, <2>2 DEF OverlapsSeen
<1>11. RunRow(r)'
  BY <1>1, <1>4, <1>5 DEF RunRow, Timed, GameweekWritten, HasState, DecisionKnown, Loaded,
                          Binding, Completing
<1>12. RunsInv'
  BY <1>7, <1>8, <1>9, <1>10, <1>11, Assembled DEF chain
<1> QED BY <1>1, <1>4, <1>5, <1>9, <1>12

(* The run still knows everything about its state when its row is about a state. *)
LEMMA FindStateKeeps ==
  ASSUME RunsInv, NEW r \in Run, FindState(r)
  PROVE  RunsInv' /\ Progress
<1> DEFINE e == run[r].ev
<1>1. /\ run[r].pc = "state" /\ Live(r) /\ e \in Supported /\ e \in Evidence
      /\ run[r].pc \notin Writing /\ UNCHANGED <<now, overlapped, faults, chain>>
  BY DEF FindState, At, Live, RunsInv, RunRow, Writing, RunnerIdle
<1>2. ASSUME NEW why \in Errors, Fail(r, why) PROVE RunsInv' /\ Progress
  BY <1>1, <1>2, Failed
<1>3. ASSUME BeforeDeadline, run' = [run EXCEPT ![r].pc = "newstate", ![r].at = now]
      PROVE  RunsInv' /\ Progress
  <2>1. /\ run' \in [Run -> RunState] /\ \A q \in Run \ {r} : run'[q] = run[q]
        /\ run'[r].pc = "newstate" /\ run'[r].at = now /\ run'[r].ev = e
    <3> DEFINE t == [run[r] EXCEPT !.pc = "newstate", !.at = now]
    <3>1. /\ run[r] \in RunState /\ now \in Time /\ run \in [Run -> RunState]
          /\ "newstate" \in RunLabels
      BY DEF RunsInv, Shapes, RunLabels
    <3>2. t \in RunState /\ t.pc = "newstate" /\ t.at = now /\ t.ev = e
      BY <3>1 DEF RunState
    <3>3. run' = [run EXCEPT ![r] = t]
      BY <1>3, <3>1
    <3> HIDE DEF t
    <3> QED BY <3>1, <3>2, <3>3
  <2>2. Moves(r)
    BY <1>1, <2>1 DEF Moves, ElseSame, chain, Writing, Forward, BeforeState, BeforeDecision,
                      StateOpen, BeforeReliability, DecisionOpen
  <2>3. Shapes'
    BY <1>1, <2>1 DEF RunsInv, Shapes, chain
  <2>4. RunRow(r)'
    BY <1>1, <1>3, <2>1, TimeAssumption
       DEF RunRow, Timed, GameweekWritten, HasState, DecisionKnown, Loaded, Binding, Completing,
           BeforeDeadline, RunsInv, Shapes, Time
  <2> QED BY <1>1, <2>2, <2>3, <2>4, LocalMove DEF chain
<1>4. ASSUME NEW q \in Run, statefile[q] # None, statefile[q].ev = e,
             statefile[q].stage # "torn",
             NEW l \in {"receipt", "decision"},
             run' = [run EXCEPT ![r].state = [by |-> q, stage |-> statefile[q].stage],
                                ![r].pc = l]
      PROVE  RunsInv' /\ Progress
  <2> DEFINE path == [by |-> q, stage |-> statefile[q].stage]
  <2>0. path \in Path /\ path.by = q /\ path.stage # "torn"
    BY <1>4 DEF RunsInv, Shapes, StateFile, Path
  <2>1. /\ run' \in [Run -> RunState] /\ \A x \in Run \ {r} : run'[x] = run[x]
        /\ run'[r].pc = l /\ run'[r].state = path /\ run'[r].ev = e
    <3> DEFINE t == [run[r] EXCEPT !.state = path, !.pc = l]
    <3>1. /\ run[r] \in RunState /\ run \in [Run -> RunState] /\ l \in RunLabels
      BY DEF RunsInv, Shapes, RunLabels
    <3>2. run' = [run EXCEPT ![r] = t]
      BY <1>4, <3>1
    <3> HIDE DEF path
    <3>3. t \in RunState /\ t.pc = l /\ t.state = path /\ t.ev = e
      BY <2>0, <3>1 DEF RunState
    <3> HIDE DEF t
    <3> QED BY <3>1, <3>2, <3>3
  <2>2. Moves(r)
    BY <1>1, <2>1 DEF Moves, ElseSame, chain, Writing, Forward, BeforeState, BeforeDecision,
                      StateOpen, BeforeReliability, DecisionOpen
  <2>3. Shapes'
    BY <1>1, <2>1 DEF RunsInv, Shapes, chain
  <2>4. NamedState(q, e)
    <3>1. StateRow(q) /\ StateRow(r) /\ RunRow(q)
      BY DEF RunsInv
    <3>2. /\ run[q].ev = e /\ run[q].pc \notin StateOpen /\ q # r
      BY <1>1, <1>4, <3>1 DEF StateRow, StateOpen, BeforeState
    <3>3. run[q].pc = "movestate" => e \in overlapped
      BY <1>1, <3>2 DEF RunsInv, OverlapsSeen, Live
    <3> QED BY <1>1, <1>4, <3>2, <3>3 DEF NamedState
  <2>5. ASSUME Progress PROVE RunRow(r)'
    <3>1. NamedState(q, run[r].ev)'
      <4>1. \A x : NamedState(q, x) => NamedState(q, x)'
        BY <2>5, NamedStateStays
      <4> QED BY <2>1, <2>4, <4>1
    <3> QED BY <1>1, <2>0, <2>1, <3>1
            DEF RunRow, Timed, GameweekWritten, HasState, DecisionKnown, Loaded, Binding,
                Completing
  <2> HIDE DEF path
  <2> QED BY <1>1, <2>2, <2>3, <2>5, LocalMove DEF chain
<1>5. CASE Cardinality(States(e)) > 1
  <2>1. States(e) # {}
    BY <1>5, FS_EmptySet
  <2>2. Fail(r, "CONFLICT") /\ "CONFLICT" \in Errors
    BY <1>5, <2>1 DEF FindState, Errors
  <2> QED BY <1>2, <2>2
<1>6. CASE ~(Cardinality(States(e)) > 1) /\ States(e) = {}
  BY <1>2, <1>3, <1>6 DEF FindState, Errors
<1>7. CASE ~(Cardinality(States(e)) > 1) /\ States(e) # {}
  <2> DEFINE q == CHOOSE x \in States(e) : TRUE
  <2>1. q \in Run /\ statefile[q] # None /\ statefile[q].ev = e
    <3>1. q \in States(e)
      BY <1>7
    <3> QED BY <3>1 DEF States
  <2>2. \/ Fail(r, "HASH_MISMATCH")
        \/ /\ statefile[q].stage # "torn"
           /\ run' = [run EXCEPT ![r].state = [by |-> q, stage |-> statefile[q].stage],
                          ![r].pc = IF receipt[e] = None THEN "receipt" ELSE "decision"]
    BY <1>7 DEF FindState
  <2>3. "HASH_MISMATCH" \in Errors
    BY DEF Errors
  <2> HIDE DEF q
  <2> QED BY <1>2, <1>4, <2>1, <2>2, <2>3
<1> QED BY <1>5, <1>6, <1>7

(* The run writes one of its own files. *)
OwnStep(r) ==
  /\ Live(r) /\ run'[r].ev = run[r].ev
  /\ UNCHANGED <<now, overlapped, gameweek, final>>

LEMMA OwnFile ==
  ASSUME RunsInv, NEW r \in Run, OwnStep(r), Shapes', ElseSame(r), Onward(r),
         Progress => RunRow(r)' /\ StateRow(r)' /\ DecisionRow(r)' /\ ReliabilityRow(r)'
  PROVE  RunsInv' /\ Progress
<1>1. Progress
  <2>1. now <= now'
    BY TimeAssumption DEF RunsInv, Shapes, Time, OwnStep
  <2> QED BY <2>1, OneRunMoves DEF OwnStep, KeysGrow
<1>2. OverlapsSeen'
  BY OverlapsStaySeen DEF OwnStep
<1> QED BY <1>1, <1>2, Assembled DEF OwnStep

LEMMA CreateStateKeeps ==
  ASSUME RunsInv, NEW r \in Run, CreateState(r)
  PROVE  RunsInv' /\ Progress
<1>0. /\ UNCHANGED <<now, overlapped, faults, receipt, decision, reliability, gameweek, final,
                     doubled>>
      /\ run[r].pc \in {"newstate", "fillstate", "movestate"} /\ Live(r)
      /\ run[r].ev \in Supported /\ run[r] \in RunState
      /\ decision[r] = None /\ reliability[r] = None
  BY DEF CreateState, RunnerIdle, At, Live, RunsInv, Shapes, RunRow, DecisionRow, ReliabilityRow,
         BeforeDecision, BeforeReliability, DecisionOpen, StateOpen, BeforeState
<1> DEFINE f == statefile'[r]
<1>1. ASSUME run'[r].pc \in {"fillstate", "movestate", "receipt"}, run'[r].ev = run[r].ev,
             run' \in [Run -> RunState], \A q \in Run \ {r} : run'[q] = run[q],
             statefile' \in [Run -> StateFile \cup {None}],
             \A q \in Run \ {r} : statefile'[q] = statefile[q],
             run[r].pc = "movestate" => run'[r].pc = "receipt",
             f # None, f.ev = run[r].ev, f.at <= now, f.at < Deadline,
             run'[r].pc = "fillstate" => f.stage = "torn",
             run'[r].pc = "movestate" => f.stage = "whole",
             run'[r].pc = "receipt" => f.stage = "final" /\ run'[r].state = [by |-> r, stage |-> "final"],
             run[r].pc = "movestate" => f.at = statefile[r].at
      PROVE  RunsInv' /\ Progress
  <2>1. OwnStep(r) /\ Shapes' /\ ElseSame(r)
    BY <1>0, <1>1 DEF OwnStep, RunsInv, Shapes, ElseSame
  <2>2. Onward(r)
    BY <1>0, <1>1 DEF Onward, StateOpen, DecisionOpen, ReliabilityOpen, BeforeState,
                      BeforeDecision, BeforeReliability
  <2>3. StateRow(r)'
    BY <1>0, <1>1 DEF StateRow, BeforeState
  <2>4. DecisionRow(r)' /\ ReliabilityRow(r)'
    BY <1>0, <1>1 DEF DecisionRow, ReliabilityRow
  <2>5. RunRow(r)'
    <3>1. run'[r].pc = "receipt" =>
            /\ run'[r].state \in Path /\ run'[r].state.by = r /\ run'[r].state.stage = "final"
            /\ NamedState(r, run[r].ev)'
      BY <1>0, <1>1 DEF NamedState, Path, Stage, StateOpen, BeforeState
    <3> QED BY <1>0, <1>1, <3>1, RunnerAssumption
            DEF RunRow, Timed, GameweekWritten, HasState, DecisionKnown, Loaded, Binding,
                Completing
  <2> QED BY <2>1, <2>2, <2>3, <2>4, <2>5, OwnFile
<1>2. CASE At(r, "newstate")
  <2> DEFINE t == [stage |-> "torn", ev |-> run[r].ev, at |-> run[r].at]
  <2>1. Goto(r, "fillstate") /\ statefile' = [statefile EXCEPT ![r] = t]
    BY <1>2 DEF CreateState, At
  <2>2. run[r].at <= now /\ run[r].at < Deadline /\ run[r].at \in Time
    BY <1>0, <1>2 DEF At, RunsInv, RunRow, RunState
  <2>3. t \in StateFile /\ t # None
    <3>1. t \in StateFile
      BY <1>0, <2>2, RunnerAssumption DEF StateFile, Stage
    <3> QED BY <3>1, AbsentAssumption
  <2>3a. t.stage = "torn" /\ t.ev = run[r].ev /\ t.at = run[r].at
    OBVIOUS
  <2> HIDE DEF t
  <2>4. f = t /\ statefile' \in [Run -> StateFile \cup {None}]
        /\ \A q \in Run \ {r} : statefile'[q] = statefile[q]
    BY <2>1, <2>3 DEF RunsInv, Shapes
  <2>5. "fillstate" \in RunLabels
    BY DEF RunLabels
  <2> HIDE DEF f
  <2> QED BY <1>1, <1>2, <2>1, <2>2, <2>3, <2>3a, <2>4, <2>5, GoesOn DEF At
<1>3. CASE At(r, "fillstate") \/ At(r, "movestate")
  <2>1. statefile[r] # None /\ statefile[r].ev = run[r].ev /\ statefile[r] \in StateFile
        /\ statefile[r].at <= now /\ statefile[r].at < Deadline
    BY <1>3 DEF At, RunsInv, Shapes, StateRow
  <2>2. ASSUME NEW g \in {"whole", "final"}, statefile' = [statefile EXCEPT ![r].stage = g]
        PROVE  /\ f # None /\ f.stage = g /\ f.ev = run[r].ev /\ f.at = statefile[r].at
               /\ statefile' \in [Run -> StateFile \cup {None}]
               /\ \A q \in Run \ {r} : statefile'[q] = statefile[q]
    <3> DEFINE t == [statefile[r] EXCEPT !.stage = g]
    <3>1. t \in StateFile /\ t.stage = g /\ t.ev = statefile[r].ev /\ t.at = statefile[r].at
      BY <2>1 DEF StateFile, Stage
    <3>2. statefile' = [statefile EXCEPT ![r] = t]
      BY <2>2
    <3> HIDE DEF t
    <3> QED BY <2>1, <3>1, <3>2, AbsentAssumption DEF RunsInv, Shapes
  <2> HIDE DEF f
  <2>3. CASE At(r, "fillstate")
    <3>1. "movestate" \in RunLabels
      BY DEF RunLabels
    <3>2. Goto(r, "movestate") /\ statefile' = [statefile EXCEPT ![r].stage = "whole"]
      BY <2>3 DEF CreateState, At
    <3> QED BY <1>1, <2>1, <2>2, <2>3, <3>1, <3>2, GoesOn DEF At
  <2>4. CASE At(r, "movestate")
    <3> DEFINE path == [by |-> r, stage |-> "final"]
               t == [run[r] EXCEPT !.pc = "receipt", !.state = path]
    <3>1. /\ statefile' = [statefile EXCEPT ![r].stage = "final"]
          /\ run' = [run EXCEPT ![r].pc = "receipt", ![r].state = path]
      BY <2>4 DEF CreateState, At
    <3>2. run' = [run EXCEPT ![r] = t]
      BY <3>1 DEF RunsInv, Shapes
    <3>3. path \in Path
      BY DEF Path, Stage
    <3> HIDE DEF path
    <3>4. t \in RunState /\ t.pc = "receipt" /\ t.state = path /\ t.ev = run[r].ev
      BY <1>0, <3>3 DEF RunState, RunLabels
    <3> HIDE DEF t
    <3>5. run' \in [Run -> RunState] /\ run'[r] = t /\ \A q \in Run \ {r} : run'[q] = run[q]
      BY <3>2, <3>4 DEF RunsInv, Shapes
    <3> QED BY <1>1, <2>1, <2>2, <2>4, <3>1, <3>4, <3>5 DEF At, path
  <2> QED BY <1>3, <2>3, <2>4
<1> QED BY <1>2, <1>3 DEF CreateState

(* What a run relies on when it takes its next step, it can rely on after it. *)
LEMMA Relied ==
  ASSUME RunsInv, Progress, NEW r \in Run,
         NEW e, e = run[r].ev, NEW s, s = run[r].state.by, NEW d, d = run[r].decision,
         NEW q, q = run[r].reliability.by, NEW at, at = run[r].at
  PROVE  /\ run[r].pc \in HasState => /\ run[r].state \in Path /\ run[r].state.stage # "torn"
                                      /\ s \in Run /\ NamedState(s, e) /\ NamedState(s, e)'
         /\ run[r].pc \in DecisionKnown => d \in Run /\ FoundDecision(d, s)'
         /\ run[r].pc \in Loaded => NamedDecision(d, s) /\ NamedDecision(d, s)'
         /\ run[r].pc \in Binding => /\ run[r].reliability \in Path /\ q \in Run
                                     /\ NamedReliability(q, d, s, e)
                                     /\ NamedReliability(q, d, s, e)'
         /\ run[r].pc \in Timed => StateBefore(s, at) /\ StateBefore(s, at)'
<1>0. RunRow(r)
  BY DEF RunsInv
<1>1. ASSUME run[r].pc \in HasState
      PROVE  /\ run[r].state \in Path /\ run[r].state.stage # "torn"
             /\ s \in Run /\ NamedState(s, e) /\ NamedState(s, e)'
  <2>1. run[r].state \in Path /\ run[r].state.stage # "torn" /\ s \in Run /\ NamedState(s, e)
    BY <1>0, <1>1 DEF RunRow, NamedState
  <2> QED BY <2>1, NamedStateStays
<1>2. ASSUME run[r].pc \in DecisionKnown PROVE d \in Run /\ FoundDecision(d, s)'
  <2>1. d \in Run /\ FoundDecision(d, s)
    BY <1>0, <1>2 DEF RunRow, FoundDecision
  <2> QED BY <2>1, FoundDecisionStays
<1>3. ASSUME run[r].pc \in Loaded PROVE NamedDecision(d, s) /\ NamedDecision(d, s)'
  <2>1. d \in Run /\ NamedDecision(d, s)
    BY <1>0, <1>3 DEF RunRow, NamedDecision
  <2> QED BY <2>1, NamedDecisionStays
<1>4. ASSUME run[r].pc \in Binding
      PROVE  /\ run[r].reliability \in Path /\ q \in Run
             /\ NamedReliability(q, d, s, e) /\ NamedReliability(q, d, s, e)'
  <2>1. /\ run[r].reliability \in Path /\ q \in Run /\ NamedReliability(q, d, s, e)
    BY <1>0, <1>4 DEF RunRow, NamedReliability
  <2> QED BY <2>1, NamedReliabilityStays
<1>5. ASSUME run[r].pc \in Timed PROVE StateBefore(s, at) /\ StateBefore(s, at)'
  <2>1. run[r].pc \in HasState
    BY <1>5 DEF Timed, GameweekWritten, HasState, DecisionKnown, Loaded, Binding
  <2>2. s \in Run /\ NamedState(s, e) /\ StateBefore(s, at)
    BY <1>0, <1>1, <1>5, <2>1 DEF RunRow
  <2> QED BY <2>2, StateBeforeStays
<1> QED BY <1>1, <1>2, <1>3, <1>4, <1>5

LEMMA WriteReceiptKeeps ==
  ASSUME RunsInv, NEW r \in Run, WriteReceipt(r)
  PROVE  RunsInv' /\ Progress
<1>1. /\ run[r].pc = "receipt" /\ Live(r) /\ run[r].ev \in Supported /\ run[r].ev \in Evidence
      /\ run[r].pc \notin Writing /\ run[r].state \in Path
      /\ UNCHANGED <<now, overlapped, faults, statefile, decision, reliability, gameweek, final,
                     doubled>>
  BY DEF WriteReceipt, At, Live, RunsInv, RunRow, Writing, RunnerIdle, HasState
<1>2. CASE Conflicts(receipt[run[r].ev], run[r].state)
  <2>1. Fail(r, "CONFLICT") /\ UNCHANGED receipt /\ "CONFLICT" \in Errors
    BY <1>2 DEF WriteReceipt, Errors
  <2> QED BY <1>1, <2>1, Failed DEF chain
<1>3. CASE ~Conflicts(receipt[run[r].ev], run[r].state)
  <2>1. /\ Goto(r, "decision") /\ receipt' = [receipt EXCEPT ![run[r].ev] = run[r].state]
        /\ "decision" \in RunLabels
    BY <1>3 DEF WriteReceipt, RunLabels
  <2>2. /\ run' \in [Run -> RunState] /\ \A x \in Run \ {r} : run'[x] = run[x]
        /\ run'[r].pc = "decision" /\ run'[r].state = run[r].state /\ run'[r].ev = run[r].ev
    BY <2>1, GoesOn
  <2>3. Moves(r)
    BY <1>1, <2>2 DEF Moves, ElseSame, Writing, Forward, BeforeState, BeforeDecision,
                      StateOpen, BeforeReliability, DecisionOpen
  <2>4. receipt' \in [Evidence -> Path \cup {None}]
    BY <1>1, <2>1 DEF RunsInv, Shapes
  <2>5. Shapes'
    BY <1>1, <2>2, <2>4 DEF RunsInv, Shapes
  <2>6. ASSUME Progress PROVE RunRow(r)'
    <3>1. /\ run[r].state.stage # "torn" /\ NamedState(run[r].state.by, run[r].ev)'
      BY <1>1, <2>2, <2>6, Relied DEF HasState
    <3> QED BY <1>1, <2>2, <3>1
            DEF RunRow, Timed, GameweekWritten, HasState, DecisionKnown, Loaded, Binding,
                Completing
  <2> QED BY <1>1, <2>3, <2>5, <2>6, LocalMove
<1> QED BY <1>2, <1>3

LEMMA FindDecisionKeeps ==
  ASSUME RunsInv, NEW r \in Run, FindDecision(r)
  PROVE  RunsInv' /\ Progress
<1> DEFINE s == run[r].state.by
<1>1. /\ run[r].pc = "decision" /\ Live(r) /\ run[r].ev \in Supported /\ run[r].ev \in Evidence
      /\ run[r].pc \notin Writing /\ run[r].state \in Path /\ s \in Run
      /\ UNCHANGED <<now, overlapped, faults, chain>>
  BY DEF FindDecision, At, Live, RunsInv, RunRow, Writing, RunnerIdle, HasState, Path
<1>2. ASSUME NEW why \in Errors, Fail(r, why) PROVE RunsInv' /\ Progress
  BY <1>1, <1>2, Failed
<1>3. ASSUME run' \in [Run -> RunState], \A x \in Run \ {r} : run'[x] = run[x],
             run'[r].pc \in {"verify", "newdecision", "reliability"},
             run'[r].state = run[r].state, run'[r].ev = run[r].ev,
             run'[r].pc = "verify" => final[s] # None,
             run'[r].pc = "reliability" => FoundDecision(run'[r].decision, s)
      PROVE  RunsInv' /\ Progress
  <2>1. Moves(r)
    BY <1>1, <1>3 DEF Moves, ElseSame, chain, Writing, Forward, BeforeState, BeforeDecision,
                      StateOpen, BeforeReliability, DecisionOpen
  <2>2. Shapes'
    BY <1>1, <1>3 DEF RunsInv, Shapes, chain
  <2>3. ASSUME Progress PROVE RunRow(r)'
    <3>1. /\ run[r].state.stage # "torn" /\ NamedState(run[r].state.by, run[r].ev)'
      BY <1>1, <1>3, <2>3, Relied DEF HasState
    <3>2. run'[r].pc = "reliability" => FoundDecision(run[r].decision, run[r].state.by)'
      <4>1. \A x, y : y \in Run /\ FoundDecision(y, x) => FoundDecision(y, x)'
        BY <2>3, FoundDecisionStays
      <4> QED BY <1>3, <4>1 DEF FoundDecision
    <3> QED BY <1>1, <1>3, <3>1, <3>2
            DEF RunRow, Timed, GameweekWritten, HasState, DecisionKnown, Loaded, Binding,
                Completing, chain
  <2> QED BY <1>1, <2>1, <2>2, <2>3, LocalMove DEF chain
<1>4. CASE final[s] # None
  <2>1. Goto(r, "verify") /\ "verify" \in RunLabels
    BY <1>4 DEF FindDecision, RunLabels
  <2> QED BY <1>3, <1>4, <2>1, GoesOn
<1>5. CASE final[s] = None /\ Decisions(s) = {}
  <2>1. Cardinality(Decisions(s)) = 0
    BY <1>5, FS_EmptySet
  <2>2. Goto(r, "newdecision") /\ "newdecision" \in RunLabels
    BY <1>5, <2>1 DEF FindDecision, RunLabels
  <2> QED BY <1>3, <2>2, GoesOn
<1>6. CASE final[s] = None /\ Decisions(s) # {} /\ Cardinality(Decisions(s)) > 1
  <2>1. Fail(r, "CONFLICT") /\ "CONFLICT" \in Errors
    BY <1>6 DEF FindDecision, Errors
  <2> QED BY <1>2, <2>1
<1>7. CASE final[s] = None /\ Decisions(s) # {} /\ ~(Cardinality(Decisions(s)) > 1)
  <2> DEFINE d == CHOOSE x \in Decisions(s) : TRUE
  <2>1. d \in Run /\ decision[d] # None /\ decision[d].state.by = s
    <3>1. d \in Decisions(s)
      BY <1>7
    <3> QED BY <3>1 DEF Decisions
  <2>2. \/ Fail(r, "MISSING")
        \/ /\ decision[d].stage # "torn"
           /\ run' = [run EXCEPT ![r].pc = "reliability", ![r].decision = d]
    BY <1>7 DEF FindDecision
  <2>3. "MISSING" \in Errors
    BY DEF Errors
  <2> HIDE DEF d
  <2>4. CASE /\ decision[d].stage # "torn"
             /\ run' = [run EXCEPT ![r].pc = "reliability", ![r].decision = d]
    <3> DEFINE t == [run[r] EXCEPT !.pc = "reliability", !.decision = d]
    <3>1. run[r] \in RunState /\ run \in [Run -> RunState] /\ "reliability" \in RunLabels
      BY DEF RunsInv, Shapes, RunLabels
    <3>2. run' = [run EXCEPT ![r] = t]
      BY <2>4, <3>1
    <3>3. /\ t \in RunState /\ t.pc = "reliability" /\ t.decision = d /\ t.state = run[r].state
          /\ t.ev = run[r].ev
      BY <2>1, <3>1 DEF RunState
    <3> HIDE DEF t
    <3>4. FoundDecision(d, s)
      BY <2>1, <2>4 DEF RunsInv, DecisionRow, FoundDecision, DecisionOpen
    <3> HIDE DEF s
    <3> QED BY <1>3, <3>1, <3>2, <3>3, <3>4
  <2> QED BY <1>2, <2>2, <2>3, <2>4
<1> QED BY <1>4, <1>5, <1>6, <1>7

LEMMA CreateDecisionKeeps ==
  ASSUME RunsInv, NEW r \in Run, CreateDecision(r)
  PROVE  RunsInv' /\ Progress
<1> DEFINE f == decision'[r]
           s == run[r].state.by
<1>0. /\ UNCHANGED <<now, overlapped, faults, statefile, receipt, reliability, gameweek, final,
                     doubled>>
      /\ run[r].pc \in {"newdecision", "filldecision", "movedecision"} /\ Live(r)
      /\ run[r].ev \in Supported /\ run[r] \in RunState /\ run[r].state \in Path
      /\ reliability[r] = None /\ StateRow(r)
  <2>1. run[r].pc \in {"newdecision", "filldecision", "movedecision"}
    BY DEF CreateDecision, At
  <2>2. RunRow(r) /\ StateRow(r) /\ ReliabilityRow(r)
    BY DEF RunsInv
  <2>3. reliability[r] = None
    BY <2>1, <2>2 DEF ReliabilityRow, BeforeReliability, DecisionOpen, BeforeDecision
  <2>4. run[r].ev \in Supported /\ run[r].state \in Path
    BY <2>1, <2>2 DEF RunRow, HasState
  <2> QED BY <2>1, <2>2, <2>3, <2>4 DEF CreateDecision, RunnerIdle, Live, RunsInv, Shapes
<1>1. ASSUME run'[r].pc \in {"filldecision", "movedecision", "reliability"},
             run'[r].ev = run[r].ev, run'[r].state = run[r].state,
             run' \in [Run -> RunState], \A q \in Run \ {r} : run'[q] = run[q],
             decision' \in [Run -> Decision \cup {None}],
             \A q \in Run \ {r} : decision'[q] = decision[q],
             run[r].pc = "movedecision" => run'[r].pc = "reliability" /\ f.state = decision[r].state,
             f # None, f.state = run[r].state,
             run'[r].pc = "filldecision" => f.stage = "torn",
             run'[r].pc = "movedecision" => f.stage = "whole",
             run'[r].pc = "reliability" => f.stage = "final" /\ run'[r].decision = r
      PROVE  RunsInv' /\ Progress
  <2>1. OwnStep(r) /\ Shapes' /\ ElseSame(r)
    BY <1>0, <1>1 DEF OwnStep, RunsInv, Shapes, ElseSame
  <2>2. Onward(r)
    BY <1>0, <1>1 DEF Onward, StateOpen, DecisionOpen, ReliabilityOpen, BeforeState,
                      BeforeDecision, BeforeReliability
  <2> SUFFICES ASSUME Progress
               PROVE  RunRow(r)' /\ StateRow(r)' /\ DecisionRow(r)' /\ ReliabilityRow(r)'
    BY <2>1, <2>2, OwnFile
  <2>3. StateRow(r)'
    BY <1>0, <1>1 DEF StateRow, BeforeState
  <2>4. run[r].state.stage # "torn" /\ NamedState(run[r].state.by, run[r].ev)'
    BY <1>0, <1>1, Relied DEF HasState
  <2>5. DecisionRow(r)'
    BY <1>0, <1>1, <2>4 DEF DecisionRow, BeforeDecision, StateOpen, BeforeState
  <2>6. ReliabilityRow(r)'
    BY <1>0, <1>1 DEF ReliabilityRow
  <2>7. RunRow(r)'
    <3>1. run'[r].pc = "reliability" => FoundDecision(r, run[r].state.by)'
      BY <1>0, <1>1 DEF FoundDecision, DecisionOpen, BeforeDecision, StateOpen, BeforeState
    <3> QED BY <1>0, <1>1, <2>4, <3>1, RunnerAssumption
            DEF RunRow, Timed, GameweekWritten, HasState, DecisionKnown, Loaded, Binding,
                Completing
  <2> QED BY <2>3, <2>5, <2>6, <2>7
<1>2. CASE At(r, "newdecision")
  <2> DEFINE t == [stage |-> "torn", state |-> run[r].state]
  <2>1. Goto(r, "filldecision") /\ decision' = [decision EXCEPT ![r] = t]
    BY <1>2 DEF CreateDecision, At
  <2>2. t \in Decision /\ t # None /\ t.stage = "torn" /\ t.state = run[r].state
    <3>1. t \in Decision
      BY <1>0 DEF Decision, Stage
    <3> QED BY <3>1, AbsentAssumption
  <2> HIDE DEF t
  <2>3. /\ f = t /\ decision' \in [Run -> Decision \cup {None}]
        /\ \A q \in Run \ {r} : decision'[q] = decision[q]
    BY <2>1, <2>2 DEF RunsInv, Shapes
  <2>4. "filldecision" \in RunLabels
    BY DEF RunLabels
  <2> HIDE DEF f
  <2> QED BY <1>1, <1>2, <2>1, <2>2, <2>3, <2>4, GoesOn DEF At
<1>3. CASE At(r, "filldecision") \/ At(r, "movedecision")
  <2>1. decision[r] # None /\ decision[r].state = run[r].state /\ decision[r] \in Decision
    BY <1>3 DEF At, RunsInv, Shapes, DecisionRow
  <2>2. ASSUME NEW g \in {"whole", "final"}, decision' = [decision EXCEPT ![r].stage = g]
        PROVE  /\ f # None /\ f.stage = g /\ f.state = run[r].state /\ f.state = decision[r].state
               /\ decision' \in [Run -> Decision \cup {None}]
               /\ \A q \in Run \ {r} : decision'[q] = decision[q]
    <3> DEFINE t == [decision[r] EXCEPT !.stage = g]
    <3>1. t \in Decision /\ t.stage = g /\ t.state = decision[r].state
      BY <2>1 DEF Decision, Stage
    <3>2. decision' = [decision EXCEPT ![r] = t]
      BY <2>2
    <3> HIDE DEF t
    <3> QED BY <2>1, <3>1, <3>2, AbsentAssumption DEF RunsInv, Shapes
  <2> HIDE DEF f
  <2>3. CASE At(r, "filldecision")
    <3>1. "movedecision" \in RunLabels
      BY DEF RunLabels
    <3>2. Goto(r, "movedecision") /\ decision' = [decision EXCEPT ![r].stage = "whole"]
      BY <2>3 DEF CreateDecision, At
    <3> QED BY <1>1, <2>1, <2>2, <2>3, <3>1, <3>2, GoesOn DEF At
  <2>4. CASE At(r, "movedecision")
    <3> DEFINE t == [run[r] EXCEPT !.pc = "reliability", !.decision = r]
    <3>1. /\ decision' = [decision EXCEPT ![r].stage = "final"]
          /\ run' = [run EXCEPT ![r].pc = "reliability", ![r].decision = r]
      BY <2>4 DEF CreateDecision, At
    <3>2. run' = [run EXCEPT ![r] = t]
      BY <3>1 DEF RunsInv, Shapes
    <3>3. /\ t \in RunState /\ t.pc = "reliability" /\ t.decision = r /\ t.ev = run[r].ev
          /\ t.state = run[r].state
      BY <1>0 DEF RunState, RunLabels
    <3> HIDE DEF t
    <3>4. run' \in [Run -> RunState] /\ run'[r] = t /\ \A q \in Run \ {r} : run'[q] = run[q]
      BY <3>2, <3>3 DEF RunsInv, Shapes
    <3> QED BY <1>1, <2>1, <2>2, <2>4, <3>1, <3>3, <3>4 DEF At
  <2> QED BY <1>3, <2>3, <2>4
<1> QED BY <1>2, <1>3 DEF CreateDecision

LEMMA FindReliabilityKeeps ==
  ASSUME RunsInv, NEW r \in Run, FindReliability(r)
  PROVE  RunsInv' /\ Progress
<1> DEFINE s == run[r].state.by
           d == run[r].decision
           found == Reliabilities(s)
<1>1. /\ run[r].pc = "reliability" /\ Live(r) /\ run[r].ev \in Supported /\ run[r].ev \in Evidence
      /\ run[r].pc \notin Writing /\ run[r].state \in Path /\ s \in Run
      /\ UNCHANGED <<now, overlapped, faults, chain>>
  BY DEF FindReliability, At, Live, RunsInv, RunRow, Writing, RunnerIdle, HasState, DecisionKnown,
         Path
<1>2. ASSUME NEW why \in Errors, Fail(r, why) PROVE RunsInv' /\ Progress
  BY <1>1, <1>2, Failed
<1>3. ASSUME ContextLoads(d),
             run' \in [Run -> RunState], \A x \in Run \ {r} : run'[x] = run[x],
             run'[r].pc \in {"newreliability", "gameweek"},
             run'[r].state = run[r].state, run'[r].ev = run[r].ev, run'[r].decision = d,
             run'[r].pc = "gameweek" =>
               /\ run'[r].reliability \in Path
               /\ NamedReliability(run'[r].reliability.by, d, s, run[r].ev)
      PROVE  RunsInv' /\ Progress
  <2>1. Moves(r)
    BY <1>1, <1>3 DEF Moves, ElseSame, chain, Writing, Forward, BeforeState, BeforeDecision,
                      StateOpen, BeforeReliability, DecisionOpen
  <2>2. Shapes'
    BY <1>1, <1>3 DEF RunsInv, Shapes, chain
  <2>3. ASSUME Progress PROVE RunRow(r)'
    <3>1. /\ run[r].state.stage # "torn" /\ NamedState(run[r].state.by, run[r].ev)'
          /\ run[r].decision \in Run /\ FoundDecision(run[r].decision, run[r].state.by)'
      BY <1>1, <1>3, <2>3, Relied DEF HasState, DecisionKnown
    <3>2. NamedDecision(run[r].decision, run[r].state.by)'
      <4>1. NamedDecision(d, s)
        BY <1>3 DEF ContextLoads, NamedDecision, RunsInv, RunRow, FoundDecision, DecisionKnown,
                    FindReliability, At
      <4>2. \A x, y : x \in Run /\ NamedDecision(x, y) => NamedDecision(x, y)'
        BY <2>3, NamedDecisionStays
      <4> QED BY <1>3, <3>1, <4>1, <4>2
    <3>3. run'[r].pc = "gameweek" =>
            NamedReliability(run[r].reliability.by, run[r].decision, run[r].state.by, run[r].ev)'
      <4>1. ASSUME NEW q, NEW x, NEW y, NEW e, NamedReliability(q, x, y, e)
            PROVE  NamedReliability(q, x, y, e)'
        BY <2>3, <4>1, NamedReliabilityStays DEF NamedReliability
      <4> QED BY <1>3, <4>1
    <3> QED BY <1>1, <1>3, <3>1, <3>2, <3>3
            DEF RunRow, Timed, GameweekWritten, HasState, DecisionKnown, Loaded, Binding,
                Completing
  <2> QED BY <1>1, <2>1, <2>2, <2>3, LocalMove DEF chain
<1>4. CASE ~ContextLoads(d)
  <2>1. Fail(r, "STAGE_FAILED") /\ "STAGE_FAILED" \in Errors
    BY <1>4 DEF FindReliability, Errors
  <2> QED BY <1>2, <2>1
<1>5. CASE ContextLoads(d) /\ found = {}
  <2>1. Cardinality(found) = 0
    BY <1>5, FS_EmptySet
  <2>2. Goto(r, "newreliability") /\ "newreliability" \in RunLabels
    BY <1>5, <2>1 DEF FindReliability, RunLabels
  <2> QED BY <1>3, <1>5, <2>2, GoesOn
<1>6. CASE ContextLoads(d) /\ found # {} /\ Cardinality(found) > 1
  <2>1. Fail(r, "CONFLICT") /\ "CONFLICT" \in Errors
    BY <1>6 DEF FindReliability, Errors
  <2> QED BY <1>2, <2>1
<1>7. CASE ContextLoads(d) /\ found # {} /\ ~(Cardinality(found) > 1)
  <2> DEFINE q == CHOOSE x \in found : TRUE
  <2>1. q \in Run /\ reliability[q] # None /\ reliability[q].state = s
    <3>1. q \in found
      BY <1>7
    <3> QED BY <3>1 DEF Reliabilities
  <2>2. \/ Fail(r, "STAGE_FAILED")
        \/ /\ Builds(d, q)
           /\ run' = [run EXCEPT ![r].pc = "gameweek",
                          ![r].reliability = [by |-> q, stage |-> reliability[q].stage]]
    BY <1>7 DEF FindReliability
  <2>3. "STAGE_FAILED" \in Errors
    BY DEF Errors
  <2> HIDE DEF q
  <2>4. CASE /\ Builds(d, q)
             /\ run' = [run EXCEPT ![r].pc = "gameweek",
                            ![r].reliability = [by |-> q, stage |-> reliability[q].stage]]
    <3> DEFINE path == [by |-> q, stage |-> reliability[q].stage]
               t == [run[r] EXCEPT !.pc = "gameweek", !.reliability = path]
    <3>1. run[r] \in RunState /\ run \in [Run -> RunState] /\ "gameweek" \in RunLabels
      BY DEF RunsInv, Shapes, RunLabels
    <3>2. run' = [run EXCEPT ![r] = t]
      BY <2>4, <3>1
    <3>3. path \in Path /\ path.by = q
      BY <2>1 DEF RunsInv, Shapes, Reliability, Path
    <3> HIDE DEF path
    <3>4. /\ t \in RunState /\ t.pc = "gameweek" /\ t.decision = d /\ t.state = run[r].state
          /\ t.ev = run[r].ev /\ t.reliability = path
      BY <3>1, <3>3 DEF RunState
    <3> HIDE DEF t
    <3>5. NamedReliability(q, d, s, run[r].ev)
      <4>1. /\ reliability[q].stage # "torn" /\ reliability[q].decision = d
        BY <2>4 DEF Builds
      <4>2. ReliabilityRow(q) /\ NamedState(s, run[q].ev)
        BY <2>1 DEF RunsInv, ReliabilityRow
      <4>3. run[q].ev = run[r].ev
        BY <1>1, <4>2 DEF NamedState, RunsInv, RunRow, HasState, DecisionKnown
      <4>4. run[q].pc \notin ReliabilityOpen
        BY <2>1, <4>1, <4>2 DEF ReliabilityRow, ReliabilityOpen
      <4>5. run[q].pc = "movereliability" => run[r].ev \in overlapped
        <5>1. run[q].pc = "movereliability" => q # r /\ Live(q) /\ Live(r)
          BY <1>1 DEF Live
        <5> QED BY <2>1, <4>3, <5>1 DEF RunsInv, OverlapsSeen
      <4> QED BY <2>1, <4>1, <4>4, <4>5 DEF NamedReliability
    <3> HIDE DEF s, d
    <3> QED BY <1>3, <2>4, <3>1, <3>2, <3>3, <3>4, <3>5 DEF Builds
  <2> QED BY <1>2, <2>2, <2>3, <2>4
<1> QED BY <1>4, <1>5, <1>6, <1>7

LEMMA StageRefusesKeeps ==
  ASSUME RunsInv, NEW r \in Run, StageRefuses(r)
  PROVE  RunsInv' /\ Progress
<1>1. /\ run[r].pc \in {"newdecision", "reliability", "newreliability", "gameweek"}
      /\ UNCHANGED <<now, overlapped, faults, chain>>
  BY DEF StageRefuses, At, RunnerIdle
<1>2. Live(r) /\ run[r].ev \in Evidence /\ run[r].pc \notin Writing
  BY <1>1 DEF Live, Writing, RunsInv, RunRow
<1>3. \E why \in Errors : Fail(r, why)
  BY DEF StageRefuses, Errors
<1> QED BY <1>1, <1>2, <1>3, Failed

LEMMA CreateReliabilityKeeps ==
  ASSUME RunsInv, NEW r \in Run, CreateReliability(r)
  PROVE  RunsInv' /\ Progress
<1> DEFINE f == reliability'[r]
           s == run[r].state.by
           d == run[r].decision
<1>0. /\ UNCHANGED <<now, overlapped, faults, statefile, receipt, decision, gameweek, final,
                     doubled>>
      /\ run[r].pc \in {"newreliability", "fillreliability", "movereliability"} /\ Live(r)
      /\ run[r].ev \in Supported /\ run[r] \in RunState /\ run[r].state \in Path
      /\ s \in Run /\ d \in Run /\ StateRow(r) /\ DecisionRow(r)
  <2>1. run[r].pc \in {"newreliability", "fillreliability", "movereliability"}
    BY DEF CreateReliability, At
  <2>2. RunRow(r) /\ StateRow(r) /\ DecisionRow(r)
    BY DEF RunsInv
  <2>3. run[r].ev \in Supported /\ run[r].state \in Path /\ s \in Run /\ d \in Run
    BY <2>1, <2>2 DEF RunRow, HasState, DecisionKnown, Loaded, NamedState, FoundDecision
  <2> QED BY <2>1, <2>2, <2>3 DEF CreateReliability, RunnerIdle, Live, RunsInv, Shapes
<1>1. ASSUME run'[r].pc \in {"fillreliability", "movereliability", "gameweek", "failed"},
             run'[r].ev = run[r].ev,
             run'[r].pc # "failed" => run'[r].state = run[r].state /\ run'[r].decision = d,
             run' \in [Run -> RunState], \A q \in Run \ {r} : run'[q] = run[q],
             reliability' \in [Run -> Reliability \cup {None}],
             \A q \in Run \ {r} : reliability'[q] = reliability[q],
             run[r].pc = "movereliability" =>
               /\ run'[r].pc \in {"gameweek", "failed"}
               /\ f.state = reliability[r].state /\ f.decision = reliability[r].decision,
             f # None, f.state = s, f.decision = d,
             run'[r].pc = "fillreliability" => f.stage = "torn",
             run'[r].pc = "movereliability" => f.stage = "whole",
             run'[r].pc \in {"gameweek", "failed"} => f.stage = "final",
             run'[r].pc = "gameweek" => run'[r].reliability = [by |-> r, stage |-> "final"]
      PROVE  RunsInv' /\ Progress
  <2>1. OwnStep(r) /\ Shapes' /\ ElseSame(r)
    BY <1>0, <1>1 DEF OwnStep, RunsInv, Shapes, ElseSame
  <2>2. Onward(r)
    BY <1>0, <1>1 DEF Onward, StateOpen, DecisionOpen, ReliabilityOpen, BeforeState,
                      BeforeDecision, BeforeReliability
  <2> SUFFICES ASSUME Progress
               PROVE  RunRow(r)' /\ StateRow(r)' /\ DecisionRow(r)' /\ ReliabilityRow(r)'
    BY <2>1, <2>2, OwnFile
  <2>3. StateRow(r)'
    BY <1>0, <1>1 DEF StateRow, BeforeState
  <2>4. DecisionRow(r)'
    <3>1. decision[r] # None => NamedState(decision[r].state.by, run[r].ev)'
      BY <1>0, <1>1, NamedStateStays DEF DecisionRow, NamedState
    <3> QED BY <1>0, <1>1, <3>1 DEF DecisionRow, BeforeDecision, StateOpen, BeforeState
  <2>5. ASSUME NEW x, x = s, NEW y, y = d, NEW e, e = run[r].ev
        PROVE  NamedState(x, e)' /\ NamedDecision(y, x)' /\ FoundDecision(y, x)'
    BY <1>0, <2>5, Relied DEF HasState, DecisionKnown, Loaded
  <2>6. ReliabilityRow(r)'
    BY <1>0, <1>1, <2>5 DEF ReliabilityRow, BeforeReliability, DecisionOpen, BeforeDecision,
                            StateOpen, BeforeState
  <2>7. RunRow(r)'
    <3>0. run[r].state.stage # "torn"
      BY <1>0, Relied DEF HasState, DecisionKnown, Loaded
    <3>1. run'[r].pc = "gameweek" => NamedReliability(r, run[r].decision, run[r].state.by, run[r].ev)'
      BY <1>0, <1>1 DEF NamedReliability, ReliabilityOpen, BeforeReliability, DecisionOpen,
                        BeforeDecision, StateOpen, BeforeState
    <3>2. run'[r].pc = "gameweek" => run'[r].reliability \in Path /\ run'[r].reliability.by = r
      BY <1>1 DEF Path, Stage
    <3>3. CASE run'[r].pc = "failed"
      BY <1>0, <1>1, <3>3, RunnerAssumption
         DEF RunRow, Timed, GameweekWritten, HasState, DecisionKnown, Loaded, Binding, Completing
    <3>4. CASE run'[r].pc # "failed"
      BY <1>0, <1>1, <2>5, <3>0, <3>1, <3>2, <3>4, RunnerAssumption
         DEF RunRow, Timed, GameweekWritten, HasState, DecisionKnown, Loaded, Binding, Completing
    <3> QED BY <3>3, <3>4
  <2> QED BY <2>3, <2>4, <2>6, <2>7
<1>2. CASE At(r, "newreliability")
  <2> DEFINE t == [stage |-> "torn", state |-> s, decision |-> d]
  <2>1. Goto(r, "fillreliability") /\ reliability' = [reliability EXCEPT ![r] = t]
    BY <1>2 DEF CreateReliability, At
  <2>2. t \in Reliability /\ t # None /\ t.stage = "torn" /\ t.state = s /\ t.decision = d
    <3>1. t \in Reliability
      BY <1>0 DEF Reliability, Stage
    <3> QED BY <3>1, AbsentAssumption
  <2> HIDE DEF t
  <2>3. /\ f = t /\ reliability' \in [Run -> Reliability \cup {None}]
        /\ \A q \in Run \ {r} : reliability'[q] = reliability[q]
    BY <2>1, <2>2 DEF RunsInv, Shapes
  <2>4. "fillreliability" \in RunLabels
    BY DEF RunLabels
  <2> HIDE DEF f
  <2> QED BY <1>1, <1>2, <2>1, <2>2, <2>3, <2>4, GoesOn DEF At
<1>3. CASE At(r, "fillreliability") \/ At(r, "movereliability")
  <2>1. /\ reliability[r] # None /\ reliability[r].state = s /\ reliability[r].decision = d
        /\ reliability[r] \in Reliability
    BY <1>3 DEF At, RunsInv, Shapes, ReliabilityRow
  <2>2. ASSUME NEW g \in {"whole", "final"}, reliability' = [reliability EXCEPT ![r].stage = g]
        PROVE  /\ f # None /\ f.stage = g /\ f.state = s /\ f.decision = d
               /\ f.state = reliability[r].state /\ f.decision = reliability[r].decision
               /\ reliability' \in [Run -> Reliability \cup {None}]
               /\ \A q \in Run \ {r} : reliability'[q] = reliability[q]
    <3> DEFINE t == [reliability[r] EXCEPT !.stage = g]
    <3>1. /\ t \in Reliability /\ t.stage = g /\ t.state = reliability[r].state
          /\ t.decision = reliability[r].decision
      BY <2>1 DEF Reliability, Stage
    <3>2. reliability' = [reliability EXCEPT ![r] = t]
      BY <2>2
    <3> HIDE DEF t
    <3> QED BY <2>1, <3>1, <3>2, AbsentAssumption DEF RunsInv, Shapes
  <2> HIDE DEF f
  <2>3. CASE At(r, "fillreliability")
    <3>1. "movereliability" \in RunLabels
      BY DEF RunLabels
    <3>2. Goto(r, "movereliability") /\ reliability' = [reliability EXCEPT ![r].stage = "whole"]
      BY <2>3 DEF CreateReliability, At
    <3> QED BY <1>1, <2>1, <2>2, <2>3, <3>1, <3>2, GoesOn DEF At
  <2>4. CASE At(r, "movereliability") /\ ContextLoads(run[r].decision)
    <3> DEFINE path == [by |-> r, stage |-> "final"]
               t == [run[r] EXCEPT !.pc = "gameweek", !.reliability = path]
    <3>1. /\ reliability' = [reliability EXCEPT ![r].stage = "final"]
          /\ run' = [run EXCEPT ![r].pc = "gameweek", ![r].reliability = path]
      BY <2>4 DEF CreateReliability, At
    <3>2. run' = [run EXCEPT ![r] = t]
      BY <3>1 DEF RunsInv, Shapes
    <3>3. path \in Path
      BY DEF Path, Stage
    <3> HIDE DEF path
    <3>4. /\ t \in RunState /\ t.pc = "gameweek" /\ t.decision = d /\ t.ev = run[r].ev
          /\ t.state = run[r].state /\ t.reliability = path
      BY <1>0, <3>3 DEF RunState, RunLabels
    <3> HIDE DEF t
    <3>5. run' \in [Run -> RunState] /\ run'[r] = t /\ \A q \in Run \ {r} : run'[q] = run[q]
      BY <3>2, <3>4 DEF RunsInv, Shapes
    <3> QED BY <1>1, <2>1, <2>2, <2>4, <3>1, <3>4, <3>5 DEF At, path
  <2>5. CASE At(r, "movereliability") /\ ~ContextLoads(run[r].decision)
    <3>1. /\ reliability' = [reliability EXCEPT ![r].stage = "final"]
          /\ Fail(r, "STAGE_FAILED") /\ "STAGE_FAILED" \in Errors
      BY <2>5 DEF CreateReliability, At, Errors
    <3>2. Stops(r) /\ run'[r].pc = "failed"
      BY <3>1, RunFails
    <3> QED BY <1>1, <2>1, <2>2, <2>5, <3>1, <3>2 DEF At, Stops
  <2> QED BY <1>3, <2>3, <2>4, <2>5
<1> QED BY <1>2, <1>3 DEF CreateReliability

(* What the last steps hand on. *)
LEMMA BoundRow ==
  ASSUME RunsInv, Progress, NEW r \in Run, run[r].pc \in Binding, run'[r].ev = run[r].ev,
         run'[r].state = run[r].state, run'[r].decision = run[r].decision,
         run'[r].reliability = run[r].reliability,
         run'[r].pc \in {"verify"} \cup Timed,
         run'[r].pc \in Timed => /\ run'[r].at <= now' /\ run'[r].at < Deadline
                                 /\ StateBefore(run[r].state.by, run[r].at)',
         run'[r].pc \in GameweekWritten => gameweek'[run'[r].state.by] = Built(r)',
         run'[r].pc \in Completing => final'[run'[r].state.by] # None
  PROVE  RunRow(r)'
<1>1. run[r].pc \in HasState /\ run[r].pc \in DecisionKnown /\ run[r].pc \in Loaded
  BY DEF HasState, DecisionKnown, Loaded
<1>2. RunRow(r) /\ run[r].ev \in Supported
  BY DEF RunsInv, RunRow, Binding, Timed, GameweekWritten
<1>3. /\ run[r].state \in Path /\ run[r].state.stage # "torn" /\ run[r].reliability \in Path
      /\ NamedState(run[r].state.by, run[r].ev)'
      /\ FoundDecision(run[r].decision, run[r].state.by)'
      /\ NamedDecision(run[r].decision, run[r].state.by)'
      /\ NamedReliability(run[r].reliability.by, run[r].decision, run[r].state.by, run[r].ev)'
  BY <1>1, Relied
<1>4. run'[r].pc \notin {"idle", "failed", "dead", "newstate"}
  BY DEF Timed, GameweekWritten
<1> QED BY <1>2, <1>3, <1>4, RunnerAssumption DEF RunRow

LEMMA FinalizeKeeps ==
  ASSUME RunsInv, NEW r \in Run, Finalize(r)
  PROVE  RunsInv' /\ Progress
<1> DEFINE g == gameweek[run[r].state.by]
<1>1. /\ run[r].pc = "gameweek" /\ Live(r) /\ run[r].ev \in Evidence /\ run[r].pc \notin Writing
      /\ UNCHANGED <<now, overlapped, faults, chain>>
  BY DEF Finalize, At, Live, RunsInv, RunRow, Writing, RunnerIdle
<1>2. ASSUME NEW why \in Errors, Fail(r, why) PROVE RunsInv' /\ Progress
  BY <1>1, <1>2, Failed
<1>3. CASE Conflicts(g, Built(r))
  <2>1. Fail(r, "CONFLICT") /\ "CONFLICT" \in Errors
    BY <1>3 DEF Finalize, Errors
  <2> QED BY <1>2, <2>1
<1>4. CASE ~Conflicts(g, Built(r)) /\ ~BeforeDeadline
  <2>1. Fail(r, "DEADLINE") /\ "DEADLINE" \in Errors
    BY <1>4 DEF Finalize, Errors
  <2> QED BY <1>2, <2>1
<1>5. CASE ~Conflicts(g, Built(r)) /\ BeforeDeadline
  <2>1. \/ Fail(r, "MISSING")
        \/ run' = [run EXCEPT ![r].pc = "assemble", ![r].at = now]
    BY <1>5 DEF Finalize
  <2>2. "MISSING" \in Errors
    BY DEF Errors
  <2>3. CASE run' = [run EXCEPT ![r].pc = "assemble", ![r].at = now]
    <3> DEFINE t == [run[r] EXCEPT !.pc = "assemble", !.at = now]
    <3>1. /\ run[r] \in RunState /\ now \in Time /\ run \in [Run -> RunState]
          /\ "assemble" \in RunLabels
      BY DEF RunsInv, Shapes, RunLabels
    <3>2. /\ t \in RunState /\ t.pc = "assemble" /\ t.at = now /\ t.ev = run[r].ev
          /\ t.state = run[r].state /\ t.decision = run[r].decision
          /\ t.reliability = run[r].reliability
      BY <3>1 DEF RunState
    <3>3. run' = [run EXCEPT ![r] = t]
      BY <2>3, <3>1
    <3> HIDE DEF t
    <3>4. run' \in [Run -> RunState] /\ run'[r] = t /\ \A x \in Run \ {r} : run'[x] = run[x]
      BY <3>1, <3>2, <3>3
    <3>5. Moves(r)
      BY <1>1, <3>2, <3>4 DEF Moves, ElseSame, chain, Writing, Forward, BeforeState, StateOpen,
                              BeforeDecision, DecisionOpen, BeforeReliability
    <3>6. Shapes'
      BY <1>1, <3>4 DEF RunsInv, Shapes, chain
    <3>7. ASSUME Progress PROVE RunRow(r)'
      <4>1. run'[r].at <= now' /\ run'[r].at < Deadline
        BY <1>1, <1>5, <3>1, <3>2, <3>4, TimeAssumption DEF BeforeDeadline, Time
      <4>2. StateBefore(run[r].state.by, run[r].at)'
        <5>1. run[r].state.by \in Run
          BY <1>1, <3>7, Relied DEF HasState, DecisionKnown, Loaded, Binding
        <5>2. StateRow(run[r].state.by)
          BY <5>1 DEF RunsInv
        <5> QED BY <1>1, <3>2, <3>4, <5>2 DEF StateRow, StateBefore, chain
      <4> QED BY <1>1, <3>2, <3>4, <3>7, <4>1, <4>2, BoundRow
              DEF Binding, Timed, GameweekWritten, Completing
    <3> QED BY <1>1, <3>5, <3>6, <3>7, LocalMove DEF chain
  <2> QED BY <1>2, <2>1, <2>2, <2>3
<1> QED BY <1>3, <1>4, <1>5

LEMMA BuiltIsFile ==
  ASSUME RunsInv, NEW r \in Run, run[r].pc \in Binding
  PROVE  /\ run[r].state.by \in Run
         /\ Built(r) \in Gameweek /\ Built(r) # None
         /\ Manifest(r) \in Final /\ Manifest(r) # None
         /\ Built(r).decision = run[r].decision
         /\ Built(r).reliability = run[r].reliability.by
<1>1. /\ run[r].pc \in HasState /\ run[r].pc \in DecisionKnown /\ RunRow(r)
      /\ run[r].at \in Time
  BY DEF RunsInv, HasState, DecisionKnown, Loaded, Shapes, RunState
<1>2. run[r].state.by \in Run /\ run[r].decision \in Run /\ run[r].reliability.by \in Run
  BY <1>1 DEF RunRow, NamedState, FoundDecision, NamedReliability
<1>3. Built(r) \in Gameweek /\ Manifest(r) \in Final
  BY <1>1, <1>2 DEF Built, Manifest, Gameweek, Final
<1> QED BY <1>2, <1>3, AbsentAssumption DEF Built

LEMMA WriteGameweekKeeps ==
  ASSUME RunsInv, NEW r \in Run, WriteGameweek(r)
  PROVE  RunsInv' /\ Progress
<1> DEFINE s == run[r].state.by
<1>1. /\ run[r].pc = "assemble" /\ Live(r) /\ run[r].ev \in Evidence /\ run[r].pc \notin Writing
      /\ UNCHANGED <<now, overlapped, faults, statefile, receipt, decision, reliability, final>>
  BY DEF WriteGameweek, At, Live, RunsInv, RunRow, Writing, RunnerIdle
<1>2. s \in Run /\ Built(r) \in Gameweek /\ Built(r) # None
  BY <1>1, BuiltIsFile DEF Binding, Timed
<1>3. ASSUME NEW l \in {"unlinkgameweek", "final"}, Goto(r, l),
             gameweek'[s] = Built(r), gameweek[s] \in {None, Built(r)},
             gameweek' \in [Run -> Gameweek \cup {None}],
             \A x \in Run \ {s} : gameweek'[x] = gameweek[x], doubled' \subseteq Run
      PROVE  RunsInv' /\ Progress
  <2>1. /\ run' \in [Run -> RunState] /\ \A x \in Run \ {r} : run'[x] = run[x]
        /\ run'[r].pc = l /\ run'[r].ev = run[r].ev /\ run'[r].at = run[r].at
        /\ run'[r].state = run[r].state /\ run'[r].decision = run[r].decision
        /\ run'[r].reliability = run[r].reliability
    BY <1>3, GoesOn DEF RunLabels
  <2>2. Moves(r)
    BY <1>1, <1>3, <2>1 DEF Moves, ElseSame, Writing, Forward, BeforeState, StateOpen,
                            BeforeDecision, DecisionOpen, BeforeReliability
  <2>3. Shapes'
    BY <1>1, <1>3, <2>1 DEF RunsInv, Shapes
  <2>4. KeysGrow
    BY <1>1, <1>3 DEF KeysGrow
  <2>5. ASSUME Progress PROVE RunRow(r)'
    <3>1. run'[r].at <= now' /\ run'[r].at < Deadline
      BY <1>1, <2>1 DEF RunsInv, RunRow, Timed
    <3>2. StateBefore(run[r].state.by, run[r].at)'
      BY <1>1, <2>1, <2>5, Relied DEF Timed
    <3>3. gameweek'[run'[r].state.by] = Built(r)'
      BY <1>3, <2>1 DEF Built
    <3> QED BY <1>1, <1>3, <2>1, <2>5, <3>1, <3>2, <3>3, BoundRow
            DEF Binding, Timed, GameweekWritten, Completing
  <2>6. ASSUME Progress, NEW x \in Run PROVE gameweek'[x] = gameweek[x] \/ GameweekRow(x)'
    <3> SUFFICES ASSUME x = s PROVE GameweekRow(x)'
      BY <1>3
    <3>1. run[x].ev = run[r].ev /\ run'[x].ev = run[x].ev
      <4>1. NamedState(s, run[r].ev)
        BY <1>1, <2>6, Relied DEF HasState, DecisionKnown, Loaded, Binding, Timed
      <4> QED BY <2>1, <4>1 DEF NamedState
    <3>2. /\ run[r].pc \in HasState /\ run[r].pc \in DecisionKnown /\ run[r].pc \in Loaded
          /\ run[r].pc \in Binding
      BY <1>1 DEF HasState, DecisionKnown, Loaded, Binding, Timed
    <3>3. ASSUME NEW e, e = run[r].ev, NEW d, d = run[r].decision, NEW q, q = run[r].reliability.by
          PROVE  NamedState(x, e)' /\ NamedDecision(d, x)' /\ NamedReliability(q, d, x, e)'
      BY <2>6, <3>2, <3>3, Relied
    <3>4. /\ gameweek'[x].decision = run[r].decision
          /\ gameweek'[x].reliability = run[r].reliability.by
      BY <1>3 DEF Built
    <3> QED BY <3>1, <3>3, <3>4 DEF GameweekRow
  <2>7. ASSUME Progress, NEW x \in Run
        PROVE  (gameweek'[x] = gameweek[x] /\ final'[x] = final[x]) \/ FinalRow(x)'
    <3> SUFFICES ASSUME x = s, gameweek[s] = None PROVE FinalRow(x)'
      BY <1>1, <1>3
    <3>1. final[x] = None
      <4> SUFFICES ASSUME final[x] # None PROVE FALSE
        OBVIOUS
      <4>1. /\ gameweek[x] = [decision |-> final[x].decision, reliability |-> final[x].reliability]
            /\ final[x] \in Final
        BY DEF RunsInv, Shapes, FinalRow
      <4>2. gameweek[x] \in Gameweek
        BY <4>1 DEF Final, Gameweek
      <4> QED BY <4>2, AbsentAssumption
    <3> QED BY <1>1, <3>1 DEF FinalRow
  <2> QED BY <1>1, <2>2, <2>3, <2>4, <2>5, <2>6, <2>7, RunMoves
<1>4. CASE gameweek[s] = None
  <2>1. /\ Goto(r, "unlinkgameweek") /\ gameweek' = [gameweek EXCEPT ![s] = Built(r)]
        /\ doubled' = doubled \cup {s}
    BY <1>2, <1>4 DEF WriteGameweek
  <2>2. /\ gameweek'[s] = Built(r) /\ gameweek' \in [Run -> Gameweek \cup {None}]
        /\ \A x \in Run \ {s} : gameweek'[x] = gameweek[x]
        /\ doubled' \subseteq Run
    BY <1>2, <2>1 DEF RunsInv, Shapes
  <2> HIDE DEF s
  <2> QED BY <1>3, <1>4, <2>1, <2>2
<1>5. CASE gameweek[s] = Built(r)
  <2>1. Goto(r, "final") /\ gameweek' = gameweek /\ doubled' = doubled
    BY <1>2, <1>5 DEF WriteGameweek
  <2> HIDE DEF s
  <2> QED BY <1>3, <1>5, <2>1 DEF RunsInv, Shapes
<1>6. CASE gameweek[s] # None /\ gameweek[s] # Built(r)
  <2>1. /\ Fail(r, "CONFLICT") /\ gameweek' = gameweek /\ doubled' = doubled
        /\ "CONFLICT" \in Errors
    BY <1>6 DEF WriteGameweek, Errors
  <2> QED BY <1>1, <2>1, Failed DEF chain
<1> QED BY <1>4, <1>5, <1>6

LEMMA WriteFinalKeeps ==
  ASSUME RunsInv, NEW r \in Run, WriteFinal(r)
  PROVE  RunsInv' /\ Progress
<1> DEFINE s == run[r].state.by
<1>1. /\ run[r].pc = "final" /\ Live(r) /\ run[r].ev \in Evidence /\ run[r].pc \notin Writing
      /\ UNCHANGED <<now, overlapped, faults, statefile, receipt, decision, reliability, gameweek>>
  BY DEF WriteFinal, At, Live, RunsInv, RunRow, Writing, RunnerIdle
<1>2. s \in Run /\ Manifest(r) \in Final /\ Manifest(r) # None
  BY <1>1, BuiltIsFile DEF Binding, Timed, GameweekWritten
<1>2a. gameweek[s] = Built(r) /\ run[r].at <= now /\ run[r].at < Deadline
  BY <1>1 DEF RunsInv, RunRow, GameweekWritten, Timed
<1>3. ASSUME NEW l \in {"unlinkfinal", "verify"}, Goto(r, l),
             final'[s] = Manifest(r), final[s] \in {None, Manifest(r)},
             final' \in [Run -> Final \cup {None}],
             \A x \in Run \ {s} : final'[x] = final[x], doubled' \subseteq Run
      PROVE  RunsInv' /\ Progress
  <2>1. /\ run' \in [Run -> RunState] /\ \A x \in Run \ {r} : run'[x] = run[x]
        /\ run'[r].pc = l /\ run'[r].ev = run[r].ev /\ run'[r].at = run[r].at
        /\ run'[r].state = run[r].state /\ run'[r].decision = run[r].decision
        /\ run'[r].reliability = run[r].reliability
    BY <1>3, GoesOn DEF RunLabels
  <2>2. Moves(r)
    BY <1>1, <1>3, <2>1 DEF Moves, ElseSame, Writing, Forward, BeforeState, StateOpen,
                            BeforeDecision, DecisionOpen, BeforeReliability
  <2>3. Shapes'
    BY <1>1, <1>3, <2>1 DEF RunsInv, Shapes
  <2>4. KeysGrow
    BY <1>1, <1>3 DEF KeysGrow
  <2>5. ASSUME Progress PROVE RunRow(r)'
    <3>2. StateBefore(run[r].state.by, run[r].at)'
      BY <1>1, <2>1, <2>5, Relied DEF Timed, GameweekWritten
    <3>3. gameweek'[run'[r].state.by] = Built(r)'
      BY <1>1, <1>2a, <2>1 DEF Built
    <3>4. final'[run'[r].state.by] # None
      BY <1>2, <1>3, <2>1
    <3> QED BY <1>1, <1>2a, <1>3, <2>1, <2>5, <3>2, <3>3, <3>4, BoundRow
            DEF Binding, Timed, GameweekWritten, Completing
  <2>7. ASSUME Progress, NEW x \in Run
        PROVE  (gameweek'[x] = gameweek[x] /\ final'[x] = final[x]) \/ FinalRow(x)'
    <3> SUFFICES ASSUME x = s PROVE FinalRow(x)'
      BY <1>1, <1>3
    <3>1. /\ final'[x].at = run[r].at /\ final'[x].decision = run[r].decision
          /\ final'[x].reliability = run[r].reliability.by
      BY <1>3 DEF Manifest
    <3>2. ASSUME NEW at, at = run[r].at PROVE StateBefore(x, at)'
      BY <1>1, <2>7, <3>2, Relied DEF Timed, GameweekWritten
    <3> QED BY <1>1, <1>2a, <3>1, <3>2 DEF FinalRow, Built
  <2> QED BY <1>1, <2>2, <2>3, <2>4, <2>5, <2>7, RunMoves
<1>4. CASE final[s] = None
  <2>1. /\ Goto(r, "unlinkfinal") /\ final' = [final EXCEPT ![s] = Manifest(r)]
        /\ doubled' = doubled \cup {s}
    BY <1>2, <1>4 DEF WriteFinal
  <2>2. /\ final'[s] = Manifest(r) /\ final' \in [Run -> Final \cup {None}]
        /\ \A x \in Run \ {s} : final'[x] = final[x]
        /\ doubled' \subseteq Run
    BY <1>2, <2>1 DEF RunsInv, Shapes
  <2> HIDE DEF s
  <2> QED BY <1>3, <1>4, <2>1, <2>2
<1>5. CASE final[s] = Manifest(r)
  <2>1. Goto(r, "verify") /\ final' = final /\ doubled' = doubled
    BY <1>2, <1>5 DEF WriteFinal
  <2> HIDE DEF s
  <2> QED BY <1>3, <1>5, <2>1 DEF RunsInv, Shapes
<1>6. CASE final[s] # None /\ final[s] # Manifest(r)
  <2>1. /\ Fail(r, "CONFLICT") /\ final' = final /\ doubled' = doubled
        /\ "CONFLICT" \in Errors
    BY <1>6 DEF WriteFinal, Errors
  <2> QED BY <1>1, <2>1, Failed DEF chain
<1> QED BY <1>4, <1>5, <1>6

LEMMA UnlinkKeeps ==
  ASSUME RunsInv, NEW r \in Run, Unlink(r)
  PROVE  RunsInv' /\ Progress
<1>1. /\ run[r].pc \in {"unlinkgameweek", "unlinkfinal"} /\ Live(r) /\ run[r].pc \notin Writing
      /\ UNCHANGED <<now, overlapped, faults, statefile, receipt, decision, reliability, gameweek,
                     final>>
      /\ doubled' \subseteq Run
  BY DEF Unlink, At, Live, RunsInv, Shapes, Writing, RunnerIdle
<1>2. PICK l \in {"final", "verify"} :
        Goto(r, l) /\ (l = "verify" <=> run[r].pc = "unlinkfinal")
  BY DEF Unlink, At
<1>3. /\ run' \in [Run -> RunState] /\ \A x \in Run \ {r} : run'[x] = run[x]
      /\ run'[r].pc = l /\ run'[r].ev = run[r].ev /\ run'[r].at = run[r].at
      /\ run'[r].state = run[r].state /\ run'[r].decision = run[r].decision
      /\ run'[r].reliability = run[r].reliability
  BY <1>2, GoesOn DEF RunLabels
<1>4. Moves(r)
  BY <1>1, <1>3 DEF Moves, ElseSame, Writing, Forward, BeforeState, StateOpen,
                    BeforeDecision, DecisionOpen, BeforeReliability
<1>5. Shapes'
  BY <1>1, <1>3 DEF RunsInv, Shapes
<1>6. ASSUME Progress PROVE RunRow(r)'
  <2>1. /\ run[r].at <= now /\ run[r].at < Deadline /\ gameweek[run[r].state.by] = Built(r)
        /\ run[r].pc = "unlinkfinal" => final[run[r].state.by] # None
    BY <1>1 DEF RunsInv, RunRow, GameweekWritten, Timed, Completing
  <2>2. StateBefore(run[r].state.by, run[r].at)'
    BY <1>1, <1>3, <1>6, Relied DEF Timed, GameweekWritten
  <2>3. gameweek'[run'[r].state.by] = Built(r)'
    BY <1>1, <1>3, <2>1 DEF Built
  <2>4. run'[r].pc \in Completing => final'[run'[r].state.by] # None
    BY <1>1, <1>2, <1>3, <2>1 DEF Completing
  <2> QED BY <1>1, <1>3, <1>6, <2>1, <2>2, <2>3, <2>4, BoundRow
          DEF Binding, Timed, GameweekWritten
<1> QED BY <1>1, <1>4, <1>5, <1>6, LocalMove

LEMMA VerifyCompletedKeeps ==
  ASSUME RunsInv, NEW r \in Run, VerifyCompleted(r)
  PROVE  RunsInv' /\ Progress
<1>1. /\ run[r].pc = "verify" /\ Live(r) /\ run[r].ev \in Supported /\ run[r].pc \notin Writing
      /\ final[run[r].state.by] # None
      /\ UNCHANGED <<now, overlapped, faults, chain>>
  BY DEF VerifyCompleted, At, Live, RunsInv, RunRow, Completing, Writing, RunnerIdle
<1>2. CASE Fail(r, "HASH_MISMATCH")
  <2>1. "HASH_MISMATCH" \in Errors
    BY DEF Errors
  <2> QED BY <1>1, <1>2, <2>1, Failed
<1>3. CASE Goto(r, "done")
  <2>1. /\ run' \in [Run -> RunState] /\ \A x \in Run \ {r} : run'[x] = run[x]
        /\ run'[r].pc = "done" /\ run'[r].ev = run[r].ev /\ run'[r].state = run[r].state
    BY <1>3, GoesOn DEF RunLabels
  <2>2. Moves(r)
    BY <1>1, <2>1 DEF Moves, ElseSame, chain, Writing, Forward, BeforeState, StateOpen,
                      BeforeDecision, DecisionOpen, BeforeReliability
  <2>3. Shapes'
    BY <1>1, <2>1 DEF RunsInv, Shapes, chain
  <2>4. ASSUME Progress PROVE RunRow(r)'
    <3>1. /\ run[r].state \in Path /\ run[r].state.stage # "torn"
          /\ NamedState(run[r].state.by, run[r].ev)'
      BY <1>1, <2>1, <2>4, Relied DEF HasState
    <3> QED BY <1>1, <2>1, <3>1, RunnerAssumption
            DEF RunRow, Timed, GameweekWritten, HasState, DecisionKnown, Loaded, Binding,
                Completing, chain
  <2> QED BY <1>1, <2>2, <2>3, <2>4, LocalMove DEF chain
<1> QED BY <1>2, <1>3 DEF VerifyCompleted

LEMMA StageFailsKeeps ==
  ASSUME RunsInv, NEW r \in Run, StageFails(r)
  PROVE  RunsInv' /\ Progress
<1>1. /\ UNCHANGED <<now, overlapped, receipt, gameweek, final, doubled>>
      /\ Fail(r, "STORAGE") /\ "STORAGE" \in Errors
  BY DEF StageFails, Errors
<1>2. faults' \in 0 .. MaxFaults
  BY TimeAssumption DEF StageFails, Fault, RunsInv, Shapes
<1>3. Stops(r) /\ run'[r].pc = "failed" /\ run'[r].ev = run[r].ev
      /\ run' \in [Run -> RunState] /\ \A q \in Run \ {r} : run'[q] = run[q]
  BY <1>1, RunFails DEF Stops
<1>4. StateRow(r) /\ DecisionRow(r) /\ ReliabilityRow(r)
  BY DEF RunsInv
<1>5. CASE /\ run[r].pc \in {"fillstate", "movestate"} /\ statefile' = [statefile EXCEPT ![r] = None]
           /\ UNCHANGED <<decision, reliability>>
  <2>1. /\ statefile'[r] = None /\ statefile' \in [Run -> StateFile \cup {None}]
        /\ \A q \in Run \ {r} : statefile'[q] = statefile[q]
    BY <1>5 DEF RunsInv, Shapes
  <2>2. OwnStep(r) /\ Shapes' /\ ElseSame(r)
    BY <1>1, <1>2, <1>3, <1>5, <2>1 DEF OwnStep, RunsInv, Shapes, ElseSame, Live
  <2>3. decision[r] = None /\ reliability[r] = None
    BY <1>4, <1>5 DEF DecisionRow, ReliabilityRow, BeforeDecision, BeforeReliability,
                      DecisionOpen, StateOpen
  <2>4. Onward(r)
    BY <1>3, <1>5, <2>1 DEF Onward, StateOpen, DecisionOpen, ReliabilityOpen, BeforeState,
                            BeforeDecision, BeforeReliability
  <2>5. StateRow(r)' /\ DecisionRow(r)' /\ ReliabilityRow(r)'
    BY <1>3, <1>5, <2>1, <2>3 DEF StateRow, DecisionRow, ReliabilityRow
  <2>6. RunRow(r)'
    BY <1>3, <1>5, StoppedRow
  <2> QED BY <2>2, <2>4, <2>5, <2>6, OwnFile
<1>6. CASE /\ run[r].pc \in {"filldecision", "movedecision"}
           /\ decision' = [decision EXCEPT ![r] = None]
           /\ UNCHANGED <<statefile, reliability>>
  <2>1. /\ decision'[r] = None /\ decision' \in [Run -> Decision \cup {None}]
        /\ \A q \in Run \ {r} : decision'[q] = decision[q]
    BY <1>6 DEF RunsInv, Shapes
  <2>2. OwnStep(r) /\ Shapes' /\ ElseSame(r)
    BY <1>1, <1>2, <1>3, <1>6, <2>1 DEF OwnStep, RunsInv, Shapes, ElseSame, Live
  <2>3. reliability[r] = None
    BY <1>4, <1>6 DEF ReliabilityRow, BeforeReliability, DecisionOpen
  <2>4. Onward(r)
    BY <1>3, <1>6, <2>1 DEF Onward, StateOpen, DecisionOpen, ReliabilityOpen, BeforeState,
                            BeforeDecision, BeforeReliability
  <2>5. StateRow(r)'
    BY <1>3, <1>4, <1>6, <1>1 DEF StateRow, BeforeState
  <2>6. DecisionRow(r)' /\ ReliabilityRow(r)'
    BY <1>3, <1>6, <2>1, <2>3 DEF DecisionRow, ReliabilityRow
  <2>7. RunRow(r)'
    BY <1>3, <1>6, StoppedRow
  <2> QED BY <2>2, <2>4, <2>5, <2>6, <2>7, OwnFile
<1>7. CASE /\ run[r].pc \in {"fillreliability", "movereliability"}
           /\ reliability' = [reliability EXCEPT ![r] = None]
           /\ UNCHANGED <<statefile, decision>>
  <2>1. /\ reliability'[r] = None /\ reliability' \in [Run -> Reliability \cup {None}]
        /\ \A q \in Run \ {r} : reliability'[q] = reliability[q]
    BY <1>7 DEF RunsInv, Shapes
  <2>2. OwnStep(r) /\ Shapes' /\ ElseSame(r)
    BY <1>1, <1>2, <1>3, <1>7, <2>1 DEF OwnStep, RunsInv, Shapes, ElseSame, Live
  <2>4. Onward(r)
    BY <1>3, <1>7, <2>1 DEF Onward, StateOpen, DecisionOpen, ReliabilityOpen, BeforeState,
                            BeforeDecision, BeforeReliability
  <2>5. StateRow(r)'
    BY <1>3, <1>4, <1>7, <1>1 DEF StateRow, BeforeState
  <2>6. ASSUME Progress PROVE DecisionRow(r)'
    <3>1. decision[r] # None => NamedState(decision[r].state.by, run[r].ev)'
      BY <1>3, <1>4, <1>7, <2>6, NamedStateStays DEF DecisionRow, NamedState
    <3> QED BY <1>3, <1>4, <1>7, <3>1 DEF DecisionRow, BeforeDecision, StateOpen, BeforeState
  <2>7. ReliabilityRow(r)'
    BY <1>3, <2>1 DEF ReliabilityRow
  <2>8. RunRow(r)'
    BY <1>3, <1>7, StoppedRow
  <2> QED BY <2>2, <2>4, <2>5, <2>6, <2>7, <2>8, OwnFile
<1> QED BY <1>5, <1>6, <1>7 DEF StageFails

LEMMA FaultCounted ==
  ASSUME RunsInv, faults < MaxFaults, faults' = faults + 1
  PROVE  faults' \in 0 .. MaxFaults
BY TimeAssumption DEF RunsInv, Shapes

LEMMA KillRunKeeps ==
  ASSUME RunsInv, NEW r \in Run, KillRun(r)
  PROVE  RunsInv' /\ Progress
BY Killed, FaultCounted DEF KillRun, Fault

(* Time passes, or a step is not about the runs. *)
LEMMA ElsewhereKeeps ==
  ASSUME RunsInv, now' \in Time, now <= now', faults' \in 0 .. MaxFaults,
         UNCHANGED <<run, chain, overlapped>>
  PROVE  RunsInv' /\ Progress
<1>1. Shapes' /\ OverlapsSeen'
  BY DEF RunsInv, Shapes, OverlapsSeen, chain, Live
<1>2. Progress
  <2>1. \A q \in Run : Onward(q)
    BY DEF Onward, chain
  <2> QED BY <2>1 DEF Progress, chain
<1>3. now \in Time
  BY DEF RunsInv, Shapes
<1>4. ASSUME NEW q \in Run
      PROVE  RunRow(q)' /\ StateRow(q)' /\ DecisionRow(q)' /\ ReliabilityRow(q)'
  BY <1>2, <1>3, RowsStay DEF chain
<1>5. ASSUME NEW s \in Run PROVE GameweekRow(s)' /\ FinalRow(s)'
  BY <1>2, <1>3, KeysStay DEF chain
<1> QED BY <1>1, <1>2, <1>4, <1>5 DEF RunsInv

LEMMA TickKeeps ==
  ASSUME RunsInv, Tick
  PROVE  RunsInv' /\ Progress
<1>1. now' \in Time /\ now <= now'
  BY TimeAssumption DEF Tick, RunsInv, Shapes, Time
<1> QED BY <1>1, ElsewhereKeeps DEF Tick, RunsInv, Shapes

-----------------------------------------------------------------------------
(* The inductive invariant of the preparers, the sessions and the journal *)

PrepareTypes ==
  /\ observed \in Time \cup {None}
  /\ inputs \in [Input -> Version]
  /\ predicting \in {"none", "dir", "half", "both"}
  /\ prep \in Preparation \cup {None}
  /\ preparer \in [Preparer -> PreparerState]

(* What was pinned was observed before the deadline, and a preparation that
   was published is the one of whoever found it so. *)
PreparerRow(p) ==
  LET t == preparer[p] IN
  /\ t.pc \in {"publish", "copy", "check", "ready"} => EvidenceCutoffHolds
  /\ t.pc \in {"check", "ready"} => prep # None /\ prep.manifest = t.pinned
  /\ t.pc = "ready" => DirectoryValid

PrepInv ==
  /\ PrepareTypes
  /\ observed # None => inputs["refresh"] # 0
  /\ \A p \in Preparer : PreparerRow(p)

Agreed  == {"publish", "stage", "rename", "published", "running"}
Drafted == {"facts", "review"} \cup Agreed

SessionRow(r) ==
  LET t == session[r] IN
  /\ t.pc \in Drafted => t.draft \in Evidence
  /\ t.pc \in Agreed => t.shown = t.draft
  /\ t.pc = "rename" => t.read < Deadline
  /\ t.pc \in {"published", "running"} => published[t.draft] # None
  /\ t.pc = "running" => run[r].pc # "idle" /\ run[r].ev = t.draft
  /\ t.result \in {"VERIFIED_EVIDENCE_PUBLISHED", "VERIFIED_DECISION_AVAILABLE"} =>
       t.pc = "ended" /\ t.shown \in Evidence /\ published[t.shown] # None
  /\ t.result = "VERIFIED_DECISION_AVAILABLE" => run[r].pc = "done" /\ run[r].ev = t.shown

(* Whoever published a content showed it, and does not show another one later. *)
PublishedRow(e) ==
  published[e] # None =>
    LET t == session[published[e].by] IN
    /\ t.shown = e /\ t.pc \in {"published", "running", "ended"}
    /\ published[e].at < Deadline

SessInv ==
  /\ AuthoringTypeOK
  /\ \A r \in Run : SessionRow(r)
  /\ \A e \in Evidence : PublishedRow(e)

EntryRow(e) ==
  /\ final[e.decision] = e.chain /\ e.chain.at <= e.at /\ e.at <= now
  /\ e.class = "PROSPECTIVE" => e.at < Deadline

OutcomeRow(o) == o.entry \in entries /\ o.entry.at <= o.at /\ o.at > Deadline

JournalInv ==
  /\ JournalTypeOK
  /\ \A e \in entries : EntryRow(e)
  /\ \A o \in outcomes : OutcomeRow(o)

GameweekInv == RunsInv /\ PrepInv /\ SessInv /\ JournalInv

-----------------------------------------------------------------------------
(* prepare_gameweek *)

LEMMA PrepAssembled ==
  ASSUME PrepInv, NEW p \in Preparer, PrepareTypes',
         observed # None => observed' = observed, prep # None => prep' = prep,
         observed' # None => inputs'["refresh"] # 0,
         \A q \in Preparer \ {p} : preparer'[q] = preparer[q], PreparerRow(p)'
  PROVE  PrepInv'
<1>1. EvidenceCutoffHolds => EvidenceCutoffHolds'
  BY AbsentAssumption DEF EvidenceCutoffHolds
<1>2. ASSUME NEW q \in Preparer \ {p} PROVE PreparerRow(q)'
  <2>1. PreparerRow(q)
    BY <1>2 DEF PrepInv
  <2>2. prep # None /\ DirectoryValid => DirectoryValid'
    BY DEF DirectoryValid
  <2> QED BY <1>1, <1>2, <2>1, <2>2 DEF PreparerRow
<1> QED BY <1>2 DEF PrepInv

LEMMA PreparerGoes ==
  ASSUME PrepareTypes, NEW p \in Preparer, NEW l \in PreparerLabels, PreparerGoto(p, l)
  PROVE  /\ preparer' \in [Preparer -> PreparerState]
         /\ \A q \in Preparer \ {p} : preparer'[q] = preparer[q]
         /\ preparer'[p].pc = l /\ preparer'[p].pinned = preparer[p].pinned
         /\ preparer'[p].copies = preparer[p].copies
BY DEF PrepareTypes, PreparerGoto, PreparerState

(* A preparer goes on to a place that promises no more than the one it is at. *)
LEMMA PreparerGoesOn ==
  ASSUME PrepInv, NEW p \in Preparer, NEW l \in PreparerLabels, PreparerGoto(p, l),
         PrepareTypes' \/ UNCHANGED <<observed, inputs, predicting, prep>>,
         observed # None => observed' = observed, prep' = prep,
         observed' # None => inputs'["refresh"] # 0,
         l \in {"publish", "copy", "check", "ready"} =>
           preparer[p].pc \in {"publish", "copy", "check"},
         l \in {"check", "ready"} => prep # None /\ prep.manifest = preparer[p].pinned,
         l = "ready" => DirectoryValid
  PROVE  PrepInv'
<1>1. /\ preparer' \in [Preparer -> PreparerState]
      /\ \A q \in Preparer \ {p} : preparer'[q] = preparer[q]
      /\ preparer'[p].pc = l /\ preparer'[p].pinned = preparer[p].pinned
  BY PreparerGoes DEF PrepInv
<1>2. PrepareTypes'
  BY <1>1 DEF PrepInv, PrepareTypes
<1>3. EvidenceCutoffHolds => EvidenceCutoffHolds'
  BY AbsentAssumption DEF EvidenceCutoffHolds
<1>4. PreparerRow(p)'
  BY <1>1, <1>3 DEF PrepInv, PreparerRow, DirectoryValid
<1> QED BY <1>1, <1>2, <1>4, PrepAssembled

LEMMA PrepareStepKeeps ==
  ASSUME PrepInv, now \in Time, NEW p \in Preparer, PrepareStep(p)
  PROVE  /\ PrepInv' /\ (prep # None => prep' = prep)
         /\ UNCHANGED <<now, run, chain, overlapped, faults>>
<1> USE DEF PreparerAt
<1>0. PrepareTypes /\ PreparerRow(p) /\ (observed # None => inputs["refresh"] # 0)
  BY DEF PrepInv
<1>1. CASE RefreshStage(p)
  <2>1. /\ PreparerGoto(p, "event") /\ "event" \in PreparerLabels
        /\ UNCHANGED <<now, predicting, prep, run, chain, overlapped, faults>>
        /\ preparer[p].pc = "idle"
    BY <1>1 DEF RefreshStage, PreparerLabels
  <2>2. CASE inputs["refresh"] = 0
    <3>1. inputs' = [inputs EXCEPT !["refresh"] = 1] /\ observed' = now /\ observed = None
      BY <1>0, <1>1, <2>2 DEF RefreshStage
    <3>2. inputs' \in [Input -> Version] /\ inputs'["refresh"] = 1
      BY <1>0, <3>1 DEF PrepareTypes, Input, Version
    <3>3. PrepareTypes'
      BY <1>0, <2>1, <3>1, <3>2, PreparerGoes DEF PrepareTypes
    <3> QED BY <2>1, <3>1, <3>2, <3>3, PreparerGoesOn
  <2>3. CASE inputs["refresh"] # 0
    <3>1. UNCHANGED <<inputs, observed>>
      BY <1>1, <2>3 DEF RefreshStage
    <3> QED BY <1>0, <2>1, <3>1, PreparerGoesOn
  <2> QED BY <2>2, <2>3
<1>2. ASSUME NEW l \in {"features", "failed", "predictdir", "validate", "predict", "pin"},
             PreparerGoto(p, l), UNCHANGED <<sources, prep>>
      PROVE  PrepInv'
  BY <1>0, <1>2, PreparerGoesOn DEF sources, PreparerLabels
<1>3. CASE OfficialEvent(p)
  BY <1>2, <1>3 DEF OfficialEvent
<1>4. CASE BuildFeatures(p)
  <2>1. UNCHANGED <<now, observed, predicting, prep, run, chain, overlapped, faults>>
    BY <1>4 DEF BuildFeatures
  <2>2. CASE EvidenceCutoffHolds
    <3>1. /\ inputs' = [inputs EXCEPT !["features"] = IF @ = 0 THEN 1 ELSE @]
          /\ PreparerGoto(p, "predict") /\ "predict" \in PreparerLabels
      BY <1>4, <2>2 DEF BuildFeatures, PreparerLabels
    <3>2. inputs' \in [Input -> Version] /\ inputs'["refresh"] = inputs["refresh"]
      BY <1>0, <3>1 DEF PrepareTypes, Input, Version
    <3>3. PrepareTypes'
      BY <1>0, <2>1, <3>1, <3>2, PreparerGoes DEF PrepareTypes
    <3> QED BY <1>0, <2>1, <3>1, <3>2, <3>3, PreparerGoesOn
  <2>3. CASE ~EvidenceCutoffHolds
    BY <1>2, <1>4, <2>1, <2>3 DEF BuildFeatures, sources
  <2> QED BY <2>2, <2>3
<1>5. CASE FindPredictions(p)
  BY <1>2, <1>5 DEF FindPredictions
<1>6. CASE PredictStage(p)
  <2>1. /\ UNCHANGED <<now, observed, prep, run, chain, overlapped, faults>>
        /\ Predict(p)
    BY <1>6 DEF PredictStage
  <2>2. ASSUME UNCHANGED preparer, inputs' = inputs, predicting' \in {"none", "dir", "half", "both"}
        PROVE  PrepInv'
    <3>1. PrepareTypes'
      BY <1>0, <2>1, <2>2 DEF PrepareTypes
    <3>2. PreparerRow(p)'
      BY <1>0, <2>1, <2>2 DEF PreparerRow, DirectoryValid, EvidenceCutoffHolds
    <3> QED BY <1>0, <2>1, <2>2, <3>1, <3>2, PrepAssembled
  <2>3. ASSUME NEW l \in {"predicthalf", "failed", "validate"}, PreparerGoto(p, l),
               inputs' = inputs \/ inputs' = [inputs EXCEPT !["predictions"] = 1],
               predicting' \in {"none", "dir", "half", "both"}
        PROVE  PrepInv'
    <3>1. inputs' \in [Input -> Version] /\ inputs'["refresh"] = inputs["refresh"]
      BY <1>0, <2>3 DEF PrepareTypes, Input, Version
    <3>2. l \in PreparerLabels
      BY DEF PreparerLabels
    <3>3. PrepareTypes'
      BY <1>0, <2>1, <2>3, <3>1, <3>2, PreparerGoes DEF PrepareTypes
    <3> QED BY <1>0, <2>1, <2>3, <3>1, <3>2, <3>3, PreparerGoesOn
  <2>4. \/ /\ UNCHANGED <<preparer, inputs>> /\ predicting' \in {"none", "dir", "half", "both"}
        \/ /\ \E l \in {"predicthalf", "failed", "validate"} : PreparerGoto(p, l)
           /\ inputs' = inputs \/ inputs' = [inputs EXCEPT !["predictions"] = 1]
           /\ predicting' \in {"none", "dir", "half", "both"}
    BY <1>0, <2>1 DEF Predict, PrepareTypes
  <2> QED BY <2>1, <2>2, <2>3, <2>4
<1>7. CASE ValidatePredictions(p)
  BY <1>2, <1>7 DEF ValidatePredictions
<1>8. CASE PinInputs(p)
  <2>1. UNCHANGED <<now, sources, prep, run, chain, overlapped, faults>>
    BY <1>8 DEF PinInputs
  <2>2. CASE EvidenceCutoffHolds /\ BeforeDeadline
    <3> DEFINE t == [preparer[p] EXCEPT !.pc = "publish", !.pinned = inputs]
    <3>1. preparer' = [preparer EXCEPT ![p] = t]
      BY <1>0, <1>8, <2>2 DEF PinInputs, PrepareTypes
    <3>2. t \in PreparerState /\ t.pc = "publish"
      BY <1>0 DEF PrepareTypes, PreparerState, PreparerLabels
    <3> HIDE DEF t
    <3>3. /\ preparer' \in [Preparer -> PreparerState] /\ preparer'[p].pc = "publish"
          /\ \A q \in Preparer \ {p} : preparer'[q] = preparer[q]
      BY <1>0, <3>1, <3>2 DEF PrepareTypes
    <3>4. PrepareTypes' /\ PreparerRow(p)'
      BY <1>0, <2>1, <2>2, <3>3 DEF PrepareTypes, PreparerRow, EvidenceCutoffHolds, sources
    <3> QED BY <1>0, <2>1, <3>3, <3>4, PrepAssembled DEF sources
  <2>3. CASE ~(EvidenceCutoffHolds /\ BeforeDeadline)
    BY <1>2, <1>8, <2>1, <2>3 DEF PinInputs
  <2> QED BY <2>1, <2>2, <2>3
<1>9. CASE ReusePreparation(p)
  <2>1. UNCHANGED <<now, sources, prep, run, chain, overlapped, faults>>
        /\ preparer[p].pc = "publish"
    BY <1>9 DEF ReusePreparation
  <2>2. CASE prep = None
    <3>1. PreparerGoto(p, "copy") /\ "copy" \in PreparerLabels
      BY <1>9, <2>2 DEF ReusePreparation, PreparerLabels
    <3> QED BY <1>0, <2>1, <3>1, PreparerGoesOn DEF sources
  <2>3. CASE prep # None /\ DirectoryValid /\ prep.manifest = preparer[p].pinned
    <3>1. PreparerGoto(p, "ready") /\ "ready" \in PreparerLabels
      BY <1>9, <2>3 DEF ReusePreparation, PreparerLabels
    <3> QED BY <1>0, <2>1, <2>3, <3>1, PreparerGoesOn DEF sources
  <2>4. CASE prep # None /\ ~(DirectoryValid /\ prep.manifest = preparer[p].pinned)
    BY <1>2, <1>9, <2>1, <2>4 DEF ReusePreparation
  <2> QED BY <2>1, <2>2, <2>3, <2>4
<1>10. CASE \E i \in Input : CopyInput(p, i)
  <2>1. PICK i \in Input : CopyInput(p, i)
    BY <1>10
  <2>2. UNCHANGED <<now, sources, prep, run, chain, overlapped, faults>>
        /\ preparer[p].pc = "copy"
    BY <2>1 DEF CopyInput
  <2> DEFINE c == [preparer[p].copies EXCEPT ![i] = inputs[i]]
             t == [preparer[p] EXCEPT !.copies = c]
  <2>3. preparer' = [preparer EXCEPT ![p] = t]
    BY <1>0, <2>1 DEF CopyInput, PrepareTypes
  <2>4. c \in [Input -> Version]
    BY <1>0 DEF PrepareTypes, PreparerState
  <2> HIDE DEF c
  <2>5. t \in PreparerState /\ t.pc = "copy"
    BY <1>0, <2>2, <2>4 DEF PrepareTypes, PreparerState
  <2> HIDE DEF t
  <2>6. /\ preparer' \in [Preparer -> PreparerState] /\ preparer'[p].pc = "copy"
        /\ \A q \in Preparer \ {p} : preparer'[q] = preparer[q]
    BY <1>0, <2>3, <2>5 DEF PrepareTypes
  <2>7. PrepareTypes' /\ PreparerRow(p)'
    BY <1>0, <2>2, <2>6 DEF PrepareTypes, PreparerRow, EvidenceCutoffHolds, sources
  <2> QED BY <1>0, <2>2, <2>6, <2>7, PrepAssembled DEF sources
<1>11. CASE RenamePreparation(p)
  <2>1. UNCHANGED <<now, sources, run, chain, overlapped, faults>> /\ preparer[p].pc = "copy"
    BY <1>11 DEF RenamePreparation
  <2>2. CASE prep = None
    <3> DEFINE d == [manifest |-> preparer[p].pinned, copies |-> preparer[p].copies]
    <3>1. prep' = d /\ PreparerGoto(p, "check") /\ "check" \in PreparerLabels
      BY <1>11, <2>2 DEF RenamePreparation, PreparerLabels
    <3>2. d \in Preparation /\ d # None /\ d.manifest = preparer[p].pinned
      <4>1. d \in Preparation
        BY <1>0 DEF PrepareTypes, PreparerState, Preparation
      <4> QED BY <4>1, AbsentAssumption
    <3> HIDE DEF d
    <3>3. /\ preparer' \in [Preparer -> PreparerState] /\ preparer'[p].pc = "check"
          /\ \A q \in Preparer \ {p} : preparer'[q] = preparer[q]
          /\ preparer'[p].pinned = preparer[p].pinned
      BY <1>0, <3>1, PreparerGoes
    <3>4. PrepareTypes' /\ PreparerRow(p)'
      BY <1>0, <2>1, <3>1, <3>2, <3>3 DEF PrepareTypes, PreparerRow, EvidenceCutoffHolds, sources
    <3> QED BY <1>0, <2>1, <2>2, <3>3, <3>4, PrepAssembled DEF sources
  <2>3. CASE prep # None
    BY <1>2, <1>11, <2>1, <2>3 DEF RenamePreparation
  <2> QED BY <2>1, <2>2, <2>3
<1>12. CASE CheckPreparation(p)
  <2>1. UNCHANGED <<now, sources, prep, run, chain, overlapped, faults>> /\ preparer[p].pc = "check"
    BY <1>12 DEF CheckPreparation
  <2>2. CASE DirectoryValid
    <3>1. PreparerGoto(p, "ready") /\ "ready" \in PreparerLabels
      BY <1>12, <2>2 DEF CheckPreparation, PreparerLabels
    <3> QED BY <1>0, <2>1, <2>2, <3>1, PreparerGoesOn DEF sources, PreparerRow
  <2>3. CASE ~DirectoryValid
    BY <1>2, <1>12, <2>1, <2>3 DEF CheckPreparation
  <2> QED BY <2>1, <2>2, <2>3
<1>13. CASE PreparerFails(p)
  <2>1. /\ PreparerGoto(p, "failed") /\ "failed" \in PreparerLabels
        /\ predicting' \in {predicting, "none"}
        /\ UNCHANGED <<now, observed, inputs, prep, run, chain, overlapped, faults>>
    BY <1>13 DEF PreparerFails, PreparerLabels
  <2>2. PrepareTypes'
    BY <1>0, <2>1, PreparerGoes DEF PrepareTypes
  <2> QED BY <1>0, <2>1, <2>2, PreparerGoesOn
<1> QED BY <1>1, <1>3, <1>4, <1>5, <1>6, <1>7, <1>8, <1>9, <1>10, <1>11, <1>12, <1>13
        DEF PrepareStep, OfficialEvent, FindPredictions, ValidatePredictions

(* A preparer is killed, or a file outside of the preparation is replaced. *)
LEMMA PreparationDisturbed ==
  ASSUME PrepInv,
         \/ \E p \in Preparer : KillPreparer(p)
         \/ \E i \in Input : ReplaceInput(i)
  PROVE  /\ PrepInv' /\ prep' = prep
         /\ UNCHANGED <<now, run, chain, overlapped>>
         /\ faults < MaxFaults /\ faults' = faults + 1
<1>1. ASSUME NEW p \in Preparer, KillPreparer(p)
      PROVE  PrepInv' /\ prep' = prep /\ UNCHANGED <<now, run, chain, overlapped>>
             /\ faults < MaxFaults /\ faults' = faults + 1
  <2>1. /\ PreparerGoto(p, "dead") /\ "dead" \in PreparerLabels
        /\ UNCHANGED <<now, sources, prep, run, chain, overlapped>>
        /\ faults < MaxFaults /\ faults' = faults + 1
    BY <1>1 DEF KillPreparer, Fault, PreparerLabels
  <2> QED BY <2>1, PreparerGoesOn DEF sources, PrepInv
<1>2. ASSUME NEW i \in Input, ReplaceInput(i)
      PROVE  PrepInv' /\ prep' = prep /\ UNCHANGED <<now, run, chain, overlapped>>
             /\ faults < MaxFaults /\ faults' = faults + 1
  <2>1. /\ inputs' = [inputs EXCEPT ![i] = 2]
        /\ UNCHANGED <<now, observed, predicting, prep, preparer, run, chain, overlapped>>
        /\ faults < MaxFaults /\ faults' = faults + 1
    BY <1>2 DEF ReplaceInput, Fault
  <2>2. inputs' \in [Input -> Version] /\ (inputs["refresh"] # 0 => inputs'["refresh"] # 0)
    BY <2>1 DEF PrepInv, PrepareTypes, Input, Version
  <2>3. PrepareTypes'
    BY <2>1, <2>2 DEF PrepInv, PrepareTypes
  <2>4. \A p \in Preparer : PreparerRow(p)'
    BY <2>1 DEF PrepInv, PreparerRow, DirectoryValid, EvidenceCutoffHolds
  <2> QED BY <2>1, <2>2, <2>3, <2>4 DEF PrepInv
<1> QED BY <1>1, <1>2

-----------------------------------------------------------------------------
(* The sessions *)

Telling == {"published", "running", "ended"}

(* A run that has begun goes on with its evidence, and one that is done stays so. *)
Settled ==
  \A q \in Run : /\ run[q].pc # "idle" => run'[q].ev = run[q].ev /\ run'[q].pc # "idle"
                 /\ run[q].pc = "done" => run'[q].pc = "done"

LEMMA SessAssembled ==
  ASSUME SessInv, Settled, NEW r \in Run, AuthoringTypeOK',
         \A q \in Run \ {r} : session'[q] = session[q], SessionRow(r)',
         session[r].pc \in Telling =>
           session'[r].pc \in Telling /\ session'[r].shown = session[r].shown,
         \A e \in Evidence : published[e] # None => published'[e] = published[e],
         \A e \in Evidence : published'[e] = published[e] \/ PublishedRow(e)'
  PROVE  SessInv'
<1>1. ASSUME NEW q \in Run \ {r} PROVE SessionRow(q)'
  <2>1. SessionRow(q)
    BY <1>1 DEF SessInv
  <2>2. session[q].pc \in {"published", "running"} => session[q].draft \in Evidence
    BY <2>1 DEF SessionRow, Drafted, Agreed
  <2> QED BY <1>1, <2>1, <2>2 DEF SessionRow, Settled
<1>2. ASSUME NEW e \in Evidence, published'[e] = published[e] PROVE PublishedRow(e)'
  <2>1. PublishedRow(e)
    BY DEF SessInv
  <2>2. published[e] # None => published[e].by \in Run
    BY DEF SessInv, AuthoringTypeOK, Publication
  <2> QED BY <1>2, <2>1, <2>2 DEF PublishedRow, Telling
<1> QED BY <1>1, <1>2 DEF SessInv

LEMMA SessionsStay ==
  ASSUME SessInv, Settled, UNCHANGED authoringVars
  PROVE  SessInv'
<1>1. AuthoringTypeOK' /\ \A e \in Evidence : PublishedRow(e)'
  BY DEF SessInv, AuthoringTypeOK, PublishedRow, authoringVars
<1>2. \A q \in Run : SessionRow(q)'
  BY DEF SessInv, SessionRow, Settled, authoringVars
<1> QED BY <1>1, <1>2 DEF SessInv

(* Session r goes on, in memory as t. *)
LEMMA SessionGoesOn ==
  ASSUME SessInv, Settled, NEW r \in Run, NEW t \in SessionState,
         session' = [session EXCEPT ![r] = t], draft' \in Draft \cup {None},
         published' = published,
         t.pc # "ended", session[r].pc # "ended", t.result = session[r].result,
         t.pc \in Drafted => t.draft \in Evidence,
         t.pc \in Agreed => t.shown = t.draft,
         t.pc = "rename" => t.read < Deadline,
         t.pc \in {"published", "running"} => published[t.draft] # None,
         t.pc = "running" => run'[r].pc # "idle" /\ run'[r].ev = t.draft,
         session[r].pc \in Telling => t.pc \in Telling /\ t.shown = session[r].shown
  PROVE  SessInv'
<1>1. /\ session' \in [Run -> SessionState] /\ session'[r] = t
      /\ \A q \in Run \ {r} : session'[q] = session[q]
  BY DEF SessInv, AuthoringTypeOK
<1>2. AuthoringTypeOK'
  BY <1>1 DEF SessInv, AuthoringTypeOK
<1>3. t.result \notin {"VERIFIED_EVIDENCE_PUBLISHED", "VERIFIED_DECISION_AVAILABLE"}
  BY DEF SessInv, SessionRow
<1>4. SessionRow(r)'
  BY <1>1, <1>3 DEF SessionRow
<1> QED BY <1>1, <1>2, <1>4, SessAssembled

(* Session r ends. *)
LEMMA SessionEnds ==
  ASSUME SessInv, Settled, NEW r \in Run, NEW result \in Results \cup {None}, End(r, result),
         draft' \in Draft \cup {None}, published' = published, session[r].pc # "ended",
         result \in {"VERIFIED_EVIDENCE_PUBLISHED", "VERIFIED_DECISION_AVAILABLE"} =>
           session[r].pc \in {"published", "running"},
         result = "VERIFIED_DECISION_AVAILABLE" =>
           session[r].pc = "running" /\ run[r].pc = "done"
  PROVE  SessInv'
<1> DEFINE t == Closed(r, result)
<1>1. t \in SessionState /\ t.pc = "ended" /\ t.shown = session[r].shown /\ t.result = result
  <2>1. NewSession \in SessionState
    BY TimeAssumption DEF NewSession, SessionState, SessionLabels, Draft, Time
  <2>2. session[r].shown \in Evidence \cup {None}
    BY DEF SessInv, AuthoringTypeOK, SessionState
  <2> QED BY <2>1, <2>2 DEF Closed, SessionState, SessionLabels
<1>2. session' = [session EXCEPT ![r] = t]
  BY DEF End
<1> HIDE DEF t
<1>3. /\ session' \in [Run -> SessionState] /\ session'[r] = t
      /\ \A q \in Run \ {r} : session'[q] = session[q]
  BY <1>1, <1>2 DEF SessInv, AuthoringTypeOK
<1>4. AuthoringTypeOK'
  BY <1>3 DEF SessInv, AuthoringTypeOK
<1>5. SessionRow(r)'
  <2>1. SessionRow(r)
    BY DEF SessInv
  <2>2. session[r].pc \in {"published", "running"} =>
          /\ session[r].shown \in Evidence /\ published[session[r].shown] # None
          /\ session[r].shown = session[r].draft
    BY <2>1 DEF SessionRow, Drafted, Agreed
  <2> QED BY <1>1, <1>3, <2>1, <2>2 DEF SessionRow, Settled, Drafted, Agreed
<1> QED BY <1>1, <1>3, <1>4, <1>5, SessAssembled DEF Telling

LEMMA RunsSettled == ASSUME run' = run PROVE Settled
BY DEF Settled

(* A session proceeds with what it has in memory. *)
LEMMA Proceeds ==
  ASSUME SessInv, Settled, NEW r \in Run, NEW l \in SessionLabels \ {"ended", "rename"}, Proceed(r, l),
         draft' \in Draft \cup {None}, published' = published, session[r].pc # "ended",
         l \in Drafted => session[r].draft \in Evidence,
         l \in Agreed => session[r].pc \in Agreed,
         l \in {"published", "running"} => published[session[r].draft] # None,
         l = "running" => run'[r].pc # "idle" /\ run'[r].ev = session[r].draft,
         session[r].pc \in Telling => l \in Telling
  PROVE  SessInv'
<1> DEFINE t == [session[r] EXCEPT !.pc = l]
<1>1. /\ t \in SessionState /\ t.pc = l /\ t.draft = session[r].draft
      /\ t.shown = session[r].shown /\ t.result = session[r].result
  BY DEF SessInv, AuthoringTypeOK, SessionState
<1>2. session' = [session EXCEPT ![r] = t]
  BY DEF Proceed
<1>3. t.pc \in Agreed => t.shown = t.draft
  BY <1>1 DEF SessInv, SessionRow
<1> HIDE DEF t
<1> QED BY <1>1, <1>2, <1>3, SessionGoesOn

LEMMA SessionTypes ==
  ASSUME SessInv, NEW r \in Run
  PROVE  /\ session[r] \in SessionState /\ session[r].draft \in Draft
         /\ draft \in Draft \cup {None} /\ session \in [Run -> SessionState]
         /\ SessionRow(r)
BY DEF SessInv, AuthoringTypeOK, SessionState

LEMMA StartSessionKeeps ==
  ASSUME SessInv, NEW r \in Run, StartSession(r) PROVE SessInv'
<1>1. /\ session[r].pc = "idle" /\ UNCHANGED <<runnerVars, published>> /\ Settled
  BY RunsSettled DEF StartSession, In, runnerVars
<1>2. /\ session[r] \in SessionState /\ session[r].draft \in Draft
      /\ draft \in Draft \cup {None} /\ session \in [Run -> SessionState]
  BY SessionTypes
<1>3. CASE ~PreparationValid
  <2>1. End(r, "TRUST_CHAIN_INVALID") /\ draft' = draft /\ "TRUST_CHAIN_INVALID" \in Results
    BY <1>3 DEF StartSession, Results
  <2> QED BY <1>1, <1>2, <2>1, SessionEnds
<1>4. CASE PreparationValid /\ ~BeforeDeadline
  <2>1. End(r, "DEADLINE_REACHED") /\ draft' = draft /\ "DEADLINE_REACHED" \in Results
    BY <1>4 DEF StartSession, Results
  <2> QED BY <1>1, <1>2, <2>1, SessionEnds
<1>5. CASE PreparationValid /\ BeforeDeadline
  <2>1. /\ draft' = IF draft = None THEN "empty" ELSE draft
        /\ session' = [session EXCEPT ![r].pc = "squad", ![r].draft = draft']
    BY <1>5 DEF StartSession
  <2>2. draft' \in Draft
    BY <1>2, <2>1 DEF Draft
  <2> DEFINE t == [session[r] EXCEPT !.pc = "squad", !.draft = draft']
  <2>3. t \in SessionState /\ t.pc = "squad" /\ t.result = session[r].result
    BY <1>2, <2>2 DEF SessionState, SessionLabels
  <2>4. session' = [session EXCEPT ![r] = t]
    BY <1>2, <2>1
  <2> HIDE DEF t
  <2> QED BY <1>1, <2>2, <2>3, <2>4, SessionGoesOn DEF Drafted, Agreed, Telling
<1> QED BY <1>3, <1>4, <1>5

LEMMA SelectingKeeps ==
  ASSUME SessInv, NEW r \in Run, UseSavedSquad(r) \/ SelectSquad(r) \/ Pick(r) PROVE SessInv'
<1>1. UNCHANGED <<runnerVars, published>> /\ Settled
  BY RunsSettled DEF UseSavedSquad, SelectSquad, Pick, runnerVars
<1>2. /\ session[r].draft \in Draft /\ draft \in Draft \cup {None} /\ SessionRow(r)
  BY SessionTypes
<1>3. CASE UseSavedSquad(r)
  <2>1. /\ session[r].pc = "squad" /\ session[r].draft \in Evidence /\ draft' = session[r].draft
        /\ Proceed(r, "facts") /\ "facts" \in SessionLabels \ {"ended", "rename"}
    BY <1>3 DEF UseSavedSquad, In, Complete, SessionLabels
  <2> QED BY <1>1, <1>2, <2>1, Proceeds DEF Drafted, Agreed, Telling
<1>4. CASE SelectSquad(r)
  <2>1. /\ session[r].pc \in {"squad", "review"} /\ draft' \in {draft, session[r].draft}
        /\ Proceed(r, "picking") /\ "picking" \in SessionLabels \ {"ended", "rename"}
    BY <1>4 DEF SelectSquad, In, SessionLabels
  <2> QED BY <1>1, <1>2, <2>1, Proceeds DEF Drafted, Agreed, Telling
<1>5. CASE Pick(r)
  <2>1. draft' = "partial" /\ session' = session
    BY <1>5 DEF Pick
  <2>2. AuthoringTypeOK' /\ SessionRow(r)'
    BY <1>1, <1>2, <2>1 DEF SessInv, AuthoringTypeOK, Draft, SessionRow, runnerVars
  <2> QED BY <1>1, <2>1, <2>2, SessAssembled
<1> QED BY <1>3, <1>4, <1>5

LEMMA PickLastKeeps ==
  ASSUME SessInv, NEW r \in Run, NEW e \in Supported, PickLast(r, e) PROVE SessInv'
<1>1. /\ UNCHANGED <<runnerVars, published>> /\ Settled /\ session[r].pc = "picking"
      /\ draft' = e /\ e \in Evidence /\ draft' \in Draft
  BY RunsSettled, RunnerAssumption DEF PickLast, In, runnerVars, Draft
<1>2. session[r] \in SessionState /\ session \in [Run -> SessionState]
  BY SessionTypes
<1>3. CASE End(r, "CANCELLED")
  <2>1. "CANCELLED" \in Results
    BY DEF Results
  <2> QED BY <1>1, <1>3, <2>1, SessionEnds
<1>4. CASE session' = [session EXCEPT ![r].draft = e,
                         ![r].pc = IF session[r].asked THEN "review" ELSE "facts"]
  <2>1. PICK l \in {"review", "facts"} : session' = [session EXCEPT ![r].draft = e, ![r].pc = l]
    <3>1. CASE session[r].asked
      BY <1>4, <3>1
    <3>2. CASE ~session[r].asked
      BY <1>4, <3>2
    <3> QED BY <3>1, <3>2
  <2> DEFINE t == [session[r] EXCEPT !.draft = e, !.pc = l]
  <2>2. t \in SessionState /\ t.pc = l /\ t.draft = e /\ t.result = session[r].result
    BY <1>1, <1>2 DEF SessionState, SessionLabels
  <2>3. session' = [session EXCEPT ![r] = t]
    BY <1>2, <2>1
  <2> HIDE DEF t
  <2> QED BY <1>1, <2>2, <2>3, SessionGoesOn DEF Drafted, Agreed, Telling
<1> QED BY <1>3, <1>4 DEF PickLast

LEMMA AnsweringKeeps ==
  ASSUME SessInv, NEW r \in Run, AnswerFacts(r) \/ Review(r) PROVE SessInv'
<1>1. /\ UNCHANGED <<runnerVars, published>> /\ Settled
      /\ session[r].pc \in {"facts", "review"}
      /\ draft' \in {draft, session[r].draft}
  BY RunsSettled DEF AnswerFacts, Review, In, runnerVars
<1>2. /\ session[r] \in SessionState /\ session \in [Run -> SessionState] /\ draft' \in Draft \cup {None}
      /\ session[r].draft \in Evidence
  BY <1>1, SessionTypes DEF SessionRow, Drafted
<1>3. ASSUME NEW result \in {"UNSUPPORTED", "CANCELLED"}, End(r, result) PROVE SessInv'
  <2>1. result \in Results
    BY DEF Results
  <2> QED BY <1>1, <1>2, <1>3, <2>1, SessionEnds
<1>4. CASE session' = [session EXCEPT ![r].pc = "review", ![r].asked = TRUE]
  <2> DEFINE t == [session[r] EXCEPT !.pc = "review", !.asked = TRUE]
  <2>2. /\ t \in SessionState /\ t.pc = "review" /\ t.draft = session[r].draft
        /\ t.result = session[r].result
    BY <1>2 DEF SessionState, SessionLabels
  <2>3. session' = [session EXCEPT ![r] = t]
    BY <1>2, <1>4
  <2> HIDE DEF t
  <2> QED BY <1>1, <1>2, <2>2, <2>3, SessionGoesOn DEF Drafted, Agreed, Telling
<1>5. CASE session' = [session EXCEPT ![r].pc = "publish", ![r].shown = session[r].draft]
  <2> DEFINE t == [session[r] EXCEPT !.pc = "publish", !.shown = session[r].draft]
  <2>2. /\ t \in SessionState /\ t.pc = "publish" /\ t.draft = session[r].draft
        /\ t.shown = session[r].draft /\ t.result = session[r].result
    BY <1>2 DEF SessionState, SessionLabels
  <2>3. session' = [session EXCEPT ![r] = t]
    BY <1>2, <1>5
  <2> HIDE DEF t
  <2> QED BY <1>1, <1>2, <2>2, <2>3, SessionGoesOn DEF Drafted, Agreed, Telling
<1> QED BY <1>3, <1>4, <1>5 DEF AnswerFacts, Review

LEMMA PublishingKeeps ==
  ASSUME SessInv, now \in Time, NEW r \in Run, CheckPublication(r) \/ StageEvidence(r)
  PROVE  SessInv'
<1>1. /\ UNCHANGED <<runnerVars, published>> /\ Settled
      /\ session[r].pc \in {"publish", "stage"}
      /\ draft' \in {draft, session[r].draft}
  BY RunsSettled DEF CheckPublication, StageEvidence, In, runnerVars
<1>2. /\ session[r].draft \in Evidence /\ draft' \in Draft \cup {None}
  BY <1>1, SessionTypes DEF SessionRow, Drafted, Agreed
<1>3. ASSUME NEW result \in {"DEADLINE_REACHED", "TRUST_CHAIN_INVALID"}, End(r, result)
      PROVE  SessInv'
  <2>1. result \in Results
    BY DEF Results
  <2> QED BY <1>1, <1>2, <1>3, <2>1, SessionEnds
<1>4. ASSUME NEW l \in {"stage", "rename", "published"}, ReadClock(r, l), BeforeDeadline,
             l = "published" => published[session[r].draft] # None
      PROVE  SessInv'
  <2> DEFINE t == [session[r] EXCEPT !.pc = l, !.read = now]
  <2>1. /\ session[r] \in SessionState /\ session \in [Run -> SessionState]
        /\ session[r].shown = session[r].draft
    BY <1>1, SessionTypes DEF SessionRow, Agreed
  <2>2. /\ t \in SessionState /\ t.pc = l /\ t.draft = session[r].draft
        /\ t.shown = session[r].shown /\ t.result = session[r].result /\ t.read = now
    BY <2>1 DEF SessionState, SessionLabels
  <2>3. session' = [session EXCEPT ![r] = t]
    BY <1>4, <2>1 DEF ReadClock
  <2>4. now < Deadline
    BY <1>4 DEF BeforeDeadline
  <2> HIDE DEF t
  <2> QED BY <1>1, <1>2, <1>4, <2>1, <2>2, <2>3, <2>4, SessionGoesOn DEF Drafted, Agreed, Telling
<1>5. CASE CheckPublication(r)
  <2>1. CASE ~BeforeDeadline
    BY <1>3, <1>5, <2>1 DEF CheckPublication
  <2>2. CASE BeforeDeadline /\ ~PreparationValid
    BY <1>3, <1>5, <2>2 DEF CheckPublication
  <2>3. CASE BeforeDeadline /\ PreparationValid
    BY <1>4, <1>5, <2>3 DEF CheckPublication
  <2> QED BY <2>1, <2>2, <2>3
<1>6. CASE StageEvidence(r)
  BY <1>3, <1>4, <1>6 DEF StageEvidence
<1> QED BY <1>5, <1>6

LEMMA RenameEvidenceKeeps ==
  ASSUME SessInv, NEW r \in Run, RenameEvidence(r) PROVE SessInv'
<1> DEFINE e == session[r].draft
           own == [by |-> r, at |-> session[r].read]
           t == [session[r] EXCEPT !.pc = "published"]
<1>1. /\ UNCHANGED <<runnerVars, draft>> /\ Settled /\ session[r].pc = "rename"
      /\ Proceed(r, "published")
      /\ published' = [published EXCEPT ![e] = IF @ = None THEN own ELSE @]
  BY RunsSettled DEF RenameEvidence, In, runnerVars
<1>2. /\ session[r] \in SessionState /\ session \in [Run -> SessionState]
      /\ e \in Evidence /\ session[r].shown = e
      /\ session[r].result \notin {"VERIFIED_EVIDENCE_PUBLISHED", "VERIFIED_DECISION_AVAILABLE"}
      /\ session[r].read \in Time /\ session[r].read < Deadline
  BY <1>1, SessionTypes DEF SessionRow, Drafted, Agreed, SessionState
<1>3. own \in Publication /\ own # None /\ own.by = r /\ own.at < Deadline
  <2>1. own \in Publication
    BY <1>2 DEF Publication
  <2> QED BY <1>2, <2>1, AuthoringAssumption
<1> HIDE DEF own, e
<1>4. /\ published' \in [Evidence -> Publication \cup {None}]
      /\ \A x \in Evidence : published[x] # None \/ x # e => published'[x] = published[x]
      /\ published[e] = None => published'[e] = own
  BY <1>1, <1>2, <1>3 DEF SessInv, AuthoringTypeOK
<1>5. /\ t \in SessionState /\ t.pc = "published" /\ t.draft = e /\ t.shown = e
      /\ t.result = session[r].result
  BY <1>2 DEF SessionState, SessionLabels, e
<1>6. session' = [session EXCEPT ![r] = t]
  BY <1>1 DEF Proceed
<1> HIDE DEF t
<1>7. /\ session' \in [Run -> SessionState] /\ session'[r] = t
      /\ \A q \in Run \ {r} : session'[q] = session[q]
  BY <1>2, <1>5, <1>6
<1>8. AuthoringTypeOK'
  BY <1>1, <1>4, <1>7 DEF SessInv, AuthoringTypeOK
<1>9. SessionRow(r)'
  BY <1>2, <1>3, <1>4, <1>5, <1>7 DEF SessionRow
<1>10. \A x \in Evidence : published'[x] = published[x] \/ PublishedRow(x)'
  BY <1>3, <1>4, <1>5, <1>7 DEF PublishedRow
<1> QED BY <1>1, <1>4, <1>7, <1>8, <1>9, <1>10, SessAssembled DEF Telling

-----------------------------------------------------------------------------
(* The steps put together *)

ReceiptsStay == \A e \in Evidence : receipt[e] # None => receipt'[e] = receipt[e]

(* A step of a run is about that run, and replaces no receipt. *)
LEMMA RunTouched ==
  ASSUME RunsInv, NEW r \in Run, ResumeStep(r) \/ StageFails(r) \/ KillRun(r)
  PROVE  /\ run[r].pc # "done" /\ \A q \in Run \ {r} : run'[q] = run[q]
         /\ ReceiptsStay /\ UNCHANGED <<now, sources, prep, preparer>>
<1> USE DEF At
<1>0. run \in [Run -> RunState] /\ run[r].ev \in Evidence \cup {None}
  BY DEF RunsInv, Shapes, RunState
<1>1. CASE FindState(r)
  BY <1>0, <1>1 DEF FindState, Fail, RunnerIdle, chain, ReceiptsStay
<1>2. CASE CreateState(r)
  BY <1>0, <1>2 DEF CreateState, Goto, RunnerIdle, ReceiptsStay
<1>3. CASE WriteReceipt(r)
  <2>1. receipt' = receipt \/ (/\ receipt' = [receipt EXCEPT ![run[r].ev] = run[r].state]
                               /\ ~Conflicts(receipt[run[r].ev], run[r].state))
    BY <1>3 DEF WriteReceipt
  <2>2. ReceiptsStay
    BY <2>1 DEF ReceiptsStay, Conflicts, RunsInv, Shapes
  <2> QED BY <1>0, <1>3, <2>2 DEF WriteReceipt, Goto, Fail, RunnerIdle
<1>4. CASE FindDecision(r)
  BY <1>0, <1>4 DEF FindDecision, Goto, Fail, RunnerIdle, chain, ReceiptsStay
<1>5. CASE CreateDecision(r)
  BY <1>0, <1>5 DEF CreateDecision, Goto, RunnerIdle, ReceiptsStay
<1>6. CASE FindReliability(r)
  BY <1>0, <1>6 DEF FindReliability, Goto, Fail, RunnerIdle, chain, ReceiptsStay
<1>7. CASE CreateReliability(r)
  BY <1>0, <1>7 DEF CreateReliability, Goto, Fail, RunnerIdle, ReceiptsStay
<1>15. CASE StageRefuses(r)
  BY <1>0, <1>15 DEF StageRefuses, Fail, RunnerIdle, chain, ReceiptsStay
<1>8. CASE Finalize(r)
  BY <1>0, <1>8 DEF Finalize, Fail, RunnerIdle, chain, ReceiptsStay
<1>9. CASE WriteGameweek(r)
  BY <1>0, <1>9 DEF WriteGameweek, Goto, Fail, RunnerIdle, ReceiptsStay
<1>10. CASE WriteFinal(r)
  BY <1>0, <1>10 DEF WriteFinal, Goto, Fail, RunnerIdle, ReceiptsStay
<1>11. CASE Unlink(r)
  BY <1>0, <1>11 DEF Unlink, Goto, RunnerIdle, ReceiptsStay
<1>12. CASE VerifyCompleted(r)
  BY <1>0, <1>12 DEF VerifyCompleted, Goto, Fail, RunnerIdle, chain, ReceiptsStay
<1>13. CASE StageFails(r)
  BY <1>0, <1>13 DEF StageFails, Fail, ReceiptsStay
<1>14. CASE KillRun(r)
  BY <1>0, <1>14 DEF KillRun, Live, chain, ReceiptsStay
<1> QED BY <1>1, <1>2, <1>3, <1>4, <1>5, <1>6, <1>7, <1>8, <1>9, <1>10, <1>11, <1>12, <1>13,
           <1>14, <1>15 DEF ResumeStep

LEMMA RunStepKeeps ==
  ASSUME RunsInv, NEW r \in Run, ResumeStep(r) \/ StageFails(r) \/ KillRun(r)
  PROVE  RunsInv' /\ Progress /\ Settled
<1>1. RunsInv' /\ Progress
  BY FindStateKeeps, CreateStateKeeps, WriteReceiptKeeps, FindDecisionKeeps, CreateDecisionKeeps,
     FindReliabilityKeeps, CreateReliabilityKeeps, StageRefusesKeeps, FinalizeKeeps, WriteGameweekKeeps,
     WriteFinalKeeps, UnlinkKeeps, VerifyCompletedKeeps, StageFailsKeeps, KillRunKeeps
     DEF ResumeStep
<1>2. Settled
  BY <1>1, RunTouched DEF Settled, Progress, Onward
<1> QED BY <1>1, <1>2

LEMMA PrepStays ==
  ASSUME PrepInv, UNCHANGED <<sources, prep, preparer>>
  PROVE  PrepInv'
BY DEF PrepInv, PrepareTypes, PreparerRow, DirectoryValid, EvidenceCutoffHolds, sources

LEMMA JournalStays ==
  ASSUME RunsInv, Progress, JournalInv, now' \in Time, UNCHANGED journalVars
  PROVE  JournalInv'
<1>1. ASSUME NEW e \in entries PROVE EntryRow(e)'
  <2>1. EntryRow(e) /\ e \in Entry
    BY DEF JournalInv, JournalTypeOK
  <2>2. e.chain # None /\ e.decision \in Run /\ e.at \in Time
    BY <2>1, AbsentAssumption DEF Entry
  <2>3. final'[e.decision] = e.chain
    BY <2>1, <2>2 DEF Progress, EntryRow
  <2>4. e.at <= now'
    BY <2>1, <2>2, TimeAssumption DEF Progress, EntryRow, RunsInv, Shapes, Time
  <2> QED BY <2>1, <2>3, <2>4 DEF EntryRow
<1>2. ASSUME NEW o \in outcomes PROVE OutcomeRow(o)'
  BY DEF JournalInv, OutcomeRow, journalVars
<1> QED BY <1>1, <1>2 DEF JournalInv, JournalTypeOK, journalVars

LEMMA RunnerNextKeeps ==
  ASSUME GameweekInv, RunnerNext, UNCHANGED <<authoringVars, journalVars>>
  PROVE  /\ GameweekInv' /\ Progress /\ ReceiptsStay
         /\ prep # None => prep' = prep
<1>0. /\ RunsInv /\ PrepInv /\ SessInv /\ JournalInv
      /\ now \in Time /\ now <= now /\ faults \in 0 .. MaxFaults
  BY TimeAssumption DEF GameweekInv, RunsInv, Shapes, Time
<1>1. ASSUME RunsInv', Progress, PrepInv', Settled PROVE GameweekInv'
  BY <1>0, <1>1, SessionsStay, JournalStays DEF GameweekInv, RunsInv, Shapes
<1>2. ASSUME NEW p \in Preparer, PrepareStep(p)
      PROVE  GameweekInv' /\ Progress /\ ReceiptsStay /\ (prep # None => prep' = prep)
  <2>1. /\ PrepInv' /\ (prep # None => prep' = prep)
        /\ UNCHANGED <<now, run, chain, overlapped, faults>>
    BY <1>0, <1>2, PrepareStepKeeps
  <2>2. RunsInv' /\ Progress
    BY <1>0, <2>1, ElsewhereKeeps
  <2> QED BY <1>1, <2>1, <2>2, RunsSettled DEF ReceiptsStay, chain
<1>3. ASSUME (\E p \in Preparer : KillPreparer(p)) \/ (\E i \in Input : ReplaceInput(i))
      PROVE  GameweekInv' /\ Progress /\ ReceiptsStay /\ (prep # None => prep' = prep)
  <2>1. /\ PrepInv' /\ prep' = prep /\ UNCHANGED <<now, run, chain, overlapped>>
        /\ faults < MaxFaults /\ faults' = faults + 1
    BY <1>0, <1>3, PreparationDisturbed
  <2>2. faults' \in 0 .. MaxFaults
    BY <1>0, <2>1, FaultCounted
  <2>3. RunsInv' /\ Progress
    BY <1>0, <2>1, <2>2, ElsewhereKeeps
  <2> QED BY <1>1, <2>1, <2>3, RunsSettled DEF ReceiptsStay, chain
<1>4. ASSUME NEW r \in Run, ResumeStep(r) \/ StageFails(r) \/ KillRun(r)
      PROVE  GameweekInv' /\ Progress /\ ReceiptsStay /\ (prep # None => prep' = prep)
  <2>1. RunsInv' /\ Progress /\ Settled
    BY <1>0, <1>4, RunStepKeeps
  <2>2. ReceiptsStay /\ UNCHANGED <<now, sources, prep, preparer>>
    BY <1>0, <1>4, RunTouched
  <2> QED BY <1>0, <1>1, <2>1, <2>2, PrepStays
<1>5. ASSUME Tick
      PROVE  GameweekInv' /\ Progress /\ ReceiptsStay /\ (prep # None => prep' = prep)
  <2>1. RunsInv' /\ Progress
    BY <1>0, <1>5, TickKeeps
  <2>2. UNCHANGED <<sources, prep, preparer, run, chain>>
    BY <1>5 DEF Tick
  <2> QED BY <1>0, <1>1, <2>1, <2>2, PrepStays, RunsSettled DEF ReceiptsStay, chain
<1> QED BY <1>2, <1>3, <1>4, <1>5 DEF RunnerNext

LEMMA StartedSettled ==
  ASSUME RunsInv, NEW r \in Run, NEW e \in Evidence, StartResume(r, e)
  PROVE  /\ RunsInv' /\ Progress /\ Settled /\ ReceiptsStay
         /\ run'[r].ev = e /\ run'[r].pc # "idle"
         /\ UNCHANGED <<now, sources, prep, preparer>>
<1>1. /\ RunsInv' /\ Progress /\ run'[r].ev = e /\ run'[r].pc \in {"state", "failed"}
      /\ \A q \in Run \ {r} : run'[q] = run[q]
  BY StartResumeKeeps
<1>2. /\ run[r].pc = "idle" /\ UNCHANGED <<now, sources, prep, preparer>> /\ UNCHANGED chain
  BY DEF StartResume, At
<1> QED BY <1>1, <1>2 DEF Settled, ReceiptsStay, chain

LEMMA RunDecisionKeeps ==
  ASSUME RunsInv, SessInv, NEW r \in Run, RunDecision(r)
  PROVE  /\ RunsInv' /\ SessInv' /\ Progress /\ ReceiptsStay
         /\ UNCHANGED <<now, sources, prep, preparer>>
<1>1. session[r].pc = "published" /\ draft' = draft /\ published' = published
  BY DEF RunDecision, In
<1>2. /\ session[r].draft \in Evidence /\ published[session[r].draft] # None
      /\ draft \in Draft \cup {None}
  BY <1>1, SessionTypes DEF SessionRow, Drafted, Agreed
<1>3. CASE StartResume(r, session[r].draft) /\ Proceed(r, "running")
  <2>1. /\ RunsInv' /\ Progress /\ Settled /\ ReceiptsStay
        /\ run'[r].ev = session[r].draft /\ run'[r].pc # "idle"
        /\ UNCHANGED <<now, sources, prep, preparer>>
    BY <1>2, <1>3, StartedSettled
  <2>2. "running" \in SessionLabels \ {"ended", "rename"}
    BY DEF SessionLabels
  <2>3. SessInv'
    BY <1>1, <1>2, <1>3, <2>1, <2>2, Proceeds DEF Agreed, Telling
  <2> QED BY <2>1, <2>3
<1>4. CASE End(r, "VERIFIED_EVIDENCE_PUBLISHED") /\ UNCHANGED runnerVars
  <2>1. "VERIFIED_EVIDENCE_PUBLISHED" \in Results
    BY DEF Results
  <2>2. SessInv'
    BY <1>1, <1>2, <1>4, <2>1, SessionEnds, RunsSettled DEF runnerVars
  <2>3. RunsInv' /\ Progress
    <3>1. now' \in Time /\ now <= now' /\ faults' \in 0 .. MaxFaults
      BY <1>4, TimeAssumption DEF RunsInv, Shapes, Time, runnerVars
    <3> QED BY <1>4, <3>1, ElsewhereKeeps DEF runnerVars
  <2> QED BY <1>4, <2>2, <2>3 DEF runnerVars, ReceiptsStay, chain
<1> QED BY <1>3, <1>4 DEF RunDecision

LEMMA ShowDecisionKeeps ==
  ASSUME SessInv, NEW r \in Run, ShowDecision(r) PROVE SessInv'
<1>1. /\ session[r].pc = "running" /\ UNCHANGED <<runnerVars, draft, published>> /\ Settled
  BY RunsSettled DEF ShowDecision, In, runnerVars
<1>2. draft' \in Draft \cup {None}
  BY <1>1, SessionTypes
<1>3. ASSUME NEW result \in {"TRUST_CHAIN_INVALID", None}, End(r, result) PROVE SessInv'
  <2>1. /\ result \in Results \cup {None}
        /\ result \notin {"VERIFIED_EVIDENCE_PUBLISHED", "VERIFIED_DECISION_AVAILABLE"}
    BY AuthoringAssumption DEF Results
  <2> QED BY <1>1, <1>2, <1>3, <2>1, SessionEnds
<1>4. CASE run[r].pc = "done" /\ End(r, "VERIFIED_DECISION_AVAILABLE")
  <2>1. "VERIFIED_DECISION_AVAILABLE" \in Results
    BY DEF Results
  <2> QED BY <1>1, <1>2, <1>4, <2>1, SessionEnds
<1> QED BY <1>3, <1>4 DEF ShowDecision, At

LEMMA InterruptKeeps ==
  ASSUME RunsInv, SessInv, NEW r \in Run, Interrupt(r)
  PROVE  /\ RunsInv' /\ SessInv' /\ Progress /\ ReceiptsStay
         /\ UNCHANGED <<now, sources, prep, preparer>>
<1>1. /\ session[r].pc \notin {"idle", "ended"} /\ draft' = session[r].draft
      /\ UNCHANGED <<now, sources, prep, preparer, chain, overlapped, published>>
      /\ faults < MaxFaults /\ faults' = faults + 1
  BY DEF Interrupt
<1>2. faults' \in 0 .. MaxFaults /\ now' \in Time /\ now <= now'
  BY <1>1, FaultCounted, TimeAssumption DEF RunsInv, Shapes, Time
<1>3. RunsInv' /\ Progress /\ Settled
  <2>1. CASE Live(r)
    <3>1. run' = [run EXCEPT ![r] = Ended(r, "dead")]
      BY <2>1 DEF Interrupt
    <3>2. RunsInv' /\ Progress
      BY <1>1, <1>2, <2>1, <3>1, Killed
    <3>3. run[r].pc # "done" /\ \A q \in Run \ {r} : run'[q] = run[q]
      BY <2>1, <3>1 DEF Live, RunsInv, Shapes
    <3> QED BY <3>2, <3>3 DEF Settled, Progress, Onward
  <2>2. CASE ~Live(r)
    <3>1. run' = run
      BY <2>2 DEF Interrupt
    <3> QED BY <1>1, <1>2, <3>1, ElsewhereKeeps, RunsSettled
  <2> QED BY <2>1, <2>2
<1>4. SessInv'
  <2>1. draft' \in Draft \cup {None}
    BY <1>1, SessionTypes
  <2>2. CASE session[r].pc \in {"published", "running"}
    <3>1. End(r, "VERIFIED_EVIDENCE_PUBLISHED") /\ "VERIFIED_EVIDENCE_PUBLISHED" \in Results
      BY <2>2 DEF Interrupt, Results
    <3> QED BY <1>1, <1>3, <2>1, <2>2, <3>1, SessionEnds
  <2>3. CASE session[r].pc \notin {"published", "running"}
    <3>1. End(r, "CANCELLED") /\ "CANCELLED" \in Results
      BY <2>3 DEF Interrupt, Results
    <3> QED BY <1>1, <1>3, <2>1, <3>1, SessionEnds
  <2> QED BY <2>2, <2>3
<1> QED BY <1>1, <1>3, <1>4 DEF ReceiptsStay, chain

LEMMA StorageFailsKeeps ==
  ASSUME RunsInv, SessInv, NEW r \in Run, StorageFails(r)
  PROVE  /\ RunsInv' /\ SessInv' /\ Progress /\ ReceiptsStay
         /\ UNCHANGED <<now, sources, prep, preparer>>
<1>1. /\ session[r].pc # "ended" /\ End(r, "STORAGE_FAILURE") /\ "STORAGE_FAILURE" \in Results
      /\ UNCHANGED <<now, sources, prep, preparer, run, chain, overlapped, draft, published>>
      /\ faults < MaxFaults /\ faults' = faults + 1
  BY DEF StorageFails, Results
<1>2. faults' \in 0 .. MaxFaults /\ now' \in Time /\ now <= now'
  BY <1>1, FaultCounted, TimeAssumption DEF RunsInv, Shapes, Time
<1>3. RunsInv' /\ Progress /\ Settled
  BY <1>1, <1>2, ElsewhereKeeps, RunsSettled
<1>4. SessInv'
  <2>1. draft' \in Draft \cup {None}
    BY <1>1, SessionTypes
  <2> QED BY <1>1, <1>3, <2>1, SessionEnds
<1> QED BY <1>1, <1>3, <1>4 DEF ReceiptsStay, chain

LEMMA SessionStepKeeps ==
  ASSUME GameweekInv, NEW r \in Run, SessionStep(r), UNCHANGED journalVars
  PROVE  GameweekInv' /\ Progress /\ ReceiptsStay /\ prep' = prep
<1>0. /\ RunsInv /\ PrepInv /\ SessInv /\ JournalInv
      /\ now \in Time /\ now <= now /\ faults \in 0 .. MaxFaults
  BY TimeAssumption DEF GameweekInv, RunsInv, Shapes, Time
<1>1. ASSUME RunsInv', SessInv', Progress, ReceiptsStay, UNCHANGED <<now, sources, prep, preparer>>
      PROVE  GameweekInv' /\ Progress /\ ReceiptsStay /\ prep' = prep
  BY <1>0, <1>1, PrepStays, JournalStays DEF GameweekInv
<1>2. ASSUME SessInv', UNCHANGED runnerVars
      PROVE  GameweekInv' /\ Progress /\ ReceiptsStay /\ prep' = prep
  <2>1. RunsInv' /\ Progress
    BY <1>0, <1>2, ElsewhereKeeps DEF runnerVars
  <2> QED BY <1>1, <1>2, <2>1 DEF runnerVars, ReceiptsStay, chain
<1>3. CASE StartSession(r)
  BY <1>0, <1>2, <1>3, StartSessionKeeps DEF StartSession
<1>4. CASE UseSavedSquad(r) \/ SelectSquad(r) \/ Pick(r)
  BY <1>0, <1>2, <1>4, SelectingKeeps DEF UseSavedSquad, SelectSquad, Pick
<1>5. CASE \E e \in Supported : PickLast(r, e)
  BY <1>0, <1>2, <1>5, PickLastKeeps DEF PickLast
<1>6. CASE AnswerFacts(r) \/ Review(r)
  BY <1>0, <1>2, <1>6, AnsweringKeeps DEF AnswerFacts, Review
<1>7. CASE CheckPublication(r) \/ StageEvidence(r)
  BY <1>0, <1>2, <1>7, PublishingKeeps DEF CheckPublication, StageEvidence
<1>8. CASE RenameEvidence(r)
  BY <1>0, <1>2, <1>8, RenameEvidenceKeeps DEF RenameEvidence
<1>9. CASE RunDecision(r)
  BY <1>0, <1>1, <1>9, RunDecisionKeeps
<1>10. CASE ShowDecision(r)
  BY <1>0, <1>2, <1>10, ShowDecisionKeeps DEF ShowDecision
<1>11. CASE Interrupt(r)
  BY <1>0, <1>1, <1>11, InterruptKeeps
<1>12. CASE StorageFails(r)
  BY <1>0, <1>1, <1>12, StorageFailsKeeps
<1>13. CASE \E e \in Evidence : ResumeByHand(r, e)
  <2>1. PICK e \in Evidence : ResumeByHand(r, e)
    BY <1>13
  <2>2. StartResume(r, e) /\ UNCHANGED authoringVars
    BY <2>1 DEF ResumeByHand
  <2>3. /\ RunsInv' /\ Progress /\ Settled /\ ReceiptsStay
        /\ UNCHANGED <<now, sources, prep, preparer>>
    BY <1>0, <2>2, StartedSettled
  <2>4. SessInv'
    BY <1>0, <2>2, <2>3, SessionsStay
  <2> QED BY <1>1, <2>3, <2>4
<1> QED BY <1>3, <1>4, <1>5, <1>6, <1>7, <1>8, <1>9, <1>10, <1>11, <1>12, <1>13 DEF SessionStep

LEMMA JournalStepKeeps ==
  ASSUME GameweekInv, JournalStep
  PROVE  GameweekInv' /\ Progress /\ ReceiptsStay /\ prep' = prep
<1>0. /\ RunsInv /\ PrepInv /\ SessInv /\ JournalInv
      /\ now \in Time /\ now <= now /\ faults \in 0 .. MaxFaults
  BY TimeAssumption DEF GameweekInv, RunsInv, Shapes, Time
<1>1. UNCHANGED <<runnerVars, authoringVars>>
  BY DEF JournalStep, RecordEntry, RecordOutcome
<1>2. /\ RunsInv' /\ Progress /\ Settled /\ SessInv' /\ PrepInv' /\ ReceiptsStay /\ prep' = prep
  <2>1. RunsInv' /\ Progress
    BY <1>0, <1>1, ElsewhereKeeps DEF runnerVars
  <2> QED BY <1>0, <1>1, <2>1, RunsSettled, SessionsStay, PrepStays
          DEF runnerVars, ReceiptsStay, chain
<1>3. JournalInv'
  <2>1. ASSUME NEW s \in Run, NEW class \in Classification, RecordEntry(s, class)
        PROVE  JournalInv'
    <3> DEFINE e == NewEntry(s, class)
    <3>1. /\ final[s] # None /\ entries' = entries \cup {e} /\ outcomes' = outcomes
          /\ class = "PROSPECTIVE" => BeforeDeadline
      BY <2>1 DEF RecordEntry, Completed
    <3>2. final[s] \in Final /\ final[s].at <= now
      BY <1>0, <3>1 DEF RunsInv, Shapes, FinalRow
    <3>3. /\ e \in Entry /\ e.decision = s /\ e.chain = final[s] /\ e.at = now
          /\ e.class = class
      BY <1>0, <3>2 DEF NewEntry, Entry
    <3>4. EntryRow(e)
      BY <1>0, <3>1, <3>2, <3>3 DEF EntryRow, BeforeDeadline
    <3> HIDE DEF e
    <3>5. \A x \in entries' : EntryRow(x)'
      BY <1>0, <1>1, <3>1, <3>4 DEF JournalInv, EntryRow, runnerVars, chain
    <3>6. \A o \in outcomes' : OutcomeRow(o)'
      BY <1>0, <3>1 DEF JournalInv, OutcomeRow
    <3> QED BY <1>0, <3>1, <3>3, <3>5, <3>6 DEF JournalInv, JournalTypeOK
  <2>2. ASSUME NEW e \in entries, RecordOutcome(e) PROVE JournalInv'
    <3> DEFINE o == [entry |-> e, at |-> now]
    <3>1. now > Deadline /\ outcomes' = outcomes \cup {o} /\ entries' = entries
      BY <2>2 DEF RecordOutcome
    <3>2. EntryRow(e) /\ e \in Entry
      BY <1>0 DEF JournalInv, JournalTypeOK
    <3>3. o \in Outcome /\ o.entry = e /\ o.at = now
      BY <1>0, <3>2 DEF Outcome
    <3>4. OutcomeRow(o)
      BY <3>1, <3>2, <3>3 DEF OutcomeRow, EntryRow
    <3> HIDE DEF o
    <3>5. \A x \in entries' : EntryRow(x)'
      BY <1>0, <1>1, <3>1 DEF JournalInv, EntryRow, runnerVars, chain
    <3>6. \A x \in outcomes' : OutcomeRow(x)'
      BY <1>0, <3>1, <3>4 DEF JournalInv, OutcomeRow
    <3> QED BY <1>0, <3>1, <3>3, <3>5, <3>6 DEF JournalInv, JournalTypeOK
  <2> QED BY <2>1, <2>2 DEF JournalStep
<1> QED BY <1>2, <1>3 DEF GameweekInv

(* One step of anybody. *)
LEMMA NextKeeps ==
  ASSUME GameweekInv, [Next]_vars
  PROVE  /\ GameweekInv' /\ Progress /\ ReceiptsStay
         /\ prep # None => prep' = prep
<1>1. CASE RunnerNext /\ UNCHANGED <<authoringVars, journalVars>>
  BY <1>1, RunnerNextKeeps
<1>2. CASE \E r \in Run : SessionStep(r) /\ UNCHANGED journalVars
  BY <1>2, SessionStepKeeps
<1>3. CASE JournalStep
  BY <1>3, JournalStepKeeps
<1>4. CASE UNCHANGED vars
  <2>1. UNCHANGED <<runnerVars, authoringVars, journalVars>>
    BY <1>4 DEF vars
  <2>2. /\ RunsInv /\ PrepInv /\ SessInv /\ JournalInv
        /\ now \in Time /\ now <= now /\ faults \in 0 .. MaxFaults
    BY TimeAssumption DEF GameweekInv, RunsInv, Shapes, Time
  <2>3. RunsInv' /\ Progress
    BY <2>1, <2>2, ElsewhereKeeps DEF runnerVars
  <2>4. SessInv' /\ PrepInv' /\ JournalInv'
    BY <2>1, <2>2, <2>3, RunsSettled, SessionsStay, PrepStays, JournalStays DEF runnerVars
  <2> QED BY <2>1, <2>3, <2>4 DEF GameweekInv, ReceiptsStay, runnerVars, chain
<1> QED BY <1>1, <1>2, <1>3, <1>4 DEF Next

LEMMA GameweekStarts ==
  ASSUME Init PROVE GameweekInv
<1> USE DEF Init, RunnerInit
<1>1. /\ run = [r \in Run |-> IdleRun]
      /\ statefile = [r \in Run |-> None] /\ receipt = [e \in Evidence |-> None]
      /\ decision = [r \in Run |-> None] /\ reliability = [r \in Run |-> None]
      /\ gameweek = [r \in Run |-> None] /\ final = [r \in Run |-> None]
      /\ doubled = {} /\ overlapped = {} /\ faults = 0 /\ now = 0
  OBVIOUS
<1>2. IdleRun \in RunState /\ IdleRun.pc = "idle" /\ IdleRun.ev = None
  BY TimeAssumption DEF IdleRun, RunState, RunLabels, Time
<1>3. Shapes
  BY <1>1, <1>2, TimeAssumption DEF Shapes, Time
<1>4. OverlapsSeen
  BY <1>1, <1>2 DEF OverlapsSeen, Live
<1>5. ASSUME NEW r \in Run
      PROVE  /\ RunRow(r) /\ StateRow(r) /\ DecisionRow(r) /\ ReliabilityRow(r)
             /\ GameweekRow(r) /\ FinalRow(r)
  BY <1>1, <1>2 DEF RunRow, StateRow, DecisionRow, ReliabilityRow, GameweekRow, FinalRow, Timed,
                    GameweekWritten, HasState, DecisionKnown, Loaded, Binding, Completing
<1>6. PrepInv
  <2>1. preparer \in [Preparer -> PreparerState] /\ \A p \in Preparer : preparer[p].pc = "idle"
    BY DEF PreparerState, PreparerLabels, Nothing, Version
  <2>2. \A p \in Preparer : PreparerRow(p)
    BY <2>1 DEF PreparerRow
  <2>3. CASE observed = None /\ predicting = "none" /\ prep = None /\ inputs = Nothing
    BY <2>1, <2>2, <2>3 DEF PrepInv, PrepareTypes, Nothing, Version
  <2>4. CASE /\ observed = 0 /\ predicting = "both" /\ inputs = Produced
             /\ \E hashed, copied \in {Produced, Replaced} :
                  /\ hashed = Replaced => copied = Replaced
                  /\ prep = [manifest |-> hashed, copies |-> copied]
    <3>1. Produced \in [Input -> Version] /\ Replaced \in [Input -> Version]
      <4>1. 1 \in Version /\ 2 \in Version
        BY DEF Version
      <4>2. Produced \in [Input -> Version]
        BY <4>1 DEF Produced
      <4> QED BY <4>1, <4>2 DEF Replaced
    <3>2. prep \in Preparation
      BY <2>4, <3>1 DEF Preparation
    <3>3. inputs["refresh"] = 1
      BY <2>4 DEF Produced, Input
    <3>4. 0 \in Time
      BY TimeAssumption DEF Time
    <3> QED BY <2>1, <2>2, <2>4, <3>1, <3>2, <3>3, <3>4 DEF PrepInv, PrepareTypes
  <2> QED BY <2>3, <2>4
<1>7. SessInv
  <2>1. NewSession \in SessionState /\ NewSession.pc = "idle" /\ NewSession.result = None
    BY TimeAssumption DEF NewSession, SessionState, SessionLabels, Draft, Time
  <2>2. AuthoringTypeOK
    BY <2>1 DEF AuthoringInit, AuthoringTypeOK
  <2>3. \A r \in Run : SessionRow(r)
    BY <2>1, AuthoringAssumption DEF AuthoringInit, SessionRow, Drafted, Agreed, Results
  <2>4. \A e \in Evidence : PublishedRow(e)
    BY DEF AuthoringInit, PublishedRow
  <2> QED BY <2>2, <2>3, <2>4 DEF SessInv
<1>8. JournalInv
  BY DEF JournalInit, JournalInv, JournalTypeOK
<1> QED BY <1>3, <1>4, <1>5, <1>6, <1>7, <1>8 DEF GameweekInv, RunsInv

-----------------------------------------------------------------------------
(* Theorems *)

(* The inductive invariant, for any number of preparers, calls, evidence and
   records, with every overlap, kill and failure the model has
   (operational_runner.py, manager_evidence_authoring.py, decision_journal.py). *)
THEOREM Invariance == Spec => []GameweekInv
<1>1. Init => GameweekInv
  BY GameweekStarts
<1>2. GameweekInv /\ [Next]_vars => GameweekInv'
  BY NextKeeps
<1> QED BY <1>1, <1>2, PTL DEF Spec

(* Type correctness of the runner, the sessions and the journal. *)
THEOREM TypeCorrect == Spec => []TypeOK
<1>1. GameweekInv => TypeOK
  BY DEF GameweekInv, RunsInv, Shapes, OverlapsSeen, PrepInv, PrepareTypes, SessInv, JournalInv,
         TypeOK, RunnerTypeOK
<1> QED BY <1>1, Invariance, PTL

(* A preparation reported ready consists of exactly the files its call hashed,
   with a refresh that was observed before the deadline (prepare_gameweek). *)
THEOREM PreparationPinned == Spec => []ReadyIsPinned
<1>1. GameweekInv => ReadyIsPinned
  BY DEF GameweekInv, PrepInv, PreparerRow, DirectoryValid, ReadyIsPinned, PreparerAt,
         EvidenceCutoffHolds
<1> QED BY <1>1, Invariance, PTL

(* A final manifest binds one chain of artifacts, verified and finalized before
   the deadline and in this order (resume_gameweek). *)
THEOREM ManifestBinds == Spec => []FinalBound
<1>1. ASSUME GameweekInv, NEW s \in Run, final[s] # None
      PROVE  LET f == final[s] IN
             /\ gameweek[s] = [decision |-> f.decision, reliability |-> f.reliability]
             /\ decision[f.decision] # None
             /\ decision[f.decision].stage = "final" /\ decision[f.decision].state.by = s
             /\ IF reliability[f.reliability] = None
                  THEN run[s].ev \in overlapped
                  ELSE /\ reliability[f.reliability].stage # "torn"
                       /\ reliability[f.reliability].decision = f.decision
             /\ IF statefile[s] = None
                  THEN run[s].ev \in overlapped
                  ELSE statefile[s].ev = run[s].ev /\ statefile[s].at <= f.at
             /\ run[s].ev \in Supported /\ f.at < Deadline
  <2> DEFINE f == final[s]
  <2>1. /\ FinalRow(s) /\ GameweekRow(s) /\ StateRow(s) /\ f \in Final
    BY <1>1 DEF GameweekInv, RunsInv, Shapes
  <2>2. /\ gameweek[s] = [decision |-> f.decision, reliability |-> f.reliability]
        /\ f.at < Deadline /\ StateBefore(s, f.at)
    BY <1>1, <2>1 DEF FinalRow
  <2>3. gameweek[s] # None
    <3>1. gameweek[s] \in Gameweek
      BY <2>1, <2>2 DEF Final, Gameweek
    <3> QED BY <3>1, AbsentAssumption
  <2>4. /\ NamedState(s, run[s].ev) /\ NamedDecision(f.decision, s)
        /\ NamedReliability(f.reliability, f.decision, s, run[s].ev)
    BY <2>1, <2>2, <2>3 DEF GameweekRow
  <2> HIDE DEF f
  <2>5. statefile[s] # None => statefile[s].ev = run[s].ev /\ statefile[s].at <= f.at
    BY <2>1, <2>2 DEF StateRow, StateBefore
  <2> QED BY <2>2, <2>4, <2>5 DEF NamedState, NamedDecision, NamedReliability, f
<1>2. GameweekInv => FinalBound
  BY <1>1 DEF FinalBound
<1> QED BY <1>2, Invariance, PTL

(* What is published under a content is what the owner agreed to, published by a
   session that last read the clock before the deadline, and a session that claims
   evidence or a decision has them (run_guided_manager_decision,
   publish_verified_evidence). *)
THEOREM SessionsHonest == Spec => []SessionHonest
<1>1. ASSUME GameweekInv, NEW e \in Evidence, published[e] # None
      PROVE  session[published[e].by].shown = e /\ published[e].at < Deadline
  BY <1>1 DEF GameweekInv, SessInv, PublishedRow
<1>2. ASSUME GameweekInv, NEW r \in Run
      PROVE  /\ session[r].result \in {"VERIFIED_EVIDENCE_PUBLISHED", "VERIFIED_DECISION_AVAILABLE"} =>
                  published[session[r].shown] # None
             /\ session[r].result = "VERIFIED_DECISION_AVAILABLE" =>
                  /\ run[r].ev = session[r].shown
                  /\ final[run[r].state.by] # None /\ final[run[r].state.by].at < Deadline
  <2>1. SessionRow(r) /\ RunRow(r)
    BY <1>2 DEF GameweekInv, SessInv, RunsInv
  <2>2. ASSUME session[r].result = "VERIFIED_DECISION_AVAILABLE"
        PROVE  final[run[r].state.by] # None /\ final[run[r].state.by].at < Deadline
    <3>1. run[r].pc = "done"
      BY <2>1, <2>2 DEF SessionRow
    <3>2. run[r].state.by \in Run /\ final[run[r].state.by] # None
      BY <2>1, <3>1 DEF RunRow, HasState, Completing, NamedState
    <3> QED BY <1>2, <3>2 DEF GameweekInv, RunsInv, FinalRow
  <2> QED BY <2>1, <2>2 DEF SessionRow
<1>3. GameweekInv => SessionHonest
  BY <1>1, <1>2 DEF SessionHonest
<1> QED BY <1>3, Invariance, PTL

(* A journal entry has exactly the final manifest it names, a prospective one
   is of a time before the deadline, and an outcome belongs to an entry
   (decision_journal.py). *)
THEOREM RecordsAnchored == Spec => []JournalAnchored
<1>1. GameweekInv => JournalAnchored
  BY DEF GameweekInv, JournalInv, EntryRow, OutcomeRow, JournalAnchored
<1> QED BY <1>1, Invariance, PTL

(* Nothing that was published is replaced or taken away again (_write_atomic
   and the renamed directories). *)
THEOREM NothingReplaced == Spec => WriteOnce
<1>1. ASSUME GameweekInv, [Next]_vars, NEW q \in Run
      PROVE  /\ statefile[q] # None /\ statefile[q].stage = "final" => statefile'[q] = statefile[q]
             /\ decision[q] # None /\ decision[q].stage = "final" => decision'[q] = decision[q]
             /\ reliability[q] # None /\ reliability[q].stage = "final" => reliability'[q] = reliability[q]
             /\ gameweek[q] # None => gameweek'[q] = gameweek[q]
             /\ final[q] # None => final'[q] = final[q]
  <2>1. Progress /\ Onward(q)
    BY <1>1, NextKeeps DEF Progress
  <2>2. StateRow(q) /\ DecisionRow(q) /\ ReliabilityRow(q)
    BY <1>1 DEF GameweekInv, RunsInv
  <2>3. statefile[q] # None /\ statefile[q].stage = "final" => statefile'[q] = statefile[q]
    BY <2>1, <2>2 DEF StateRow, Onward, StateOpen
  <2>4. decision[q] # None /\ decision[q].stage = "final" => decision'[q] = decision[q]
    BY <2>1, <2>2 DEF DecisionRow, Onward, DecisionOpen
  <2>5. reliability[q] # None /\ reliability[q].stage = "final" => reliability'[q] = reliability[q]
    BY <2>1, <2>2 DEF ReliabilityRow, Onward, ReliabilityOpen
  <2> QED BY <2>1, <2>3, <2>4, <2>5 DEF Progress
<1>2. ASSUME GameweekInv, [Next]_vars
      PROVE  [/\ prep # None => prep' = prep
              /\ \A q \in Run :
                   /\ statefile[q] # None /\ statefile[q].stage = "final" => statefile'[q] = statefile[q]
                   /\ decision[q] # None /\ decision[q].stage = "final" => decision'[q] = decision[q]
                   /\ reliability[q] # None /\ reliability[q].stage = "final" => reliability'[q] = reliability[q]
                   /\ gameweek[q] # None => gameweek'[q] = gameweek[q]
                   /\ final[q] # None => final'[q] = final[q]
              /\ \A e \in Evidence : receipt[e] # None => receipt'[e] = receipt[e]]_runnerVars
  BY <1>1, <1>2, NextKeeps DEF ReceiptsStay
<1> QED BY <1>2, Invariance, PTL DEF Spec, WriteOnce
=============================================================================
