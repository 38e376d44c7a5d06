-------------------------------- MODULE Runs --------------------------------
(***************************************************************************)
(* A run of a pipeline (kanna-daemon's runs.rs): the daemon visits one     *)
(* stage after the other, an agent's or a command's, each in a terminal of *)
(* its own, and takes the arrow its verdict picks.  Terminals open and     *)
(* agents quit while the loop goes on, and answer by a callback; agents    *)
(* report, ask or just end their turn; users stop, resume or close.        *)
(*                                                                         *)
(* A run's memory and its rows in kanna.db are one record, r.  A handler   *)
(* is an operator from such a record to the next.  The daemon may stop     *)
(* between two handlers, or in one: the visit's row is saved first, the    *)
(* run's row after it.                                                     *)
(***************************************************************************)
EXTENDS Naturals, Sequences, FiniteSets, FiniteSetsExt

CONSTANTS Stages, Start,
          Agents,       \* the stages an agent does; a command does the others
          Verdicts,     \* the agents' stages that give a verdict
          Timed,        \* the agents' stages with a `within`
          Arrows,       \* [from, when, to, max, progress], in the pipeline's order;
                        \* max is None where there is none
          Budget,       \* the sessions the pipeline may use
          Lines,        \* what a command's failure lines may be
          None,
          MaxResumes,   \* bound: resumes
          MaxCloses,    \* bound: terminals the user closes
          MaxRestarts   \* bound: restarts of the daemon

ASSUME RunsAssumption ==
  /\ Start \in Stages /\ Verdicts \subseteq Agents /\ Timed \subseteq Agents
  /\ Agents \subseteq Stages
  /\ None \notin Stages \cup Lines
  /\ \A i \in DOMAIN Arrows :
       /\ Arrows[i].from \in Stages
       /\ Arrows[i].to \in Stages \cup {"done"}
       /\ Arrows[i].when \in {"any", "pass", "fail"}
  /\ {Budget, MaxResumes, MaxCloses, MaxRestarts} \subseteq Nat

VARIABLES r,
          resumes, closes, restarts   \* how many there were

vars == <<r, resumes, closes, restarts>>
user == <<resumes, closes>>

\* The visit in memory.
NoVisit == [stage |-> None, row |-> 0, pane |-> 0, opening |-> FALSE, ending |-> FALSE,
            reported |-> "no", needs |-> FALSE, paused |-> FALSE]

\* run and rows are kanna.db's `runs` and `run_stages`; panes are the terminals
\* the run opened, with a command's exit file; calls are the callbacks awaited.
Init ==
  /\ r = [run |-> [state |-> "running", next |-> Start, sessions |-> 0,
                   taken |-> [i \in DOMAIN Arrows |-> 0],
                   failures |-> [s \in Stages |-> None]],
          rows |-> <<>>, visit |-> NoVisit, panes |-> <<>>, calls |-> {}, soon |-> TRUE]
  /\ resumes = 0
  /\ closes = 0
  /\ restarts = 0

Live(s) == s.run.state \in {"running", "waiting", "paused"}
Visiting(s) == s.visit.stage # None
Alive(s, p) == p # 0 /\ s.panes[p].state = "alive"

-----------------------------------------------------------------------------
(* What handlers do *)

\* close: tasks.rs's `quitting` hears of an agent's exit, not of its terminal's
\* closing, so what waits for an agent that is quitting there is never called.
Close(s, p) ==
  [s EXCEPT !.panes[p].state = "gone",
            !.calls = IF Alive(s, p) /\ s.panes[p].stage \in Agents
                      THEN {c \in @ : c.do = "open" \/ c.pane # p} ELSE @]

\* put_stage of the visit's row, if it has one, with its verdict
EndRow(s, verdict) ==
  IF s.visit.row = 0 THEN s ELSE [s EXCEPT !.rows[s.visit.row].verdict = verdict]

\* Mutant of Halt: the visit stays in memory.
Halt_Visiting(s) == [s EXCEPT !.run.state = "stopped", !.run.next = None]

\* stop's last update
Halt(s) == [s EXCEPT !.visit = NoVisit, !.run.state = "stopped", !.run.next = None]

\* Pipeline::pick, and decide's stalled: the first arrow that holds, or 0.
Pick(s, stage, e) ==
  LET stalled == e.verdict = "fail" /\ e.lines # None /\ s.run.failures[stage] = e.lines
      holds == {i \in DOMAIN Arrows :
                  /\ Arrows[i].from = stage
                  /\ Arrows[i].when \in {"any", e.verdict}
                  /\ ~(stalled /\ Arrows[i].progress)
                  /\ Arrows[i].max = None \/ s.run.taken[i] < Arrows[i].max}
  IN IF holds = {} THEN 0 ELSE Min(holds)

\* conclude, decide and hand_back: the visit ended as e says.
Conclude(s, e) ==
  LET stage == s.visit.stage
      i == Pick(s, stage, e)
      ended == [EndRow(s, e.verdict) EXCEPT
                  !.visit = NoVisit,
                  !.run.failures[stage] = IF e.lines = None THEN @ ELSE e.lines]
  IN IF ~Visiting(s) THEN s
     ELSE IF i = 0 THEN Halt(ended)
     ELSE IF Arrows[i].to = "done"
          THEN [ended EXCEPT !.run.taken[i] = @ + 1, !.run.next = None, !.run.state = "done"]
          ELSE [ended EXCEPT !.run.taken[i] = @ + 1, !.run.next = Arrows[i].to, !.soon = TRUE]

\* park's callback
Parked(s) ==
  IF ~Visiting(s) THEN s
  ELSE [s EXCEPT !.visit.paused = TRUE, !.visit.ending = FALSE, !.visit.needs = FALSE,
                 !.rows[s.visit.row].paused = TRUE]

\* What a pane's end is awaited for: only its closing, the pause, or a verdict.
ToClose == [what |-> "close", verdict |-> "none", lines |-> None]
ToPark == [what |-> "park", verdict |-> "none", lines |-> None]
ToEnd(verdict, lines) == [what |-> "end", verdict |-> verdict, lines |-> lines]

Finish(s, p, e) ==
  LET closed == Close(s, p)
  IN IF e.what = "park" THEN Parked(closed)
     ELSE IF e.what = "end" THEN Conclude(closed, e) ELSE closed

\* Mutant of End: the callback doesn't wait.
End_AtOnce(s, p, e) ==
  LET quits == [s EXCEPT !.calls = @ \cup {[do |-> "quit", pane |-> p, for |-> ToClose]}]
  IN IF e.what = "park" THEN Parked(quits)
     ELSE IF e.what = "end" THEN Conclude(quits, e) ELSE quits

\* end_agent, and a command's core.end: a pane that is over is finished at once.
End(s, p, e) ==
  IF Alive(s, p) THEN [s EXCEPT !.calls = @ \cup {[do |-> "quit", pane |-> p, for |-> e]}]
  ELSE Finish(s, p, e)

\* stop: the row first, then the worker, unless it is quitting or gone.
Stop(s) ==
  LET v == s.visit
      e == EndRow(s, "stopped")
  IN Halt(IF v.pane = 0 \/ v.ending \/ v.paused THEN e
          ELSE IF v.stage \in Agents THEN End(e, v.pane, ToClose) ELSE Close(e, v.pane))

Ending(s) == [s EXCEPT !.visit.ending = TRUE]

\* park: pause's other half, refused to a visit that reported or is ending.
Park(s) ==
  IF s.visit.paused \/ s.visit.reported # "no" \/ s.visit.ending THEN s
  ELSE End(Ending(s), s.visit.pane, ToPark)

Pause(s) == [s EXCEPT !.run.state = "paused"]

\* quit_then, of a visit that reported
Quit(s) == End(Ending(s), s.visit.pane, ToEnd(s.visit.reported, None))

Interrupted(s) ==
  [EndRow(s, "interrupted") EXCEPT !.visit = NoVisit, !.run.next = s.visit.stage, !.soon = TRUE]

TimedOut(s) ==
  IF s.visit.stage \in Verdicts THEN End(Ending(s), s.visit.pane, ToEnd("fail", None))
  ELSE Stop(End(Ending(s), s.visit.pane, ToClose))

OpenCall(for, stage) == [do |-> "open", pane |-> 0, for |-> for, stage |-> stage]

Sessions(stage) == IF stage \in Agents THEN 1 ELSE 0

\* Mutant of OverBudget: one session too many.
OverBudget_ByOne(s, stage) == Sessions(stage) > 0 /\ s.run.sessions > Budget

OverBudget(s, stage) == Sessions(stage) > 0 /\ s.run.sessions + Sessions(stage) > Budget

\* Mutant of Begin: the visit doesn't wait for its terminal.
Begin_AtOnce(s, stage, how) ==
  IF OverBudget(s, stage) \/ how = "spent" THEN [s EXCEPT !.run.state = "waiting"]
  ELSE IF how = "fails" THEN Stop(s)
  ELSE [s EXCEPT !.run.sessions = @ + Sessions(stage),
                 !.visit = [NoVisit EXCEPT !.stage = stage],
                 !.calls = @ \cup {OpenCall("begin", stage)}]

\* begin: over budget (or, `spent`, out of time) the run waits; its files or its
\* terminal may not be made.
Begin(s, stage, how) ==
  IF OverBudget(s, stage) \/ how = "spent" THEN [s EXCEPT !.run.state = "waiting"]
  ELSE IF how = "fails" THEN Stop(s)
  ELSE [s EXCEPT !.run.sessions = @ + Sessions(stage),
                 !.visit = [NoVisit EXCEPT !.stage = stage, !.opening = TRUE],
                 !.calls = @ \cup {OpenCall("begin", stage)}]

-----------------------------------------------------------------------------
(* Restarts *)

\* Runs::open: the visit is the last open row of a live run; one that was about
\* to be parked is parked, and a report is heard, once the time is up again.
\* Terminals go on in the keeper, or are lost with it.
Reloads(s) ==
  LET open == {i \in DOMAIN s.rows : s.rows[i].verdict = "open"}
      i == Max(open)
      row == s.rows[i]
      visit == IF open = {} \/ ~Live(s) THEN NoVisit
               ELSE [stage |-> row.stage, row |-> i, pane |-> row.pane,
                     opening |-> FALSE, ending |-> FALSE,
                     reported |-> row.reported, paused |-> row.paused,
                     needs |-> s.run.state = "paused" /\ ~row.paused /\ row.reported = "no"]
  IN {[s EXCEPT !.visit = visit, !.calls = {}, !.soon = TRUE,
                !.panes = [p \in DOMAIN @ |->
                             IF p \in lost THEN [@[p] EXCEPT !.state = "gone"] ELSE @[p]]]
        : lost \in SUBSET DOMAIN s.panes}

\* conclude saves the run between stages before it hands it back or stops it.
Concluding(s) ==
  IF r.visit.row # 0 /\ s.rows[r.visit.row].verdict \in {"done", "pass", "fail"}
  THEN {[s.run EXCEPT !.state = r.run.state]} ELSE {}

\* A handler leaves s; or the daemon stops in it, once the visit's row is saved
\* and before the run's is (all of it), and starts again.
Does(s) ==
  \/ r' = s /\ UNCHANGED restarts
  \/ /\ restarts < MaxRestarts
     /\ restarts' = restarts + 1
     /\ \E run \in {r.run} \cup Concluding(s), panes \in {r.panes, s.panes} :
          r' \in Reloads([r EXCEPT !.rows = s.rows, !.run = run, !.panes = panes])

-----------------------------------------------------------------------------
(* tick and step *)

\* step leaves a visit alone while a callback of it is awaited or it is paused.
Steps(v) == v.stage # None /\ ~v.opening /\ ~v.ending /\ ~v.paused

\* tick: something happened, or a deadline of the visit has passed.
Tick(s2, late) == Does(s2) /\ (late \/ r.soon) /\ UNCHANGED user

Quiet == [r EXCEPT !.soon = FALSE]

TickBegin ==
  /\ r.run.state = "running" /\ r.run.next # None /\ ~Visiting(r)
  /\ \E how \in {"opens", "spent", "fails"} : Tick(Begin(Quiet, r.run.next, how), FALSE)

\* SETTLE after a report the agent quits, whether or not its turn has ended.
TickReported ==
  /\ Steps(r.visit) /\ r.visit.stage \in Agents /\ r.visit.reported # "no"
  /\ Tick(Quit(Quiet), TRUE)

TickNeeds ==
  /\ Steps(r.visit) /\ r.visit.stage \in Agents /\ r.visit.reported = "no" /\ r.visit.needs
  /\ Tick(Park(Quiet), TRUE)

\* An agent that neither reported nor needs anything; a command without an exit
\* file.
Unheard(v) ==
  IF v.stage \in Agents THEN v.reported = "no" /\ ~v.needs ELSE r.panes[v.pane].file = "none"

\* Mutant of TickGone: looked at before the report.
TickGone_First ==
  /\ Steps(r.visit) /\ r.panes[r.visit.pane].state = "gone"
  /\ Tick(Interrupted(Quiet), FALSE)

TickGone ==
  /\ Steps(r.visit) /\ Unheard(r.visit) /\ r.panes[r.visit.pane].state = "gone"
  /\ Tick(Interrupted(Quiet), FALSE)

TickExited ==
  /\ Steps(r.visit) /\ r.visit.stage \in Agents /\ Unheard(r.visit)
  /\ r.panes[r.visit.pane].state = "exited"
  /\ Tick(Stop(Close(Quiet, r.visit.pane)), FALSE)

TickLate ==
  /\ Steps(r.visit) /\ r.visit.stage \in Timed /\ Unheard(r.visit) /\ Alive(r, r.visit.pane)
  /\ Tick(TimedOut(Quiet), TRUE)

\* command_ended: the file's verdict, or that of the code of a pane without one.
TickCommand ==
  LET p == r.panes[r.visit.pane]
      verdict == IF p.file # "none" THEN p.file ELSE p.code
      written == [Ending(Quiet) EXCEPT !.panes[r.visit.pane].file = verdict]
  IN /\ Steps(r.visit) /\ r.visit.stage \notin Agents
     /\ p.file # "none" \/ p.state = "exited"
     /\ \E lines \in Lines : Tick(End(written, r.visit.pane, ToEnd(verdict, lines)), FALSE)

\* Nothing is due.
TickNothing ==
  /\ r.soon
  /\ \/ ~Visiting(r) /\ (r.run.state # "running" \/ r.run.next = None)
     \/ Visiting(r) /\ ~Steps(r.visit)
     \/ Steps(r.visit) /\ r.visit.stage \in Agents /\ (~Unheard(r.visit) \/ Alive(r, r.visit.pane))
     \/ Steps(r.visit) /\ r.visit.stage \notin Agents /\ Unheard(r.visit) /\ Alive(r, r.visit.pane)
  /\ r' = Quiet
  /\ UNCHANGED <<user, restarts>>

-----------------------------------------------------------------------------
(* Callbacks *)

\* The terminal is there, with its program, before the call is answered.
OpenPane(c) ==
  /\ c.do = "open" /\ c.pane = 0
  /\ r' = [r EXCEPT
             !.panes = Append(@, [stage |-> c.stage, for |-> c.for, state |-> "alive",
                                  file |-> "none", code |-> "fail"]),
             !.calls = (@ \ {c}) \cup {[c EXCEPT !.pane = Len(r.panes) + 1]}]
  /\ UNCHANGED <<user, restarts>>

\* begin's callback: the row is made whether or not the visit is still there.
Began(s, c) ==
  LET made == [s EXCEPT
                 !.rows = Append(@, [stage |-> c.stage, pane |-> c.pane, reported |-> "no",
                                     paused |-> FALSE, verdict |-> "open"]),
                 !.run.next = None, !.soon = TRUE]
  IN IF ~Visiting(s) THEN made
     ELSE [made EXCEPT !.visit.row = Len(made.rows), !.visit.pane = c.pane,
                       !.visit.opening = FALSE]

\* resume_run's callback
Resumed(s, c) ==
  IF ~Visiting(s) THEN [s EXCEPT !.soon = TRUE]
  ELSE [s EXCEPT !.visit.pane = c.pane, !.visit.opening = FALSE, !.soon = TRUE,
                 !.rows[s.visit.row].pane = c.pane, !.rows[s.visit.row].paused = FALSE]

\* Mutant of Opened: nobody looks at the visit again.
Opened_Unseen(c) ==
  LET s == [r EXCEPT !.calls = @ \ {c}]
  IN /\ c.do = "open" /\ c.pane # 0
     /\ Does([IF c.for = "begin" THEN Began(s, c) ELSE Resumed(s, c) EXCEPT !.soon = r.soon])
     /\ UNCHANGED user

Opened(c) ==
  LET s == [r EXCEPT !.calls = @ \ {c}]
  IN /\ c.do = "open" /\ c.pane # 0
     /\ Does(IF c.for = "begin" THEN Began(s, c) ELSE Resumed(s, c))
     /\ UNCHANGED user

OpenFails(c) ==
  /\ c.do = "open" /\ c.pane = 0
  /\ Does(Stop(Ending([r EXCEPT !.calls = @ \ {c}])))
  /\ UNCHANGED user

\* quitted, and core.end's answer: the agent or the command is gone, and what
\* waited for that goes on.
QuitDone(c) ==
  /\ c.do = "quit" /\ ~Alive(r, c.pane)
  /\ Does(Finish([r EXCEPT !.calls = @ \ {c}], c.pane, c.for))
  /\ UNCHANGED user

-----------------------------------------------------------------------------
(* Workers *)

\* reporting: the agent of the visit, which nobody has ended yet.
Reporting(p) ==
  /\ r.visit.pane = p /\ p # 0 /\ r.visit.stage \in Agents /\ Alive(r, p)
  /\ ~r.visit.ending /\ ~r.visit.paused /\ r.visit.reported = "no"

\* done, on the visit's row first
Report(p) ==
  /\ Reporting(p)
  /\ \E verdict \in IF r.visit.stage \in Verdicts THEN {"pass", "fail"} ELSE {"done"} :
       Does([r EXCEPT !.rows[r.visit.row].reported = verdict,
                      !.visit.reported = verdict, !.visit.needs = FALSE,
                      !.run.state = IF @ \in {"waiting", "paused"} THEN "running" ELSE @,
                      !.soon = TRUE])
  /\ UNCHANGED user

Need(p) ==
  /\ Reporting(p)
  /\ r' = [Pause(r) EXCEPT !.visit.needs = TRUE, !.soon = TRUE]
  /\ UNCHANGED <<user, restarts>>

\* status: the agent's turn ended.
TurnEnds(p) ==
  /\ Steps(r.visit) /\ r.visit.pane = p /\ r.visit.stage \in Agents /\ Alive(r, p)
  /\ \/ r.visit.reported # "no" /\ Does(Quit(r))
     \/ r.visit.reported = "no" /\ r.visit.needs /\ Does(Park(r))
     \/ Unheard(r.visit) /\ r.run.state = "running" /\ Does(Park(Pause(r)))
  /\ UNCHANGED user

\* stage_command writes the exit file before its shell is gone.
CommandWrites(p) ==
  /\ r.panes[p].stage \notin Agents /\ Alive(r, p) /\ r.panes[p].file = "none"
  /\ \E verdict \in {"pass", "fail"} : r' = [r EXCEPT !.panes[p].file = verdict]
  /\ UNCHANGED <<user, restarts>>

\* The pane's program exits, with any code; install's on_ended wakes the run.
Exits(p) ==
  /\ Alive(r, p)
  /\ \E code \in IF r.panes[p].stage \in Agents THEN {"fail"} ELSE {"pass", "fail"} :
       r' = [r EXCEPT !.panes[p].state = "exited", !.panes[p].code = code,
                      !.soon = @ \/ r.visit.pane = p]
  /\ UNCHANGED <<user, restarts>>

-----------------------------------------------------------------------------
(* Users, and restarts *)

UserCloses(p) ==
  /\ closes < MaxCloses
  /\ r.panes[p].state # "gone"
  /\ r' = [Close(r, p) EXCEPT !.soon = @ \/ r.visit.pane = p]
  /\ closes' = closes + 1
  /\ UNCHANGED <<resumes, restarts>>

\* resume_run: the row keeps its `paused` until the terminal is open.
ResumeRun ==
  /\ resumes < MaxResumes
  /\ r.run.state = "paused" /\ r.visit.paused
  /\ r' = [r EXCEPT !.run.state = "running", !.visit.paused = FALSE, !.visit.opening = TRUE,
                    !.calls = @ \cup {OpenCall("resume", r.visit.stage)}]
  /\ resumes' = resumes + 1
  /\ UNCHANGED <<closes, restarts>>

\* stop_run, and too_old
StopRun == Live(r) /\ Does(Stop(r)) /\ UNCHANGED user

\* task_closed, close_run
TaskClosed ==
  /\ Live(r)
  /\ Does(Stop(IF r.visit.pane = 0 THEN Ending(r) ELSE Close(Ending(r), r.visit.pane)))
  /\ UNCHANGED user

Restart ==
  /\ restarts < MaxRestarts
  /\ r' \in Reloads(r)
  /\ restarts' = restarts + 1
  /\ UNCHANGED user

Ticks ==
  \/ TickBegin \/ TickReported \/ TickNeeds \/ TickGone
  \/ TickExited \/ TickLate \/ TickCommand \/ TickNothing

Next ==
  \/ Ticks
  \/ \E c \in r.calls : OpenPane(c) \/ Opened(c) \/ OpenFails(c) \/ QuitDone(c)
  \/ \E p \in DOMAIN r.panes :
       \/ Report(p) \/ Need(p) \/ TurnEnds(p)
       \/ CommandWrites(p) \/ Exits(p) \/ UserCloses(p)
  \/ ResumeRun \/ StopRun \/ TaskClosed \/ Restart

Spec == Init /\ [][Next]_vars
\* The loop ticks when it is due; calls are answered; an agent that doesn't quit
\* is hung up after QUIT_WAIT; stage_command's timeout ends a command.
Fairness ==
  /\ WF_vars(Ticks)
  /\ WF_vars(\E c \in r.calls : OpenPane(c) \/ Opened(c) \/ OpenFails(c) \/ QuitDone(c))
  /\ WF_vars(\E p \in DOMAIN r.panes :
               /\ \/ r.panes[p].stage \notin Agents
                  \/ \E c \in r.calls : c.do = "quit" /\ c.pane = p
               /\ Exits(p))

FairSpec == Spec /\ Fairness

-----------------------------------------------------------------------------
(* Properties *)

Verdict == {"no", "done", "pass", "fail"}

\* A run's rows, its visit and its terminals keep their shapes, and a visit's
\* row and terminal exist.
TypeOK ==
  /\ r.run.state \in {"running", "waiting", "paused", "stopped", "done"}
  /\ r.run.next \in Stages \cup {None} /\ r.run.sessions \in Nat
  /\ \A row \in Range(r.rows) :
       /\ row.stage \in Stages /\ row.pane \in DOMAIN r.panes
       /\ row.reported \in Verdict /\ row.paused \in BOOLEAN
       /\ row.verdict \in (Verdict \ {"no"}) \cup {"open", "interrupted", "stopped"}
  /\ \A p \in Range(r.panes) :
       /\ p.stage \in Stages /\ p.state \in {"alive", "exited", "gone"}
       /\ {p.file, p.code} \subseteq {"none", "pass", "fail"}
  /\ r.visit.stage \in Stages \cup {None} /\ r.visit.reported \in Verdict
  /\ {r.visit.opening, r.visit.ending, r.visit.needs, r.visit.paused, r.soon} \subseteq BOOLEAN
  /\ r.visit.row \in 0..Len(r.rows) /\ r.visit.pane \in 0..Len(r.panes)
  /\ Steps(r.visit) => r.visit.row # 0 /\ r.visit.pane # 0

\* A visit that ended keeps its verdict: agents that quit late, a stop, a
\* closed task and a restart change no row that has one.
EndedStays ==
  [][\A i \in DOMAIN r.rows :
       r.rows[i].verdict # "open" => r'.rows[i].verdict = r.rows[i].verdict]_vars

\* What an agent reported is how its visit ends, unless the run is stopped:
\* whatever its terminal does afterwards, and whenever the daemon restarts.
ReportCounts ==
  [][\A i \in DOMAIN r.rows :
       r.rows[i].reported # "no" =>
         r'.rows[i].verdict \in {"open", r.rows[i].reported, "stopped"}]_vars

\* The sessions a run begins, interrupted and restarted ones included, stay
\* within its pipeline's budget.
WithinBudget ==
  LET begun == {p \in DOMAIN r.panes : r.panes[p].stage \in Agents /\ r.panes[p].for = "begin"}
  IN Cardinality(begun) <= r.run.sessions /\ r.run.sessions <= Budget

\* One stage at a time, and a paused run holds no process, as long as the
\* daemon isn't restarted: the worker is gone before the next one opens.
OneWorker ==
  restarts = 0 =>
    Cardinality({p \in DOMAIN r.panes : Alive(r, p)}) <= IF r.visit.paused THEN 0 ELSE 1

\* A running run gets to its end, to a wait or to a pause, unless the daemon is
\* restarted or the user closes its terminal, if every stage of an agent has a
\* `within`, as in Runs.cfg: an agent without one may work for ever (tick,
\* TimedOut, a command's timeout and QUIT_WAIT against lost callbacks).
Settles == r.run.state = "running" ~> r.run.state # "running" \/ restarts + closes > 0

\* A run that runs isn't on a paused visit, which nothing but resume_run, of a
\* paused run, carries on (docs/specs/software-factory.md, of restarts: "A stage
\* mid-visit carries on in the keeper").
CarriesOn == r.run.state = "running" => ~r.visit.paused
=============================================================================
