---------------------------- MODULE OwnedProcess ----------------------------
(***************************************************************************)
(* The supervisor of the benchmark tools (xtask): a worker is started as   *)
(* the leader of a process group of its own, polled until it exits, is     *)
(* cancelled, times out or writes too much, and then the whole group is    *)
(* stopped and its leader reaped.  Two loops use it: `execute' (run.rs,    *)
(* with a deadline, an output limit and an artifact guard) and `run'       *)
(* (owned.rs, which only a cancellation interrupts).                       *)
(*                                                                         *)
(* The group is modelled with its races: members fork, exit, ignore        *)
(* SIGTERM and are reaped by somebody else between any two system calls of *)
(* the supervisor.  On Darwin a signal to the group may be refused with    *)
(* EPERM, and the supervisor then tries to prove from two listings of the  *)
(* group, neither of them atomic, that nobody in it is alive.              *)
(*                                                                         *)
(* A signal is pending before it is effective: `kill' returns while its    *)
(* targets are "dying", and each becomes a zombie in a step of its own,    *)
(* which may never come.  The supervisor waits for the leader's end, not   *)
(* for the workers'.  A dying process runs none of its own code any more;  *)
(* that the kernel may still finish the system call it was in, a write     *)
(* included, is left out.                                                  *)
(***************************************************************************)
EXTENDS Naturals, FiniteSets

CONSTANTS Workers,    \* the processes the leader's group may grow by
          Leader      \* the child the supervisor spawned

Procs == {Leader} \cup Workers

None == "none"

VARIABLES
  proc,       \* state of every process of the group
  stubborn,   \* the processes that ignore SIGTERM
  code,       \* how the leader ended, once it has
  darwin,     \* the platform's kill may answer EPERM
  mode,       \* "execute" (run.rs) or "run" (owned.rs)
  env,        \* what the loop watches: cancelled, expired, and whether the
              \* worker's logs ("over") or its artifacts ("bad") broke a limit
  pc,         \* where the supervisor is
  site,       \* the place a poll returns to
  sig,        \* the signal being sent: is it SIGKILL, and what follows
  status,     \* Process::status: the exit status once reaped
  view,       \* Darwin's listings: to inspect, exited so far, previous view
  stops,      \* calls of Process::stop left before the outcome is decided
  outcome,    \* what the caller is told
  stray       \* a signal was sent to a group whose leader was already reaped

vars == <<proc, stubborn, code, darwin, mode, env, pc, site, sig, status,
          view, stops, outcome, stray>>

group == <<proc, code>>
fixed == <<stubborn, darwin, mode>>

Alive(p) == proc[p] = "alive"
Live == {p \in Procs : Alive(p)}

NoOutcome == [reason |-> None, code |-> None, reaped |-> FALSE]
NoView == [list |-> {}, exited |-> {}, previous |-> {}, complete |-> FALSE]
NoSignal == [kill |-> FALSE, then |-> None]

Init ==
  /\ proc = [p \in Procs |-> "absent"]
  /\ stubborn \in {{}, Procs}
  /\ code = None
  /\ darwin \in BOOLEAN
  /\ mode \in {"execute", "run"}
  /\ env = [cancelled |-> FALSE, expired |-> FALSE, broke |-> None]
  /\ pc = "spawn" /\ site = None /\ sig = NoSignal /\ status = None
  /\ view = NoView /\ stops = 0 /\ outcome = NoOutcome /\ stray = FALSE

-----------------------------------------------------------------------------
(* The group and the rest of the world. *)

Fork(p, q) ==
  /\ Alive(p) /\ proc[q] = "absent" /\ q # Leader
  /\ proc' = [proc EXCEPT ![q] = "alive"]
  /\ UNCHANGED <<fixed, code, env, pc, site, sig, status, view, stops, outcome, stray>>

WorkerExits(p) ==
  /\ p # Leader /\ Alive(p)
  /\ proc' = [proc EXCEPT ![p] = "zombie"]
  /\ UNCHANGED <<fixed, code, env, pc, site, sig, status, view, stops, outcome, stray>>

(* Its parent, or init once the parent is gone, reaps a worker's zombie;   *)
(* only the listings made on Darwin see the difference.                    *)
WorkerReaped(p) ==
  /\ darwin /\ p # Leader /\ proc[p] = "zombie"
  /\ proc' = [proc EXCEPT ![p] = "gone"]
  /\ UNCHANGED <<fixed, code, env, pc, site, sig, status, view, stops, outcome, stray>>

(* A pending fatal signal ends its process. *)
Dies(p) ==
  /\ proc[p] = "dying"
  /\ proc' = [proc EXCEPT ![p] = "zombie"]
  /\ code' = IF p = Leader THEN "signal" ELSE code
  /\ UNCHANGED <<fixed, env, pc, site, sig, status, view, stops, outcome, stray>>

LeaderExits(c) ==
  /\ Alive(Leader)
  /\ proc' = [proc EXCEPT ![Leader] = "zombie"]
  /\ code' = c
  /\ UNCHANGED <<fixed, env, pc, site, sig, status, view, stops, outcome, stray>>

(* Nobody looks at the flags once the loop is over; one of a cancellation  *)
(* and a broken limit happens in a run.                                    *)
Watched == outcome.reason = None
Undisturbed == Watched /\ ~env.cancelled /\ env.broke = None

Cancel ==
  /\ Undisturbed
  /\ env' = [env EXCEPT !.cancelled = TRUE]
  /\ UNCHANGED <<group, fixed, pc, site, sig, status, view, stops, outcome, stray>>

Expire ==
  /\ Watched /\ mode = "execute" /\ ~env.expired /\ pc # "spawn"
  /\ env' = [env EXCEPT !.expired = TRUE]
  /\ UNCHANGED <<group, fixed, pc, site, sig, status, view, stops, outcome, stray>>

(* A live member writes past the log limit, or leaves artifacts the guard  *)
(* refuses.                                                                *)
Overflow(f) ==
  /\ Undisturbed /\ mode = "execute" /\ Live # {}
  /\ env' = [env EXCEPT !.broke = f]
  /\ UNCHANGED <<group, fixed, pc, site, sig, status, view, stops, outcome, stray>>

-----------------------------------------------------------------------------
(* Leaving the loop and the supervisor. *)

(* The outcome is decided; a Process that still has no status is dropped,  *)
(* and its destructor calls stop once more.                                *)
Decide(o) ==
  /\ outcome' = o
  /\ pc' = IF status = None /\ proc[Leader] # "absent" THEN "dropping" ELSE "done"

(* break reason: stop the group before the outcome is decided. *)
Break(reason, n) ==
  /\ pc' = "stop" /\ stops' = n
  /\ outcome' = [outcome EXCEPT !.reason = reason]

Spawn ==
  /\ pc = "spawn"
  /\ \/ /\ mode = "execute" /\ env.cancelled
        /\ outcome' = [reason |-> "cancelled", code |-> None, reaped |-> TRUE]
        /\ pc' = "done" /\ UNCHANGED proc
     \/ /\ ~(mode = "execute" /\ env.cancelled)
        /\ \/ /\ proc' = [proc EXCEPT ![Leader] = "alive"]
              /\ pc' = IF mode = "execute" THEN "size" ELSE "poll"
              /\ UNCHANGED outcome
           \/ /\ outcome' = [reason |-> "spawn_failed", code |-> None, reaped |-> TRUE]
              /\ pc' = "done" /\ UNCHANGED proc
  /\ UNCHANGED <<fixed, code, env, site, sig, status, view, stops, stray>>

(* The checks around a poll of execute_guarded, one per step.  The guard   *)
(* looks at the artifacts at most once a second unless it is forced.       *)
CheckSize ==
  /\ pc \in {"size", "size2", "exitsize"}
  /\ \/ /\ env.broke = "over" /\ Break("output_limit", 1)
     \/ /\ env.broke # "over"
        /\ pc' = CASE pc = "size" -> "guard" [] pc = "size2" -> "size"
                   [] OTHER -> "exitguard"
        /\ UNCHANGED <<outcome, stops>>
  /\ UNCHANGED <<group, fixed, env, site, sig, status, view, stray>>

CheckGuard ==
  /\ pc \in {"guard", "exitguard"}
  /\ \/ /\ env.broke = "bad" /\ Break("guard_failed", 1)
     \/ /\ env.broke # "bad" \/ pc = "guard"
        /\ IF pc = "guard"
             THEN pc' = "poll" /\ UNCHANGED <<outcome, stops>>
             ELSE /\ Decide([reason |-> "exited", code |-> status, reaped |-> TRUE])
                  /\ UNCHANGED stops
  /\ UNCHANGED <<group, fixed, env, site, sig, status, view, stray>>

CheckCancel ==
  /\ pc = "cancel"
  /\ \/ /\ env.cancelled
        /\ Break("cancelled", IF mode = "run" THEN 2 ELSE 1)
     \/ /\ ~env.cancelled
        /\ pc' = IF mode = "execute" THEN "time" ELSE "poll"
        /\ UNCHANGED <<outcome, stops>>
  /\ UNCHANGED <<group, fixed, env, site, sig, status, view, stray>>

CheckTime ==
  /\ pc = "time"
  /\ \/ /\ env.expired /\ Break("timeout", 1)
     \/ /\ ~env.expired /\ pc' = "size2" /\ UNCHANGED <<outcome, stops>>
  /\ UNCHANGED <<group, fixed, env, site, sig, status, view, stray>>

-----------------------------------------------------------------------------
(* Process::poll: see the exit without reaping, kill what is left of the   *)
(* group while the unreaped leader still holds its identifier, then reap.  *)

PollSites == {"poll", "stop", "wait1", "mid", "kill", "wait2", "dropping"}

(* Where a poll's answer leads: the loop, or a step of Process::stop. *)
OnStatus(s) == IF s = "poll" THEN "exited" ELSE "stopped"
OnNothing(s) ==
  CASE s = "poll" -> "cancel"  [] s \in {"stop", "dropping"} -> "term"
    [] s = "wait1" -> "wait1"  [] s = "mid" -> "kill"
    [] s = "kill" -> "killed"  [] s = "wait2" -> "wait2"
OnError(s) == IF s = "poll" THEN "pollerror" ELSE "unstopped"

\* Mutant: the leader is reaped first, and the group is signalled afterwards.
PollReapsFirst ==
  /\ pc \in PollSites /\ status = None /\ site' = pc
  /\ \/ /\ proc[Leader] \in {"alive", "dying"}
        /\ pc' = OnNothing(pc) /\ UNCHANGED <<proc, status, sig>>
     \/ /\ proc[Leader] = "zombie"
        /\ proc' = [proc EXCEPT ![Leader] = "gone"] /\ status' = code
        /\ pc' = "signal" /\ sig' = [kill |-> TRUE, then |-> OnStatus(pc)]
  /\ UNCHANGED <<fixed, code, env, view, stops, outcome, stray>>

Poll ==
  /\ pc \in PollSites
  /\ site' = pc
  /\ \/ /\ status # None
        /\ pc' = OnStatus(pc) /\ UNCHANGED sig
     \/ /\ status = None /\ proc[Leader] \in {"alive", "dying"}
        /\ pc' = OnNothing(pc) /\ UNCHANGED sig
     \/ /\ status = None /\ proc[Leader] = "zombie"
        /\ pc' = "signal" /\ sig' = [kill |-> TRUE, then |-> "reap"]
     \/ /\ status = None               \* waitid failed
        /\ pc' = OnError(pc) /\ UNCHANGED sig
  /\ UNCHANGED <<group, fixed, env, status, view, stops, outcome, stray>>

\* Mutant: after the first deadline SIGTERM is tried again, not SIGKILL.
DeadlineTermAgain ==
  /\ pc = "wait1" /\ site = pc /\ pc' = "term"
  /\ UNCHANGED <<group, fixed, env, site, sig, status, view, stops, outcome, stray>>

(* The stop loops poll until their deadline. *)
Deadline ==
  /\ pc \in {"wait1", "wait2"} /\ site = pc
  /\ pc' = IF pc = "wait1" THEN "mid" ELSE "unstopped"
  /\ UNCHANGED <<group, fixed, env, site, sig, status, view, stops, outcome, stray>>

Reap ==
  /\ pc = "reap"
  /\ proc' = [proc EXCEPT ![Leader] = "gone"]
  /\ status' = code
  /\ pc' = OnStatus(site)
  /\ UNCHANGED <<fixed, code, env, site, sig, view, stops, outcome, stray>>

(* SIGTERM, then SIGKILL, to the group (Process::signal after its poll). *)
SendTermOrKill ==
  /\ pc \in {"term", "killed"}
  /\ sig' = [kill |-> pc = "killed", then |-> IF pc = "term" THEN "wait1" ELSE "wait2"]
  /\ pc' = "signal" /\ site' = None
  /\ UNCHANGED <<group, fixed, env, status, view, stops, outcome, stray>>

-----------------------------------------------------------------------------
(* signal_group: kill(-pgid).  Accepted, the signal is pending for every   *)
(* live member that does not ignore it; Darwin may refuse with EPERM.      *)

Struck == {p \in Live : sig.kill \/ p \notin stubborn}

Deliver ==
  /\ pc = "signal"
  /\ proc' = [p \in Procs |-> IF p \in Struck THEN "dying" ELSE proc[p]]
  /\ stray' = (stray \/ proc[Leader] = "gone")
  /\ pc' = sig.then
  /\ UNCHANGED <<fixed, code, env, site, sig, status, view, stops, outcome>>

Refuse ==
  /\ pc = "signal" /\ darwin
  /\ pc' = "list" /\ view' = NoView
  /\ UNCHANGED <<group, fixed, env, site, sig, status, stops, outcome, stray>>

(* confirm_exited_group: the members are listed, then inspected one by one.*)
ListGroup ==
  /\ pc = "list"
  /\ view' = [view EXCEPT !.list = {p \in Procs : proc[p] \in {"alive", "dying", "zombie"}},
                          !.exited = {}]
  /\ pc' = "inspect"
  /\ UNCHANGED <<group, fixed, env, site, sig, status, stops, outcome, stray>>

(* continue_polling: look again, or give up once the three seconds are over. *)
LookAgain ==
  /\ pc = "again" /\ pc' = "list"
  /\ UNCHANGED <<group, fixed, env, site, sig, status, view, stops, outcome, stray>>

GiveUp ==
  /\ pc = "again" /\ pc' = "refused" /\ view' = NoView
  /\ UNCHANGED <<group, fixed, env, site, sig, status, stops, outcome, stray>>

InspectMember(p) ==
  /\ pc = "inspect" /\ p \in view.list
  /\ \/ /\ proc[p] = "zombie"
        /\ view' = [view EXCEPT !.list = @ \ {p}, !.exited = @ \cup {p}]
        /\ pc' = "inspect"
     \/ /\ \/ proc[p] \in {"alive", "dying"}         \* PendingExit
           \/ proc[p] = "gone" /\ p # Leader        \* Changed
        /\ pc' = "again" /\ view' = NoView
     \/ pc' = "refused" /\ view' = NoView           \* Unconfirmed
  /\ UNCHANGED <<group, fixed, env, site, sig, status, stops, outcome, stray>>

\* Mutant: one complete view of exited members is taken for proof.
CompareViewsOnce ==
  /\ pc = "inspect" /\ view.list = {}
  /\ pc' = sig.then /\ view' = NoView
  /\ UNCHANGED <<group, fixed, env, site, sig, status, stops, outcome, stray>>

(* A complete view: the first is kept, the second must add nobody to it. *)
CompareViews ==
  /\ pc = "inspect" /\ view.list = {}
  /\ IF view.complete
       THEN /\ pc' = IF view.exited \subseteq view.previous THEN sig.then ELSE "refused"
            /\ view' = NoView
       ELSE /\ pc' = "again"
            /\ view' = [NoView EXCEPT !.previous = view.exited, !.complete = TRUE]
  /\ UNCHANGED <<group, fixed, env, site, sig, status, stops, outcome, stray>>

(* The signal's own error stands, and is what poll or stop returns. *)
Refused ==
  /\ pc = "refused"
  /\ pc' = IF sig.then = "reap" THEN OnError(site) ELSE "unstopped"
  /\ UNCHANGED <<group, fixed, env, site, sig, status, view, stops, outcome, stray>>

-----------------------------------------------------------------------------
(* What follows a poll's status or error in the loop. *)

\* Mutant: the limits are not looked at again once the exit is seen.
ExitedUnchecked ==
  /\ pc = "exited"
  /\ Decide([reason |-> "exited", code |-> status, reaped |-> TRUE])
  /\ site' = None /\ sig' = NoSignal
  /\ UNCHANGED <<group, fixed, env, status, view, stops, stray>>

Exited ==
  /\ pc = "exited"
  /\ IF mode = "execute"
       THEN pc' = "exitsize" /\ UNCHANGED outcome
       ELSE Decide([reason |-> "exited", code |-> status, reaped |-> TRUE])
  /\ site' = None /\ sig' = NoSignal
  /\ UNCHANGED <<group, fixed, env, status, view, stops, stray>>

PollError ==
  /\ pc = "pollerror"
  /\ Break("poll_error", 1)
  /\ site' = None /\ sig' = NoSignal
  /\ UNCHANGED <<group, fixed, env, status, view, stray>>

(* Process::stop returned: Ok once the status is known, an error without   *)
(* it.  `run' calls stop a second time when a cancellation left the child  *)
(* unreaped; the destructor's own call changes no outcome.                 *)
Stopped ==
  /\ pc \in {"stopped", "unstopped"}
  /\ \/ /\ stops = 0
        /\ pc' = "done" /\ UNCHANGED <<outcome, stops>>
     \/ /\ stops = 2 /\ status = None
        /\ pc' = "stop" /\ stops' = 1 /\ UNCHANGED outcome
     \/ /\ stops > 0 /\ ~(stops = 2 /\ status = None)
        /\ Decide([outcome EXCEPT !.reaped =
                      IF mode = "run" THEN status # None ELSE pc = "stopped"])
        /\ stops' = 0
  /\ site' = None /\ sig' = NoSignal
  /\ UNCHANGED <<group, fixed, env, status, view, stray>>

Done ==
  /\ pc = "done" /\ UNCHANGED vars

World ==
  /\ pc # "done"
  /\ \/ \E p \in Procs, q \in Workers : Fork(p, q)
     \/ \E p \in Workers : WorkerExits(p) \/ WorkerReaped(p)
     \/ \E p \in Procs : Dies(p)
     \/ \E c \in {"zero", "nonzero"} : LeaderExits(c)
     \/ Cancel \/ Expire
     \/ \E f \in {"over", "bad"} : Overflow(f)

Supervisor ==
  \/ Spawn \/ CheckSize \/ CheckGuard \/ CheckCancel \/ CheckTime
  \/ Poll \/ Reap \/ SendTermOrKill
  \/ Deliver \/ Refuse \/ ListGroup \/ (\E p \in Procs : InspectMember(p))
  \/ CompareViews \/ LookAgain \/ GiveUp \/ Refused \/ Exited \/ PollError \/ Stopped

Next == World \/ Supervisor \/ Deadline \/ Done

(* The supervisor keeps running, and its deadlines pass: they are clock    *)
(* readings, which no behaviour of the group delays.                       *)
Spec ==
  /\ Init /\ [][Next]_vars
  /\ WF_vars(Supervisor) /\ WF_vars(Expire)
  /\ SF_vars(Deadline \/ GiveUp)

-----------------------------------------------------------------------------
(* A caller that is told the worker was reaped reads its logs and          *)
(* artifacts: no process of the group may be left running to write them,   *)
(* whatever the members forked, ignored or hid between two listings; each  *)
(* has exited or has the kill pending.                                     *)
ReapedMeansGone == outcome.reaped => Live = {}

(* The group identifier is the leader's PID: once the leader is reaped it  *)
(* may name somebody else's group, so no signal may follow the reaping.    *)
OwnGroupSignalled == ~stray

(* "exited" with code zero, the only outcome a capture accepts, is the     *)
(* leader's own exit, with the logs and the artifacts inside their limits  *)
(* at that moment, not only at the last check before it.                   *)
AcceptedExitIsOwn ==
  outcome.reason = "exited" /\ outcome.code = "zero" =>
     /\ code = "zero"
     /\ mode = "execute" => env.broke = None

(* execute always returns, and run does once it is cancelled or its child  *)
(* has exited: not even a group that ignores SIGTERM, or that Darwin       *)
(* refuses to signal, holds the tools up for ever.                         *)
SupervisorReturns ==
  (mode = "execute" \/ env.cancelled \/ proc[Leader] = "zombie") ~> (pc = "done")
=============================================================================
