-------------------------- MODULE HrdbTransportInv --------------------------
(***************************************************************************)
(* The inductive invariants of HrdbTransport: what a session is before its *)
(* handshake and after its end; where the reply to the one command that is *)
(* outstanding is; what the last `!status` on its way says; and which arms *)
(* a run is still behind.                                                  *)
(***************************************************************************)
EXTENDS HrdbTransport

Running == proc = "running"
Closing == pc \in {"closing", "closingSend"}
Expired == pc \in {"expired", "expiredSend"}

Is(i, type) == i \in DOMAIN toHost /\ toHost[i].type = type

-----------------------------------------------------------------------------
(* The session.                                                             *)

(* Without a process there is nothing queued and nothing in flight.         *)
Ended == ~Running => queue = <<>> /\ ~Have /\ pc \in {"loop", "dispatch"}

(* Only a session that has been greeted has sent anything.                  *)
Greeted == Have \/ Expired => Running /\ ready

(* Before the greeting nothing was sent or asked to run, and the greeting   *)
(* is the first thing to be read.                                           *)
Ungreeted ==
  Running /\ ~ready =>
    /\ ~stopped /\ ~owed /\ machine # "leaving" /\ toFork = <<>>
    /\ \A i \in DOMAIN queue : queue[i].kind # "run"
    /\ \A i \in DOMAIN toHost : toHost[i].type = IF i = 1 THEN "hello" ELSE "status"
    /\ link = "open" => toHost # <<>>

OneGreeting == Running /\ ready => \A i \in DOMAIN toHost : ~Is(i, "hello")

(* A connection that is closed or closing has nothing left to be read.      *)
LinkShape ==
  /\ Running /\ link = "closed" => toHost = <<>> /\ ~ready
  /\ Closing => Running /\ link = "lost" /\ toHost = <<>>

(* The fork lives in a session, and a request is made inside the report of  *)
(* a failed command only by listeners that do so.                           *)
AliveRuns == alive => Running
Reentry   == pc \in {"expiredSend", "closingSend"} => reentrant

Session == Ended /\ Greeted /\ Ungreeted /\ OneGreeting /\ LinkShape

-----------------------------------------------------------------------------
(* The reply that is outstanding.                                           *)

(* While no request can go out between a time-out and its owed reply.       *)
Orderly ==
  /\ Running /\ (Closing => ~ready)
  /\ ~reentrant \/ (~late /\ ~Expired)

Waiting == Have \/ owed \/ Expired

Outstanding ==
  Orderly =>
    /\ Len(toFork) <= 1
    /\ \A i, j \in DOMAIN toHost : Is(i, "reply") /\ Is(j, "reply") => i = j
    /\ \A i \in DOMAIN toHost : Is(i, "reply") => toFork = <<>> /\ Waiting
    /\ toFork # <<>> => Waiting
    /\ Waiting /\ link = "open" => toFork # <<>> \/ \E i \in DOMAIN toHost : Is(i, "reply")
    /\ Have => /\ ~owed /\ ~Expired
               /\ \A i \in DOMAIN toFork : toFork[i] = current
               /\ \A i \in DOMAIN toHost : Is(i, "reply") => toHost[i].id = current.id
    /\ owed => ~Expired

OwedIsLate == owed => late

(* Stderr holds what the command in flight has printed, and what earlier    *)
(* commands did that were answered without it; a command that was given up  *)
(* is one of these before it has printed anything.                          *)
Printed ==
  Orderly =>
    /\ tail \union pipe \subseteq spilled \union IF Have THEN {current.id} ELSE {}
    /\ ~Have => \A j \in DOMAIN toFork : toFork[j].id \in spilled

(* A console command's OK is behind what the command has printed.           *)
Flushed ==
  Orderly /\ Captures(current) =>
    \A i \in DOMAIN toHost : Is(i, "reply") /\ toHost[i].flag => current.id \in tail \union pipe

Replies == Outstanding /\ OwedIsLate /\ Printed /\ Flushed /\ AnswerIsOwn

-----------------------------------------------------------------------------
(* The stop view: the last notification on its way, or else the last one    *)
(* read, tells whether the machine runs.                                    *)

Told ==
  Running /\ link = "open" =>
    /\ \A i \in DOMAIN toHost :
         Is(i, "status") /\ (\A j \in DOMAIN toHost : j > i => ~Is(j, "status"))
           => (toHost[i].flag <=> machine # "run")
    /\ (\A i \in DOMAIN toHost : ~Is(i, "status")) => (stopped <=> machine # "run")

-----------------------------------------------------------------------------
(* What a run was queued behind: executed, on its way, or ahead of it.      *)

Reached == executed \union {toFork[j].id : j \in DOMAIN toFork}

RunsIn(q, done) ==
  \A i \in DOMAIN q : q[i].kind = "run" =>
    \A a \in q[i].after : a \in done \/ \E j \in 1 .. i - 1 : q[j].id = a

RunsBehind ==
  Running /\ link = "open" =>
    /\ Have => current.id \in Reached
    /\ RunsIn(queue, Reached)
    /\ RunsIn(toFork, executed)

IInv == TypeOK /\ AliveRuns /\ Reentry /\ Session /\ Replies /\ Told /\ RunsBehind
=============================================================================
