-------------------------- MODULE DaemonLifecycle --------------------------
(***************************************************************************)
(* Birth, service and death of the native daemon, and the requests that    *)
(* cross it (crates/browser-companion/src/daemon.rs, discovery.rs,         *)
(* launcher.rs, server.rs; extensions/firefox/src/messaging/               *)
(* companion-client.ts, native-session.ts).                                *)
(*                                                                         *)
(* A call of the extension posts one job.  It uses the session it has      *)
(* stored, or asks the native launcher for one; the launcher follows the   *)
(* state record to a daemon or spawns a daemon.  The daemon holds a file   *)
(* lock while it lives, publishes the record, and stops by itself when it  *)
(* has been idle.  A session is known by the daemon that issued it.        *)
(***************************************************************************)
EXTENDS Integers, FiniteSets

CONSTANTS
    Calls,      \* calls of CompanionClient.request that create a job
    MaxDaemons, \* bound: daemon processes that are spawned
    MaxFaults   \* bound: daemons that are killed and requests that time out

ASSUME DaemonsAssumption == MaxDaemons \in Nat
ASSUME FaultsAssumption == MaxFaults \in Nat

\* In the order in which they are spawned.
Daemons == 1..MaxDaemons
None == 0

VARIABLES
    lock,       \* the daemon that holds daemon.lock
    record,     \* the daemon that daemon-state.json names
    phase,      \* where run_daemon stands
    idle,       \* last_activity is idle_timeout or more ago
    made,       \* the creation ledger: <<call, daemon>>
    jobs,       \* active_jobs: <<call, daemon>>
    ending,     \* jobs between fetch_sub and touch in finish_active
    strays,     \* admitted handlers whose client gave up: <<call, daemon, kind>>
    faults,
    call,       \* the locals of each call and of its launcher
    stored,     \* the session in storage.session
    validated   \* validatedSessionToken

daemonVars == <<lock, record, phase, idle, faults>>
workVars   == <<made, jobs, ending, strays>>
clientVars == <<stored, validated>>
vars == <<daemonVars, workVars, call, clientVars>>

\* "none"      not spawned         "draining"  shutdown_latched, server ending
\* "started"   before the lock     "cleaning"  serve returned
\* "locked"    record not written  "removing"  the record names this daemon
\* "replacing" old record removed  "unlocking" record dealt with
\* "serving"                       "exited", "killed"
Locked == {"locked", "replacing", "serving", "draining", "cleaning", "removing", "unlocking"}
Latched == {"draining", "cleaning", "removing", "unlocking", "exited"}
Phases == {"none", "started", "killed", "exited"} \cup Locked

\* "off"      before liveSession    "spawn"      spawn_detached_daemon
\* "fresh"    freshSession          "connecting" a request is on its way
\* "discover" try_discover          "waiting"    admitted by its daemon
\* "ready"    session to be stored
Places == {"off", "fresh", "discover", "spawn", "connecting", "waiting",
           "ready", "done", "failed"}
Kinds == {"health", "session", "job"}
Attempts == {"first", "retry", "last"}
Work == Calls \X Daemons

\* kind     what the call's request asks for
\* attempt  which fetch of its POST the call is up to
\* target   the daemon of the session or record it uses
\* spawned  its launcher has spawned a daemon, and is late past the deadline
Call == [at : Places, kind : Kinds, attempt : Attempts, target : Daemons \cup {None},
         spawned : BOOLEAN, late : BOOLEAN]

\* A call with no local in use.
Plain(place) == [at |-> place, kind |-> "job", attempt |-> "first", target |-> None,
                 spawned |-> FALSE, late |-> FALSE]

TypeOK ==
    /\ lock \in Daemons \cup {None}
    /\ record \in Daemons \cup {None}
    /\ phase \in [Daemons -> Phases]
    /\ idle \in [Daemons -> BOOLEAN]
    /\ made \subseteq Work
    /\ jobs \subseteq Work
    /\ ending \subseteq Work
    /\ strays \subseteq Calls \X Daemons \X Kinds
    /\ faults \in 0..MaxFaults
    /\ call \in [Calls -> Call]
    /\ stored \in Daemons \cup {None}
    /\ validated \in Daemons \cup {None}

Init ==
    /\ lock = None
    /\ record = None
    /\ phase = [d \in Daemons |-> "none"]
    /\ idle = [d \in Daemons |-> FALSE]
    /\ made = {}
    /\ jobs = {}
    /\ ending = {}
    /\ strays = {}
    /\ faults = 0
    /\ call = [c \in Calls |-> Plain("off")]
    /\ stored = None
    /\ validated = None

-----------------------------------------------------------------------------
(* run_daemon *)

Advance(d, before, after) ==
    /\ phase[d] = before
    /\ phase' = [phase EXCEPT ![d] = after]

\* acquire_daemon_lock: a process that finds the lock held exits (AlreadyRunning).
TakeLock(d) ==
    /\ phase[d] = "started"
    /\ \/ lock = None /\ lock' = d /\ Advance(d, "started", "locked")
       \/ lock # None /\ lock' = lock /\ Advance(d, "started", "exited")
    /\ UNCHANGED <<record, idle, faults, workVars, call, clientVars>>

\* write_daemon_record removes the old record ...
RemoveOld(d) ==
    /\ Advance(d, "locked", "replacing")
    /\ record' = None
    /\ UNCHANGED <<lock, idle, faults, workVars, call, clientVars>>

\* ... and renames the new one to its place; the listener is bound already.
Persist(d) ==
    /\ Advance(d, "replacing", "serving")
    /\ record' = d
    /\ UNCHANGED <<lock, idle, faults, workVars, call, clientVars>>

Touched(d) == idle' = [idle EXCEPT ![d] = FALSE]

\* admitted_requests: handlers of waiting calls and of calls that gave up.
Admitted(d) ==
    \/ \E c \in Calls : call[c].at = "waiting" /\ call[c].target = d
    \/ \E c \in Calls, k \in Kinds : <<c, d, k>> \in strays

Busy(d) == \E c \in Calls : <<c, d>> \in jobs

\* Mutant: only jobs keep the daemon alive.
NoJobs(d) == ~Busy(d)

Quiet(d) == ~Busy(d) /\ ~Admitted(d)

\* The idle timeout passes without a touch.
Elapse(d) ==
    /\ phase[d] = "serving" /\ ~idle[d]
    /\ idle' = [idle EXCEPT ![d] = TRUE]
    /\ UNCHANGED <<lock, record, phase, faults, workVars, call, clientVars>>

\* try_latch_idle_shutdown, from the loop of wait_until_idle.
Latch(d) ==
    /\ Advance(d, "serving", "draining")
    /\ idle[d] /\ Quiet(d)
    /\ UNCHANGED <<lock, record, idle, faults, workVars, call, clientVars>>

\* Mutant: the lock goes before the record.
UnlockFirst(d) ==
    /\ Advance(d, "draining", "cleaning")
    /\ lock' = None
    /\ UNCHANGED <<record, idle, faults, workVars, call, clientVars>>

\* The graceful shutdown of the server is over.
ServeEnds(d) ==
    /\ Advance(d, "draining", "cleaning")
    /\ UNCHANGED <<lock, record, idle, faults, workVars, call, clientVars>>

\* remove_record_if_instance reads the record ...
Compare(d) ==
    /\ Advance(d, "cleaning", IF record = d THEN "removing" ELSE "unlocking")
    /\ UNCHANGED <<lock, record, idle, faults, workVars, call, clientVars>>

\* ... and removes whatever file then has its name.
Remove(d) ==
    /\ Advance(d, "removing", "unlocking")
    /\ record' = None
    /\ UNCHANGED <<lock, idle, faults, workVars, call, clientVars>>

\* What a process has in memory ends with it.
Vanish(d) ==
    /\ made' = {w \in made : w[2] # d}
    /\ jobs' = {w \in jobs : w[2] # d}
    /\ ending' = {w \in ending : w[2] # d}
    /\ strays' = {s \in strays : s[2] # d}

\* drop(daemon_lock), and the process exits.
Unlock(d) ==
    /\ Advance(d, "unlocking", "exited")
    /\ lock' = IF lock = d THEN None ELSE lock
    /\ Vanish(d)
    /\ UNCHANGED <<record, idle, faults, call, clientVars>>

\* The process is killed: its lock goes with it, its record stays.
Kill(d) ==
    /\ faults < MaxFaults
    /\ phase[d] \in Locked \cup {"started"}
    /\ faults' = faults + 1
    /\ phase' = [phase EXCEPT ![d] = "killed"]
    /\ lock' = IF lock = d THEN None ELSE lock
    /\ Vanish(d)
    /\ UNCHANGED <<record, idle, call, clientVars>>

-----------------------------------------------------------------------------
(* Jobs and the handlers nobody waits for *)

\* A worker stores a patch, or fails its job: touch.
Progress(w) ==
    /\ w \in jobs /\ idle[w[2]]
    /\ Touched(w[2])
    /\ UNCHANGED <<lock, record, phase, faults, workVars, call, clientVars>>

\* finish_active: fetch_sub ...
EndJob(w) ==
    /\ w \in jobs
    /\ jobs' = jobs \ {w}
    /\ ending' = ending \cup {w}
    /\ UNCHANGED <<daemonVars, made, strays, call, clientVars>>

\* ... then touch.
TouchEnd(w) ==
    /\ w \in ending
    /\ ending' = ending \ {w}
    /\ Touched(w[2])
    /\ UNCHANGED <<lock, record, phase, faults, made, jobs, strays, call, clientVars>>

\* creation_guard and reserve_job: one job per id in the daemon's ledger.
Reserve(w) ==
    /\ made' = made \cup {w}
    /\ jobs' = IF w \in made THEN jobs ELSE jobs \cup {w}

CreateStray(s) ==
    /\ s \in strays /\ s[3] = "job" /\ <<s[1], s[2]>> \notin made
    /\ Reserve(<<s[1], s[2]>>)
    /\ Touched(s[2])
    /\ UNCHANGED <<lock, record, phase, faults, ending, strays, call, clientVars>>

\* Mutant: an abandoned handler is never dropped.
KeepStray(s) ==
    /\ s \in strays /\ idle[s[2]]
    /\ Touched(s[2])
    /\ UNCHANGED <<lock, record, phase, faults, workVars, call, clientVars>>

\* An abandoned handler ends, or is dropped with its connection, and with it
\* the RequestAdmission.
DropStray(s) ==
    /\ s \in strays
    /\ strays' = strays \ {s}
    /\ Touched(s[2])
    /\ UNCHANGED <<lock, record, phase, faults, made, jobs, ending, call, clientVars>>

-----------------------------------------------------------------------------
(* request, liveSession and freshSession *)

Become(c, locals) == call' = [call EXCEPT ![c] = locals]

\* The locals of a call that sends a request of kind k to daemon d.
Sending(c, k, d) == [call[c] EXCEPT !.at = "connecting", !.kind = k, !.target = d]

\* The locals of a call whose launcher starts, or goes on, without a record.
Launching(c, place) == [call[c] EXCEPT !.at = place, !.kind = "job", !.target = None]

\* liveSession without a stored session: the launcher is asked for one.
NoSession(c) ==
    /\ call[c].at = "off" /\ stored = None
    /\ Become(c, Launching(c, "discover"))
    /\ UNCHANGED <<daemonVars, workVars, clientVars>>

\* liveSession with one: it is used at once if it has been validated, and its
\* daemon's health is asked for first if it has not.
Reuse(c) ==
    /\ call[c].at = "off" /\ stored # None
    /\ Become(c, Sending(c, IF validated = stored THEN "job" ELSE "health", stored))
    /\ UNCHANGED <<daemonVars, workVars, clientVars>>

\* freshSession: both memories of a session go, then the launcher is asked.
Fresh(c) ==
    /\ call[c].at = "fresh"
    /\ stored' = None
    /\ validated' = None
    /\ Become(c, Launching(c, "discover"))
    /\ UNCHANGED <<daemonVars, workVars>>

\* The launcher's answer is stored; the POST follows.
Store(c) ==
    /\ call[c].at = "ready"
    /\ stored' = call[c].target
    /\ validated' = call[c].target
    /\ Become(c, [Sending(c, "job", call[c].target) EXCEPT !.spawned = FALSE, !.late = FALSE])
    /\ UNCHANGED <<daemonVars, workVars>>

-----------------------------------------------------------------------------
(* start_or_discover *)

\* try_discover finds a record and asks its daemon for a session.
Follow(c) ==
    /\ call[c].at = "discover" /\ record # None
    /\ Become(c, Sending(c, "session", record))
    /\ UNCHANGED <<daemonVars, workVars, clientVars>>

\* Mutant: the loop does not look at the clock.
PollOn(c) == Launching(c, IF call[c].spawned THEN "discover" ELSE "spawn")

\* A try_discover without success: a daemon is spawned, the launcher tries
\* again, or its time is over.
Missed(c) ==
    IF ~call[c].spawned THEN Launching(c, "spawn")
    ELSE IF call[c].late THEN Plain("failed") ELSE Launching(c, "discover")

NoRecord(c) ==
    /\ call[c].at = "discover" /\ record = None
    /\ Missed(c) # call[c]
    /\ Become(c, Missed(c))
    /\ UNCHANGED <<daemonVars, workVars, clientVars>>

\* The daemon is spawned, or cannot be.
Spawn(c) ==
    /\ call[c].at = "spawn"
    /\ \/ /\ \E d \in Daemons :
                /\ \A e \in 1..(d - 1) : phase[e] # "none"
                /\ Advance(d, "none", "started")
          /\ Become(c, [Launching(c, "discover") EXCEPT !.spawned = TRUE])
       \/ /\ Become(c, Plain("failed"))
          /\ UNCHANGED phase
    /\ UNCHANGED <<lock, record, idle, faults, workVars, clientVars>>

\* DISCOVERY_TIMEOUT passes.
Deadline(c) ==
    /\ call[c].spawned /\ ~call[c].late
    /\ Become(c, [call[c] EXCEPT !.late = TRUE])
    /\ UNCHANGED <<daemonVars, workVars, clientVars>>

-----------------------------------------------------------------------------
(* A request and its outcome *)

Serves(c) == call[c].target # None /\ phase[call[c].target] = "serving"

\* try_admit_authenticated of a request that has authenticated.
Admit(c) ==
    /\ call[c].at = "connecting" /\ Serves(c)
    /\ Become(c, [call[c] EXCEPT !.at = "waiting"])
    /\ Touched(call[c].target)
    /\ UNCHANGED <<lock, record, phase, faults, workVars, clientVars>>

\* The POST ends for good, and the session with it.
GiveUp(c) == Become(c, Plain("failed")) /\ stored' = None /\ validated' = None

\* The call takes a fresh session for its next attempt.
Renew(c, next) ==
    /\ Become(c, [Plain("fresh") EXCEPT !.attempt = next])
    /\ UNCHANGED clientVars

\* The connection fails or the request's time is over.
Lost(c) ==
    \/ /\ call[c].kind = "session" /\ Become(c, Missed(c))
       /\ UNCHANGED clientVars
    \/ call[c].kind = "health" /\ Renew(c, "first")
    \/ call[c].kind = "job" /\ call[c].attempt = "first" /\ Renew(c, "retry")
    \/ call[c].kind = "job" /\ call[c].attempt # "first" /\ GiveUp(c)

\* 401: the daemon has dropped the session, or expired it.
Denied(c) ==
    \/ call[c].kind = "health" /\ Renew(c, "first")
    \/ call[c].kind = "job" /\ call[c].attempt # "last" /\ Renew(c, "last")
    \/ call[c].kind = "job" /\ call[c].attempt = "last" /\ GiveUp(c)

\* 503 DAEMON_SHUTTING_DOWN: the POST is not repeated.
Rejected(c) ==
    \/ /\ call[c].kind = "session" /\ Become(c, Missed(c))
       /\ UNCHANGED clientVars
    \/ call[c].kind = "health" /\ Renew(c, "first")
    \/ /\ call[c].kind = "job" /\ Become(c, Plain("failed"))
       /\ UNCHANGED clientVars

\* The port is closed, or closes under the request.
Refuse(c) ==
    /\ call[c].at \in {"connecting", "waiting"} /\ ~Serves(c)
    /\ Lost(c)
    /\ UNCHANGED <<daemonVars, workVars>>

Unauthorized(c) ==
    /\ call[c].at = "connecting" /\ Serves(c)
    /\ Denied(c)
    /\ UNCHANGED <<daemonVars, workVars>>

\* A connection that was open when the daemon latched.
Draining(c) ==
    /\ call[c].at = "connecting" /\ phase[call[c].target] = "draining"
    /\ Rejected(c)
    /\ UNCHANGED <<daemonVars, workVars>>

\* The handler's work is done and its body has been read: the admission is
\* dropped.  (JobStorage models what lies between the two.)
Answer(c) ==
    /\ call[c].at = "waiting" /\ Serves(c)
    /\ Touched(call[c].target)
    /\ \/ /\ call[c].kind = "session"
          /\ Become(c, [call[c] EXCEPT !.at = "ready"])
          /\ UNCHANGED <<made, jobs, clientVars>>
       \/ /\ call[c].kind = "health"
          /\ Become(c, Sending(c, "job", call[c].target))
          /\ validated' = call[c].target
          /\ UNCHANGED <<made, jobs, stored>>
       \/ /\ call[c].kind = "job"
          /\ Reserve(<<c, call[c].target>>)
          /\ Become(c, Plain("done"))
          /\ UNCHANGED clientVars
    /\ UNCHANGED <<lock, record, phase, faults, ending, strays>>

\* The client gives up; the handler runs on.
Timeout(c) ==
    /\ call[c].at = "waiting" /\ Serves(c)
    /\ faults < MaxFaults
    /\ faults' = faults + 1
    /\ strays' = strays \cup {<<c, call[c].target, call[c].kind>>}
    /\ Lost(c)
    /\ UNCHANGED <<lock, record, phase, idle, made, jobs, ending>>

-----------------------------------------------------------------------------

DaemonStep(d) ==
    \/ TakeLock(d) \/ RemoveOld(d) \/ Persist(d) \/ Latch(d) \/ ServeEnds(d)
    \/ Compare(d) \/ Remove(d) \/ Unlock(d)

CallStep(c) ==
    \/ NoSession(c) \/ Reuse(c) \/ Fresh(c) \/ Store(c) \/ Follow(c)
    \/ NoRecord(c) \/ Spawn(c) \/ Admit(c) \/ Refuse(c) \/ Unauthorized(c)
    \/ Draining(c) \/ Answer(c) \/ Timeout(c)

Next ==
    \/ \E d \in Daemons : DaemonStep(d) \/ Elapse(d) \/ Kill(d)
    \/ \E w \in Work : Progress(w) \/ EndJob(w) \/ TouchEnd(w)
    \/ \E s \in Calls \X Daemons \X Kinds : CreateStray(s) \/ DropStray(s)
    \/ \E c \in Calls : CallStep(c) \/ Deadline(c)

\* Processes and handlers run, time passes, jobs end, and a client's timer
\* fires.  Nothing makes a call start or a daemon be killed.  (Of several jobs or
\* abandoned handlers some one ends: calls make finitely many of them.)
Spec ==
    /\ Init /\ [][Next]_vars
    /\ \A d \in Daemons : WF_vars(DaemonStep(d)) /\ WF_vars(Elapse(d))
    /\ WF_vars(\E w \in Work : EndJob(w)) /\ WF_vars(\E w \in Work : TouchEnd(w))
    /\ WF_vars(\E s \in Calls \X Daemons \X Kinds : DropStray(s))
    /\ \A c \in Calls : WF_vars(call[c].at # "off" /\ CallStep(c)) /\ WF_vars(Deadline(c))

-----------------------------------------------------------------------------
(* Properties *)

\* Once the idle latch is set, no job runs and no handler is admitted in that
\* daemon, so that ending the process loses nothing: the latch, admission and
\* activity counts are read under one mutex, but jobs are counted outside it.
NoWorkAtShutdown ==
    \A d \in Daemons : phase[d] \in Latched => ~Busy(d) /\ ~Admitted(d)

\* A daemon that serves can be found: the state record names it, whatever
\* daemons ended before and removed their record in two steps.
Discoverable ==
    \A d \in Daemons : phase[d] = "serving" => record = d

\* A daemon that was left alone ends: no abandoned handler, ended job or late
\* touch keeps it (and the GPU) for ever, in service or on its way out.  (A
\* process that has ended stays ended, so all have ended again and again.)
IdleExit == []<>(\A d \in Daemons : phase[d] \notin Locked)

\* A call returns, whatever daemons are killed, drain or refuse its sessions.
CallReturns ==
    \A c \in Calls : call[c].at # "off" ~> call[c].at \in {"done", "failed"}

=============================================================================
