----------------------- MODULE DaemonLifecycleProofs -----------------------
(* Theorems about DaemonLifecycle, for any calls and any number of daemons   *)
(* and faults.                                                               *)
EXTENDS DaemonLifecycle, TLAPS

\* A daemon past TakeLock and before Unlock is the one that has the lock.
HoldsLock == \A d \in Daemons : phase[d] \in Locked => lock = d

\* From Persist to Remove the record names the daemon.
RecordKept ==
    \A d \in Daemons :
        phase[d] \in {"serving", "draining", "cleaning", "removing"} => record = d

\* Whoever is admitted or runs as a job has a daemon that still serves (a
\* client may wait for one that was killed, until its connection fails).
WorkServed ==
    /\ \A w \in jobs : phase[w[2]] = "serving"
    /\ \A s \in strays : phase[s[2]] = "serving"
    /\ \A c \in Calls : call[c].at = "waiting" =>
        /\ call[c].target \in Daemons
        /\ phase[call[c].target] \in {"serving", "killed"}

IInv ==
    /\ TypeOK
    /\ HoldsLock
    /\ RecordKept
    /\ WorkServed

LEMMA NoneIsNoDaemon == None \notin Daemons
BY DaemonsAssumption DEF None, Daemons

\* The locals that the steps of a call assign are locals.
LEMMA Locals ==
    ASSUME TypeOK, NEW c \in Calls
    PROVE  /\ \A place \in Places : Plain(place) \in Call /\ Launching(c, place) \in Call
           /\ \A k \in Kinds, d \in Daemons \cup {None} : Sending(c, k, d) \in Call
           /\ Missed(c) \in Call
<1>1. call[c] \in Call
  BY DEF TypeOK
<1>2. \A place \in Places : Plain(place) \in Call /\ Launching(c, place) \in Call
  BY <1>1 DEF Plain, Launching, Call, Kinds, Attempts
<1>3. \A k \in Kinds, d \in Daemons \cup {None} : Sending(c, k, d) \in Call
  BY <1>1 DEF Sending, Call, Places
<1>4. Missed(c) \in Call
  BY <1>2 DEF Missed, Places
<1> QED BY <1>2, <1>3, <1>4

\* Only admitted calls wait.
LEMMA NotWaiting ==
    ASSUME TypeOK, NEW c \in Calls
    PROVE  /\ \A place \in Places : place # "waiting" =>
                Plain(place).at # "waiting" /\ Launching(c, place).at # "waiting"
           /\ \A k \in Kinds, d \in Daemons \cup {None} : Sending(c, k, d).at # "waiting"
           /\ Missed(c).at # "waiting"
<1>1. call[c] \in Call
  BY DEF TypeOK
<1>2. \A place \in Places : place # "waiting" =>
        Plain(place).at # "waiting" /\ Launching(c, place).at # "waiting"
  BY <1>1 DEF Plain, Launching, Call
<1>3. \A k \in Kinds, d \in Daemons \cup {None} : Sending(c, k, d).at # "waiting"
  BY <1>1 DEF Sending, Call
<1>4. Missed(c).at # "waiting"
  BY <1>2 DEF Missed, Places
<1> QED BY <1>2, <1>3, <1>4

LEMMA InitIInv == Init => IInv
<1> SUFFICES ASSUME Init PROVE IInv
  OBVIOUS
<1>1. \A c \in Calls : call[c] = Plain("off") /\ Plain("off") \in Call
  BY DEF Init, Plain, Call, Places, Kinds, Attempts
<1>2. TypeOK
  BY <1>1, FaultsAssumption DEF Init, TypeOK, Phases
<1>3. HoldsLock /\ RecordKept
  BY DEF Init, HoldsLock, RecordKept, Locked
<1>4. WorkServed
  BY <1>1 DEF Init, WorkServed, Plain
<1> QED BY <1>2, <1>3, <1>4 DEF IInv

\* The locals a lost, denied or rejected request leaves behind.
LEMMA Outcome ==
    ASSUME TypeOK, NEW c \in Calls, Lost(c) \/ Denied(c) \/ Rejected(c)
    PROVE  /\ \E x \in Call : call' = [call EXCEPT ![c] = x] /\ x.at # "waiting"
           /\ stored' \in {stored, None} /\ validated' \in {validated, None}
<1>1. ASSUME NEW next \in Attempts, Renew(c, next)
      PROVE  /\ \E x \in Call : call' = [call EXCEPT ![c] = x] /\ x.at # "waiting"
             /\ UNCHANGED clientVars
  <2> DEFINE x == [Plain("fresh") EXCEPT !.attempt = next]
  <2>1. x \in Call /\ x.at # "waiting"
    BY DEF Plain, Call, Places, Kinds, Attempts
  <2>2. call' = [call EXCEPT ![c] = x] /\ UNCHANGED clientVars
    BY <1>1 DEF Renew, Become
  <2> QED BY <2>1, <2>2
<1>2. CASE \E next \in Attempts : Renew(c, next)
  BY <1>1, <1>2 DEF clientVars
<1>3. CASE Become(c, Missed(c)) /\ UNCHANGED clientVars
  BY <1>3, Locals, NotWaiting DEF Become, clientVars
<1>4. CASE GiveUp(c) \/ (Become(c, Plain("failed")) /\ UNCHANGED clientVars)
  BY <1>4, Locals, NotWaiting DEF GiveUp, Become, clientVars, Places
<1> QED BY <1>2, <1>3, <1>4 DEF Lost, Denied, Rejected, Attempts

\* What a step may do to the daemons' work and still preserve the invariant:
\* admit a call, a stray or a job where a daemon serves.
LEMMA Preserved ==
    ASSUME IInv, TypeOK', UNCHANGED <<lock, record, phase>>,
           \A w \in jobs' : w \in jobs \/ phase[w[2]] = "serving",
           \A s \in strays' : s \in strays \/ phase[s[2]] = "serving",
           \A c \in Calls : call'[c].at = "waiting" =>
               \/ call[c].at = "waiting" /\ call'[c].target = call[c].target
               \/ call'[c].target \in Daemons /\ phase[call'[c].target] = "serving"
    PROVE  IInv'
BY DEF IInv, HoldsLock, RecordKept, WorkServed

\* A step of a call changes nothing of a daemon but its idle clock, and admits
\* work only to a daemon that serves.
LEMMA CallStepIInv ==
    ASSUME IInv, NEW c \in Calls, CallStep(c) \/ Deadline(c)
    PROVE  IInv'
<1>0. TypeOK /\ call[c] \in Call /\ call \in [Calls -> Call]
  BY DEF IInv, TypeOK
<1>1. CASE NoSession(c) \/ Reuse(c) \/ Fresh(c) \/ Follow(c) \/ NoRecord(c)
  <2>1. PICK x \in Call : call' = [call EXCEPT ![c] = x] /\ x.at # "waiting"
    BY <1>0, <1>1, Locals, NotWaiting
    DEF NoSession, Reuse, Fresh, Follow, NoRecord, Become, TypeOK, Places, Kinds
  <2>2. UNCHANGED <<daemonVars, workVars>> /\ stored' \in {stored, None} /\ validated' \in {validated, None}
    BY <1>1 DEF NoSession, Reuse, Fresh, Follow, NoRecord, clientVars
  <2>3. TypeOK'
    BY <1>0, <2>1, <2>2 DEF TypeOK, daemonVars, workVars
  <2> QED BY <1>0, <2>1, <2>2, <2>3, Preserved DEF daemonVars, workVars
<1>2. CASE Store(c)
  <2>0. call[c].target \in Daemons \cup {None}
    BY <1>0 DEF Call
  <2> DEFINE y == Sending(c, "job", call[c].target)
             x == [y EXCEPT !.spawned = FALSE, !.late = FALSE]
  <2>1. y \in Call /\ y.at # "waiting"
    BY <1>0, <2>0, Locals, NotWaiting DEF Kinds
  <2>2. x \in Call /\ x.at # "waiting"
    <3> HIDE DEF y
    <3> QED BY <2>1 DEF Call
  <2>3. call' = [call EXCEPT ![c] = x] /\ UNCHANGED <<daemonVars, workVars>>
    BY <1>2 DEF Store, Become
  <2>4. stored' \in Daemons \cup {None} /\ validated' \in Daemons \cup {None}
    BY <1>2, <2>0 DEF Store
  <2> HIDE DEF x
  <2>5. TypeOK'
    BY <1>0, <2>2, <2>3, <2>4 DEF TypeOK, daemonVars, workVars
  <2> QED BY <1>0, <2>2, <2>3, <2>5, Preserved DEF daemonVars, workVars
<1>3. CASE Spawn(c)
  <2> DEFINE y == Launching(c, "discover")
             x == [y EXCEPT !.spawned = TRUE]
  <2>1. y \in Call /\ y.at # "waiting"
    BY <1>0, Locals, NotWaiting DEF Places
  <2>2. x \in Call /\ x.at # "waiting"
    <3> HIDE DEF y
    <3> QED BY <2>1 DEF Call
  <2>3. Plain("failed") \in Call /\ Plain("failed").at # "waiting"
    BY <1>0, Locals, NotWaiting DEF Places
  <2>4. /\ UNCHANGED <<lock, record, idle, faults, workVars, clientVars>>
        /\ \/ /\ \E d \in Daemons : Advance(d, "none", "started")
              /\ call' = [call EXCEPT ![c] = x]
           \/ /\ phase' = phase
              /\ call' = [call EXCEPT ![c] = Plain("failed")]
    BY <1>3 DEF Spawn, Become
  <2> HIDE DEF x
  <2>5. PICK z \in Call : call' = [call EXCEPT ![c] = z] /\ z.at # "waiting"
    BY <2>2, <2>3, <2>4
  <2>6. TypeOK'
    BY <1>0, <2>4, <2>5 DEF TypeOK, workVars, clientVars, Advance, Phases
  <2>7. CASE \E d \in Daemons : Advance(d, "none", "started")
    <3>1. PICK d \in Daemons : Advance(d, "none", "started")
      BY <2>7
    <3>2. HoldsLock' /\ RecordKept'
      BY <1>0, <2>4, <3>1 DEF Advance, IInv, TypeOK, HoldsLock, RecordKept, Locked
    <3>3. WorkServed'
      <4>1. \A e \in Daemons : phase[e] # "none" => phase'[e] = phase[e]
        BY <1>0, <3>1 DEF Advance, TypeOK
      <4>2. \A w \in jobs : w[2] \in Daemons
        BY <1>0 DEF TypeOK, Work
      <4>3. \A s \in strays : s[2] \in Daemons
        BY <1>0 DEF TypeOK
      <4>4. UNCHANGED <<jobs, strays>>
        BY <2>4 DEF workVars
      <4> QED BY <1>0, <2>5, <4>1, <4>2, <4>3, <4>4 DEF IInv, WorkServed
    <3> QED BY <2>6, <3>2, <3>3 DEF IInv
  <2>8. CASE phase' = phase
    BY <1>0, <2>4, <2>5, <2>6, <2>8, Preserved DEF workVars
  <2> QED BY <2>4, <2>7, <2>8
<1>4. CASE Admit(c)
  <2> DEFINE x == [call[c] EXCEPT !.at = "waiting"]
  <2>1. x \in Call /\ x.target = call[c].target
    BY <1>0 DEF Call, Places
  <2>2. /\ call' = [call EXCEPT ![c] = x]
        /\ idle' = [idle EXCEPT ![call[c].target] = FALSE]
        /\ UNCHANGED <<lock, record, phase, faults, workVars, clientVars>>
    BY <1>4 DEF Admit, Become, Touched
  <2>3. call[c].target \in Daemons /\ phase[call[c].target] = "serving"
    BY <1>0, <1>4 DEF Admit, Serves, Call
  <2> HIDE DEF x
  <2>4. TypeOK'
    BY <1>0, <2>1, <2>2 DEF TypeOK, workVars, clientVars
  <2> QED BY <1>0, <2>1, <2>2, <2>3, <2>4, Preserved DEF workVars
<1>5. CASE Refuse(c) \/ Unauthorized(c) \/ Draining(c)
  <2>1. Lost(c) \/ Denied(c) \/ Rejected(c)
    BY <1>5 DEF Refuse, Unauthorized, Draining
  <2>2. UNCHANGED <<daemonVars, workVars>>
    BY <1>5 DEF Refuse, Unauthorized, Draining
  <2>3. PICK x \in Call : call' = [call EXCEPT ![c] = x] /\ x.at # "waiting"
    BY <1>0, <2>1, Outcome
  <2>4. stored' \in {stored, None} /\ validated' \in {validated, None}
    BY <1>0, <2>1, Outcome
  <2>5. TypeOK'
    BY <1>0, <2>2, <2>3, <2>4 DEF TypeOK, daemonVars, workVars
  <2> QED BY <1>0, <2>2, <2>3, <2>5, Preserved DEF daemonVars, workVars
<1>6. CASE Answer(c)
  <2> DEFINE d == call[c].target
             y == [call[c] EXCEPT !.at = "ready"]
  <2>1. d \in Daemons /\ phase[d] = "serving"
    BY <1>0, <1>6 DEF Answer, Serves, Call
  <2>2. y \in Call /\ y.at # "waiting"
    BY <1>0 DEF Call, Places
  <2>3. Sending(c, "job", d) \in Call /\ Sending(c, "job", d).at # "waiting"
    BY <1>0, <2>1, Locals, NotWaiting DEF Kinds
  <2>4. Plain("done") \in Call /\ Plain("done").at # "waiting"
    BY <1>0, Locals, NotWaiting DEF Places
  <2>5. PICK x \in Call : call' = [call EXCEPT ![c] = x] /\ x.at # "waiting"
    <3> HIDE DEF y
    <3>1. \/ call' = [call EXCEPT ![c] = y]
          \/ call' = [call EXCEPT ![c] = Sending(c, "job", d)]
          \/ call' = [call EXCEPT ![c] = Plain("done")]
      BY <1>6 DEF Answer, Become, y
    <3> QED BY <2>2, <2>3, <2>4, <3>1
  <2>6. /\ idle' = [idle EXCEPT ![d] = FALSE]
        /\ stored' = stored /\ validated' \in {validated, d}
        /\ UNCHANGED <<lock, record, phase, faults, ending, strays>>
    BY <1>6 DEF Answer, Touched, clientVars
  <2>7. made' \in {made, made \cup {<<c, d>>}} /\ jobs' \in {jobs, jobs \cup {<<c, d>>}}
    BY <1>6 DEF Answer, Reserve
  <2> HIDE DEF d
  <2>8. TypeOK'
    BY <1>0, <2>1, <2>5, <2>6, <2>7 DEF TypeOK, Work
  <2>9. \A w \in jobs' : w \in jobs \/ phase[w[2]] = "serving"
    BY <2>1, <2>7
  <2> QED BY <1>0, <2>5, <2>6, <2>8, <2>9, Preserved
<1>7. CASE Timeout(c)
  <2> DEFINE d == call[c].target
             k == call[c].kind
  <2>1. d \in Daemons /\ phase[d] = "serving" /\ k \in Kinds
    BY <1>0, <1>7 DEF Timeout, Serves, Call
  <2>2. PICK x \in Call : call' = [call EXCEPT ![c] = x] /\ x.at # "waiting"
    BY <1>0, <1>7, Outcome DEF Timeout
  <2>3. stored' \in {stored, None} /\ validated' \in {validated, None}
    BY <1>0, <1>7, Outcome DEF Timeout
  <2>4. /\ strays' = strays \cup {<<c, d, k>>}
        /\ faults < MaxFaults /\ faults' = faults + 1
        /\ UNCHANGED <<lock, record, phase, idle, made, jobs, ending>>
    BY <1>7 DEF Timeout
  <2> HIDE DEF d, k
  <2>5. TypeOK'
    BY <1>0, <2>1, <2>2, <2>3, <2>4, FaultsAssumption DEF TypeOK
  <2> QED BY <1>0, <2>1, <2>2, <2>4, <2>5, Preserved
<1>8. CASE Deadline(c)
  <2> DEFINE x == [call[c] EXCEPT !.late = TRUE]
  <2>1. x \in Call /\ x.at = call[c].at /\ x.target = call[c].target
    BY <1>0 DEF Call
  <2>2. call' = [call EXCEPT ![c] = x] /\ UNCHANGED <<daemonVars, workVars, clientVars>>
    BY <1>8 DEF Deadline, Become
  <2> HIDE DEF x
  <2>3. TypeOK'
    BY <1>0, <2>1, <2>2 DEF TypeOK, daemonVars, workVars, clientVars
  <2> QED BY <1>0, <2>1, <2>2, <2>3, Preserved DEF daemonVars, workVars
<1> QED BY <1>1, <1>2, <1>3, <1>4, <1>5, <1>6, <1>7, <1>8 DEF CallStep

\* A job or an abandoned handler changes the counts and the clock of a daemon
\* that serves, or leaves.
LEMMA WorkStepIInv ==
    ASSUME IInv,
           \/ \E w \in Work : Progress(w) \/ EndJob(w) \/ TouchEnd(w)
           \/ \E s \in Calls \X Daemons \X Kinds : CreateStray(s) \/ DropStray(s)
    PROVE  IInv'
<1>0. TypeOK
  BY DEF IInv
<1>1. ASSUME NEW w \in Work, Progress(w) \/ EndJob(w) \/ TouchEnd(w) PROVE IInv'
  <2>1. w[2] \in Daemons
    BY DEF Work
  <2>2. /\ idle' \in {idle, [idle EXCEPT ![w[2]] = FALSE]}
        /\ jobs' \in {jobs, jobs \ {w}}
        /\ ending' \in {ending, ending \cup {w}, ending \ {w}}
        /\ UNCHANGED <<lock, record, phase, faults, made, strays, call, clientVars>>
    BY <1>1 DEF Progress, EndJob, TouchEnd, Touched, daemonVars, workVars
  <2>3. TypeOK'
    BY <1>0, <2>1, <2>2 DEF TypeOK, clientVars
  <2> QED BY <1>0, <2>2, <2>3, Preserved
<1>2. ASSUME NEW s \in Calls \X Daemons \X Kinds, CreateStray(s) PROVE IInv'
  <2>1. s[1] \in Calls /\ s[2] \in Daemons /\ phase[s[2]] = "serving"
    BY <1>2 DEF CreateStray, IInv, WorkServed
  <2> DEFINE w == <<s[1], s[2]>>
  <2>2. w \in Work /\ w[2] = s[2]
    BY <2>1 DEF Work
  <2>3. /\ idle' = [idle EXCEPT ![s[2]] = FALSE]
        /\ jobs' \in {jobs, jobs \cup {w}}
        /\ made' = made \cup {w}
        /\ UNCHANGED <<lock, record, phase, faults, ending, strays, call, clientVars>>
    BY <1>2 DEF CreateStray, Reserve, Touched
  <2> HIDE DEF w
  <2>4. TypeOK'
    BY <1>0, <2>1, <2>2, <2>3 DEF TypeOK, clientVars
  <2>5. \A v \in jobs' : v \in jobs \/ phase[v[2]] = "serving"
    BY <2>1, <2>2, <2>3
  <2> QED BY <1>0, <2>3, <2>4, <2>5, Preserved
<1>3. ASSUME NEW s \in Calls \X Daemons \X Kinds, DropStray(s) PROVE IInv'
  <2>1. /\ idle' = [idle EXCEPT ![s[2]] = FALSE]
        /\ strays' = strays \ {s}
        /\ UNCHANGED <<lock, record, phase, faults, made, jobs, ending, call, clientVars>>
    BY <1>3 DEF DropStray, Touched
  <2>2. TypeOK'
    BY <1>0, <2>1 DEF TypeOK, clientVars
  <2> QED BY <1>0, <2>1, <2>2, Preserved
<1> QED BY <1>1, <1>2, <1>3

\* A step of a daemon's own.  The lock makes its writes of the record exclusive.
LEMMA DaemonStepIInv ==
    ASSUME IInv, NEW d \in Daemons, DaemonStep(d) \/ Elapse(d) \/ Kill(d)
    PROVE  IInv'
<1> USE NoneIsNoDaemon
<1>0. TypeOK /\ HoldsLock /\ RecordKept /\ WorkServed /\ phase \in [Daemons -> Phases]
  BY DEF IInv, TypeOK
<1>1. \A w \in jobs : w[2] \in Daemons
  BY <1>0 DEF TypeOK, Work
<1>2. \A s \in strays : s[2] \in Daemons
  BY <1>0 DEF TypeOK
<1>3. CASE TakeLock(d) \/ RemoveOld(d) \/ Persist(d)
  <2>0. UNCHANGED <<idle, faults, workVars, call, clientVars>>
    BY <1>3 DEF TakeLock, RemoveOld, Persist
  <2>1. TypeOK'
    BY <1>0, <1>3 DEF TakeLock, RemoveOld, Persist, Advance, TypeOK, Phases, Locked, workVars, clientVars
  <2>2. HoldsLock'
    BY <1>0, <1>3 DEF TakeLock, RemoveOld, Persist, Advance, HoldsLock, Locked
  <2>3. RecordKept'
    BY <1>0, <1>3 DEF TakeLock, RemoveOld, Persist, Advance, HoldsLock, RecordKept, Locked
  <2>4. \A e \in Daemons : phase[e] \in {"serving", "killed"} => phase'[e] = phase[e]
    BY <1>0, <1>3 DEF TakeLock, RemoveOld, Persist, Advance
  <2>5. WorkServed'
    BY <1>0, <1>1, <1>2, <2>0, <2>4 DEF WorkServed, workVars
  <2> QED BY <2>1, <2>2, <2>3, <2>5 DEF IInv
<1>4. CASE Elapse(d)
  <2>1. /\ idle' = [idle EXCEPT ![d] = TRUE]
        /\ UNCHANGED <<lock, record, phase, faults, workVars, call, clientVars>>
    BY <1>4 DEF Elapse
  <2>2. TypeOK'
    BY <1>0, <2>1 DEF TypeOK, workVars, clientVars
  <2> QED BY <2>1, <2>2, Preserved DEF workVars
<1>5. CASE Latch(d) \/ ServeEnds(d) \/ Compare(d) \/ Remove(d)
  <2>0. UNCHANGED <<idle, faults, workVars, call, clientVars>>
    BY <1>5 DEF Latch, ServeEnds, Compare, Remove
  <2>1. TypeOK'
    BY <1>0, <1>5 DEF Latch, ServeEnds, Compare, Remove, Advance, TypeOK, Phases, Locked, workVars, clientVars
  <2>2. HoldsLock'
    BY <1>0, <1>5 DEF Latch, ServeEnds, Compare, Remove, Advance, HoldsLock, Locked
  <2>3. RecordKept'
    BY <1>0, <1>5 DEF Latch, ServeEnds, Compare, Remove, Advance, HoldsLock, RecordKept, Locked
  <2>4. \A e \in Daemons \ {d} : phase'[e] = phase[e]
    BY <1>0, <1>5 DEF Latch, ServeEnds, Compare, Remove, Advance
  <2>5. /\ \A w \in jobs : w[2] # d
        /\ \A s \in strays : s[2] # d
        /\ \A c \in Calls : call[c].at = "waiting" => call[c].target # d
    <3>1. CASE Latch(d)
      <4>1. /\ \A c \in Calls : <<c, d>> \notin jobs
            /\ \A c \in Calls, k \in Kinds : <<c, d, k>> \notin strays
            /\ \A c \in Calls : ~(call[c].at = "waiting" /\ call[c].target = d)
        BY <3>1 DEF Latch, Quiet, Busy, Admitted
      <4>2. \A w \in jobs : \E c \in Calls, e \in Daemons : w = <<c, e>>
        BY <1>0 DEF TypeOK, Work
      <4>3. \A s \in strays : \E c \in Calls, e \in Daemons, k \in Kinds : s = <<c, e, k>>
        BY <1>0 DEF TypeOK
      <4> QED BY <4>1, <4>2, <4>3
    <3>2. CASE ServeEnds(d) \/ Compare(d) \/ Remove(d)
      <4>1. phase[d] \notin {"serving", "killed"}
        BY <3>2 DEF ServeEnds, Compare, Remove, Advance
      <4> QED BY <1>0, <4>1 DEF WorkServed
    <3> QED BY <1>5, <3>1, <3>2
  <2>6. WorkServed'
    BY <1>0, <1>1, <1>2, <2>0, <2>4, <2>5 DEF WorkServed, workVars
  <2> QED BY <2>1, <2>2, <2>3, <2>6 DEF IInv
<1>6. CASE Unlock(d) \/ Kill(d)
  <2>0. /\ lock' = IF lock = d THEN None ELSE lock
        /\ Vanish(d)
        /\ phase' \in {[phase EXCEPT ![d] = "exited"], [phase EXCEPT ![d] = "killed"]}
        /\ faults' \in {faults, faults + 1} /\ (faults' = faults \/ faults < MaxFaults)
        /\ UNCHANGED <<record, idle, call, clientVars>>
    BY <1>6 DEF Unlock, Kill, Advance
  <2>1. TypeOK'
    BY <1>0, <2>0, FaultsAssumption DEF TypeOK, Vanish, Phases, clientVars
  <2>2. HoldsLock' /\ RecordKept'
    BY <1>0, <2>0 DEF HoldsLock, RecordKept, Locked
  <2>3. \A e \in Daemons \ {d} : phase'[e] = phase[e]
    BY <1>0, <2>0
  <2>4. \A w \in jobs' : w \in jobs /\ w[2] # d
    BY <2>0 DEF Vanish
  <2>5. \A s \in strays' : s \in strays /\ s[2] # d
    BY <2>0 DEF Vanish
  <2>6. \A c \in Calls : call[c].at = "waiting" /\ call[c].target = d => phase'[d] = "killed"
    <3>1. CASE Unlock(d)
      <4>1. phase[d] = "unlocking"
        BY <3>1 DEF Unlock, Advance
      <4> QED BY <1>0, <4>1 DEF WorkServed
    <3>2. CASE Kill(d)
      BY <1>0, <3>2 DEF Kill
    <3> QED BY <1>6, <3>1, <3>2
  <2>7. WorkServed'
    BY <1>0, <1>1, <1>2, <2>0, <2>3, <2>4, <2>5, <2>6 DEF WorkServed
  <2> QED BY <2>1, <2>2, <2>7 DEF IInv
<1> QED BY <1>3, <1>4, <1>5, <1>6 DEF DaemonStep

LEMMA StepIInv == IInv /\ [Next]_vars => IInv'
<1> SUFFICES ASSUME IInv, [Next]_vars PROVE IInv'
  OBVIOUS
<1>1. CASE UNCHANGED vars
  BY <1>1 DEF IInv, TypeOK, HoldsLock, RecordKept, WorkServed, vars, daemonVars, workVars, clientVars
<1> QED BY <1>1, CallStepIInv, WorkStepIInv, DaemonStepIInv DEF Next

\* The inductive invariant holds in every state.
THEOREM Invariance == Spec => []IInv
<1>1. Init => IInv
  BY InitIInv
<1>2. IInv /\ [Next]_vars => IInv'
  BY StepIInv
<1> QED BY <1>1, <1>2, PTL DEF Spec

\* The types of DaemonLifecycle's variables, for the whole life of every daemon.
THEOREM TypeCorrect == Spec => []TypeOK
<1>1. IInv => TypeOK
  BY DEF IInv
<1> QED BY <1>1, Invariance, PTL

\* At most one daemon is between taking and dropping the lock: one process
\* uses the GPU, writes the record and owns the result cache.
THEOREM OneDaemon ==
    Spec => [](\A d, e \in Daemons : phase[d] \in Locked /\ phase[e] \in Locked => d = e)
<1>1. IInv => \A d, e \in Daemons : phase[d] \in Locked /\ phase[e] \in Locked => d = e
  BY DEF IInv, HoldsLock
<1> QED BY <1>1, Invariance, PTL

\* A serving daemon is the one the state record names.
THEOREM ServingIsDiscoverable == Spec => []Discoverable
<1>1. IInv => Discoverable
  BY DEF IInv, RecordKept, Discoverable
<1> QED BY <1>1, Invariance, PTL

\* No work runs or is admitted in a daemon whose idle latch is set.
THEOREM LatchedIsQuiet == Spec => []NoWorkAtShutdown
<1>1. IInv => NoWorkAtShutdown
  <2> SUFFICES ASSUME IInv, NEW d \in Daemons, phase[d] \in Latched
               PROVE  ~Busy(d) /\ ~Admitted(d)
    BY DEF NoWorkAtShutdown
  <2>1. phase[d] \notin {"serving", "killed"}
    BY DEF Latched
  <2>2. \A c \in Calls : <<c, d>> \in jobs => FALSE
    BY <2>1 DEF IInv, WorkServed
  <2>3. \A c \in Calls, k \in Kinds : <<c, d, k>> \in strays => FALSE
    BY <2>1 DEF IInv, WorkServed
  <2>4. \A c \in Calls : call[c].at = "waiting" => call[c].target # d
    BY <2>1 DEF IInv, WorkServed
  <2> QED BY <2>2, <2>3, <2>4 DEF Busy, Admitted
<1> QED BY <1>1, Invariance, PTL

=============================================================================
