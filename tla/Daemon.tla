-------------------------------- MODULE Daemon --------------------------------
(***************************************************************************)
(* The life of the daemon: main() loads the configuration, starts the poll *)
(* threads, the CMOS bridge with its publisher and subscriber threads and  *)
(* the alarm monitor, waits for a signal and stops everything in the       *)
(* reverse order of its dependencies.  The publisher is CmosPub; the poll  *)
(* threads, the subscriber and the monitor are outlines of InverterUnit,   *)
(* CmosSub and AlarmMonitor that keep what the shutdown depends on: their  *)
(* loop flags, the mutex of each command queue and the alarm database.     *)
(***************************************************************************)
EXTENDS CmosPub

CONSTANTS
  Configs,     \* INVERTER arrays: sequences of [enabled, profile]
  MaxUnits,    \* MAX_INVERTER_COUNT
  NumKeys      \* registers published per inverter

ASSUME DaemonAssumption == MaxUnits \in Nat /\ NumKeys \in Nat

VARIABLES
  main,        \* where main() is
  inverters,   \* global_config.inverter
  k,           \* index of main's loops
  bridgeUp,    \* history: inverter_cmos_bridge_start() returned 0
  gRunning,    \* g_running of main.c
  bRunning,    \* g_bridge_running
  aRunning,    \* g_running of alarm_bridge.c
  units,       \* inverter_units: sequence of [th, running, lock]
  pub,         \* publisher thread; "joined" once UndoPub waited for it
  key,         \* publications left in its turn
  sub,         \* subscriber thread: also the unit whose lock it wants or has
  cancel,      \* pthread_cancel() was called
  alarm,       \* monitor thread
  db           \* g_db is open

mainVars == <<main, inverters, k, bridgeUp, gRunning>>
flags == <<bRunning, aRunning>>
vars == <<mainVars, flags, units, pub, key, sub, cancel, alarm, db, pubVars>>

Gone == {"none", "ended", "joined"}
Dead == {"exited", "crashed", "done"}
Idle == [th |-> "none", unit |-> 0]

\* load_inverter_config(): the enabled entries, up to the limit.
Loaded(array) ==
  LET enabled == SelectSeq(array, LAMBDA e : e.enabled)
  IN  SubSeq(enabled, 1, IF Len(enabled) > MaxUnits THEN MaxUnits ELSE Len(enabled))

-----------------------------------------------------------------------------
(* main() up to pause().                                                   *)

Goto(from, to) == main = from /\ main' = to

\* load_json_config(), then the handlers are set.  A file that cannot be read
\* or a signal before that ends the process.
Configure ==
  /\ main = "config"
  /\ \/ /\ main' = "units"
        /\ \E array \in Configs : inverters' = Loaded(array)
     \/ /\ main' = "exited"
        /\ UNCHANGED inverters
  /\ UNCHANGED <<k, bridgeUp, gRunning, flags, units, pub, key, sub, cancel, alarm,
                 db, pubVars>>

\* One turn of start_inverter_modules(): without a profile, or when the thread
\* cannot be created, the entry of inverter_units is not kept.
StartUnit ==
  /\ main = "units"
  /\ k <= Len(inverters)
  /\ \/ /\ inverters[k].profile
        /\ units' = Append(units, [th |-> "top", running |-> TRUE, lock |-> "free"])
     \/ UNCHANGED units
  /\ k' = k + 1
  /\ UNCHANGED <<main, inverters, bridgeUp, gRunning, flags, pub, key, sub, cancel,
                 alarm, db, pubVars>>

\* inverter_cmos_bridge_start(): cmos_pub_init()
StartPub ==
  /\ main = "units"
  /\ k > Len(inverters)
  /\ k' = 1
  /\ \/ main' = "pubthread" /\ InitOk /\ bRunning' = TRUE
     \/ main' = "alarm" /\ InitFails /\ UNCHANGED bRunning
  /\ UNCHANGED <<inverters, bridgeUp, gRunning, aRunning, units, pub, key, sub, cancel,
                 alarm, db>>

\* its first pthread_create()
StartPubThread ==
  /\ main = "pubthread"
  /\ \/ main' = "subthread" /\ pub' = "poll" /\ UNCHANGED <<bRunning, pubVars>>
     \/ main' = "alarm" /\ bRunning' = FALSE /\ Close /\ UNCHANGED pub
  /\ UNCHANGED <<inverters, k, bridgeUp, gRunning, aRunning, units, key, sub, cancel,
                 alarm, db>>

\* Mutant: the failure is not reported.
StartSubThreadSilent ==
  /\ main = "subthread"
  /\ \/ main' = "alarm" /\ sub' = [Idle EXCEPT !.th = "create"] /\ UNCHANGED bRunning
     \/ main' = "undo" /\ bRunning' = FALSE /\ UNCHANGED sub
  /\ bridgeUp' = TRUE
  /\ UNCHANGED <<inverters, k, gRunning, aRunning, units, pub, key, cancel, alarm, db,
                 pubVars>>

\* its second pthread_create()
StartSubThread ==
  /\ main = "subthread"
  /\ \/ /\ main' = "alarm"
        /\ sub' = [Idle EXCEPT !.th = "create"]
        /\ bridgeUp' = TRUE
        /\ UNCHANGED bRunning
     \/ /\ main' = "undo"
        /\ bRunning' = FALSE
        /\ UNCHANGED <<sub, bridgeUp>>
  /\ UNCHANGED <<inverters, k, gRunning, aRunning, units, pub, key, cancel, alarm, db,
                 pubVars>>

\* without the subscriber the publisher is joined and closed again
UndoPub ==
  /\ Goto("undo", "alarm")
  /\ pub = "ended"
  /\ pub' = "joined"
  /\ Close
  /\ UNCHANGED <<inverters, k, bridgeUp, gRunning, flags, units, key, sub, cancel,
                 alarm, db>>

\* alarm_bridge_start()
StartAlarm ==
  /\ Goto("alarm", "test")
  /\ \/ aRunning' = TRUE /\ alarm' = "pass"
     \/ UNCHANGED <<aRunning, alarm>>
  /\ UNCHANGED <<inverters, k, bridgeUp, gRunning, bRunning, units, pub, key, sub,
                 cancel, db, pubVars>>

\* while (g_running) pause(): a signal after the test does not end the pause
Wait ==
  /\ \/ Goto("test", IF gRunning THEN "entering" ELSE "stop")
     \/ Goto("entering", "paused")
  /\ UNCHANGED <<inverters, k, bridgeUp, gRunning, flags, units, pub, key, sub, cancel,
                 alarm, db, pubVars>>

\* signal_handler(), on the main thread
Signal ==
  /\ main \notin Dead \cup {"config"}
  /\ gRunning' = FALSE
  /\ main' = IF main = "paused" THEN "test" ELSE main
  /\ UNCHANGED <<inverters, k, bridgeUp, flags, units, pub, key, sub, cancel, alarm, db,
                 pubVars>>

-----------------------------------------------------------------------------
(* main() after pause().                                                   *)

\* alarm_bridge_stop()
StopAlarm ==
  /\ \/ Goto("stop", "joinalarm") /\ aRunning
     \/ Goto("stop", "bridge") /\ ~aRunning
     \/ Goto("joinalarm", "bridge") /\ alarm = "ended"
  /\ aRunning' = FALSE
  /\ UNCHANGED <<inverters, k, bridgeUp, gRunning, bRunning, units, pub, key, sub,
                 cancel, alarm, db, pubVars>>

\* inverter_cmos_bridge_stop(): to cancel a thread that was never created is
\* undefined; the process crashes or the call returns an error.
StopBridge ==
  /\ main = "bridge"
  /\ bRunning' = FALSE
  /\ cancel' = TRUE
  /\ \/ main' = "joinsub"
     \/ main' = "crashed" /\ sub.th = "none"
  /\ UNCHANGED <<inverters, k, bridgeUp, gRunning, aRunning, units, pub, key, sub, alarm,
                 db, pubVars>>

\* Mutant: the subscriber is cancelled and not waited for.
JoinSubSkipped ==
  /\ Goto("joinsub", "joinpub")
  /\ UNCHANGED <<inverters, k, bridgeUp, gRunning, flags, units, pub, key, sub, cancel,
                 alarm, db, pubVars>>

\* to join a thread that does not exist, or was joined, is undefined as well
JoinSub ==
  /\ \/ Goto("joinsub", "joinpub") /\ sub.th \in Gone
     \/ Goto("joinsub", "crashed") /\ sub.th = "none"
  /\ UNCHANGED <<inverters, k, bridgeUp, gRunning, flags, units, pub, key, sub, cancel,
                 alarm, db, pubVars>>

JoinPub ==
  /\ \/ Goto("joinpub", "units_stop") /\ pub \in Gone /\ Close
     \/ Goto("joinpub", "crashed") /\ pub \in {"none", "joined"} /\ UNCHANGED pubVars
  /\ UNCHANGED <<inverters, k, bridgeUp, gRunning, flags, units, pub, key, sub, cancel,
                 alarm, db>>

\* stop_inverter_modules(): clear the flags, then join and destroy one by one
StopUnits ==
  /\ Goto("units_stop", "units_join")
  /\ units' = [u \in DOMAIN units |-> [units[u] EXCEPT !.running = FALSE]]
  /\ k' = 1
  /\ UNCHANGED <<inverters, bridgeUp, gRunning, flags, pub, key, sub, cancel, alarm, db,
                 pubVars>>

JoinUnit ==
  /\ main = "units_join"
  /\ \/ /\ k <= Len(units)
        /\ units[k].th = "ended"
        /\ units' = [units EXCEPT ![k].lock = "destroyed"]
        /\ k' = k + 1
        /\ UNCHANGED main
     \/ /\ k > Len(units)
        /\ main' = "closedb"
        /\ UNCHANGED <<units, k>>
  /\ UNCHANGED <<inverters, bridgeUp, gRunning, flags, pub, key, sub, cancel, alarm, db,
                 pubVars>>

\* inverter_alarm_manager_close()
CloseDb ==
  /\ Goto("closedb", "done")
  /\ db' = FALSE
  /\ UNCHANGED <<inverters, k, bridgeUp, gRunning, flags, units, pub, key, sub, cancel,
                 alarm, pubVars>>

Main == \/ Configure \/ StartUnit \/ StartPub \/ StartPubThread \/ StartSubThread
        \/ UndoPub \/ StartAlarm \/ Wait
        \/ StopAlarm \/ StopBridge \/ JoinSub \/ JoinPub \/ StopUnits \/ JoinUnit
        \/ CloseDb

-----------------------------------------------------------------------------
(* The other threads; they end with the process.                           *)

Alive == main \notin Dead

\* inverter_rtu_thread(): queue_pop() waits for the mutex of the queue
UnitThread(u) ==
  /\ Alive
  /\ LET unit == units[u]
     IN  \/ /\ unit.th = "top"
            /\ ~unit.running
            /\ units' = [units EXCEPT ![u].th = "ended"]
         \/ /\ unit.th = "top"
            /\ unit.running
            /\ units' = [units EXCEPT ![u].th = "lock"]
         \/ /\ unit.th = "lock"
            /\ unit.lock = "free"
            /\ units' = [units EXCEPT ![u].th = "pop", ![u].lock = "poll"]
         \/ /\ unit.th = "pop"
            /\ units' = [units EXCEPT ![u].th = "top", ![u].lock = "free"]
  /\ UNCHANGED <<mainVars, flags, pub, key, sub, cancel, alarm, db, pubVars>>

\* cmos_sub_thread(): without the master it ends; a command goes to a unit.  A
\* request to cancel it waits for the next cancellation point.
SubSpins ==
  /\ Alive
  /\ \/ sub.th = "create" /\ sub' \in {[sub EXCEPT !.th = "spin"], [sub EXCEPT !.th = "ended"]}
     \/ sub.th = "spin" /\ \E u \in DOMAIN units : sub' = [th |-> "lock", unit |-> u]
  /\ UNCHANGED <<mainVars, flags, units, pub, key, cancel, alarm, db, pubVars>>

\* queue_push(): neither the lock nor what it protects can be cancelled
SubLocks ==
  /\ Alive
  /\ sub.th = "lock"
  /\ units[sub.unit].lock = "free"
  /\ units' = [units EXCEPT ![sub.unit].lock = "sub"]
  /\ sub' = [sub EXCEPT !.th = "push"]
  /\ UNCHANGED <<mainVars, flags, pub, key, cancel, alarm, db, pubVars>>

SubUnlocks ==
  /\ Alive
  /\ sub.th = "push"
  /\ units' = [units EXCEPT ![sub.unit].lock = "free"]
  /\ sub' = [Idle EXCEPT !.th = "spin"]
  /\ UNCHANGED <<mainVars, flags, pub, key, cancel, alarm, db, pubVars>>

\* Mutant: the thread can be cancelled while it holds the mutex.
SubCancelledAnywhere ==
  /\ Alive
  /\ cancel
  /\ sub.th \in {"create", "spin", "push"}
  /\ sub' = [Idle EXCEPT !.th = "ended"]
  /\ UNCHANGED <<mainVars, flags, units, pub, key, cancel, alarm, db, pubVars>>

\* The cancellation points are in cmos_sub_create() and cmos_sub_spin_ctx().
SubCancelled ==
  /\ Alive
  /\ cancel
  /\ sub.th \in {"create", "spin"}
  /\ sub' = [Idle EXCEPT !.th = "ended"]
  /\ UNCHANGED <<mainVars, flags, units, pub, key, cancel, alarm, db, pubVars>>

\* cmos_pub_poll_thread()
PubThread ==
  /\ Alive
  /\ \/ /\ pub = "poll"
        /\ bRunning
        /\ Poll
        /\ pub' = "turn"
        /\ key' = Len(inverters) * NumKeys
     \/ /\ pub = "poll"
        /\ ~bRunning
        /\ pub' = "ended"
        /\ UNCHANGED <<key, pubVars>>
     \/ /\ pub = "turn"
        /\ key > 0
        /\ pub' = "send"
        /\ key' = key - 1
        /\ UNCHANGED pubVars
     \/ /\ pub = "turn"
        /\ key = 0
        /\ pub' = "poll"
        /\ UNCHANGED <<key, pubVars>>
     \/ /\ pub = "send"
        /\ SendOk \/ SendFails
        /\ UNCHANGED <<pub, key>>
     \/ /\ pub = "send"
        /\ PublishEnds
        /\ pub' = "turn"
        /\ UNCHANGED key
  /\ UNCHANGED <<mainVars, flags, units, sub, cancel, alarm, db>>

\* alarm_monitor_thread(): an event opens the database if it is closed.
AlarmThread ==
  /\ Alive
  /\ \/ alarm = "pass" /\ aRunning /\ alarm' = "event" /\ db' \in {TRUE, db}
     \/ alarm = "pass" /\ ~aRunning /\ alarm' = "ended" /\ UNCHANGED db
     \/ alarm = "event" /\ alarm' = "pass" /\ UNCHANGED db
  /\ UNCHANGED <<mainVars, flags, units, pub, key, sub, cancel, pubVars>>

Environment ==
  /\ Alive
  /\ Peers
  /\ UNCHANGED <<mainVars, flags, units, pub, key, sub, cancel, alarm, db>>

Terminated == ~Alive /\ UNCHANGED vars

-----------------------------------------------------------------------------
Init ==
  /\ main = "config"
  /\ inverters = <<>>
  /\ k = 1
  /\ bridgeUp = FALSE
  /\ gRunning = TRUE
  /\ bRunning = FALSE
  /\ aRunning = FALSE
  /\ units = <<>>
  /\ pub = "none"
  /\ key = 0
  /\ sub = Idle
  /\ cancel = FALSE
  /\ alarm = "none"
  /\ db = FALSE
  /\ PubInitial

Subscriber == SubSpins \/ SubLocks \/ SubUnlocks \/ SubCancelled

Next ==
  \/ Main \/ Signal
  \/ \E u \in DOMAIN units : UnitThread(u)
  \/ Subscriber \/ PubThread \/ AlarmThread
  \/ Environment
  \/ Terminated

Spec == Init /\ [][Next]_vars

\* Every thread is scheduled.  The poll thread sleeps for its poll interval
\* between two drains, so a subscriber that waits for the mutex gets it.  The
\* subscriber passes a cancellation point, epoll_wait() or recv(), when the
\* lines of its buffer are handled.
FairSpec ==
  /\ Spec
  /\ WF_vars(Main)
  /\ \A u \in 1 .. MaxUnits : WF_vars(u \in DOMAIN units /\ UnitThread(u))
  /\ WF_vars(Subscriber) /\ SF_vars(SubLocks) /\ SF_vars(SubCancelled)
  /\ WF_vars(PubThread)
  /\ WF_vars(AlarmThread)

-----------------------------------------------------------------------------
(* Properties.                                                             *)

\* Nothing is closed or destroyed under a thread that uses it, whichever part
\* failed to start and whenever the signal came, and a finished shutdown has
\* joined every thread and closed every descriptor and the database.
ResourceLifetimes ==
  /\ pub \notin Gone => fds = Fds
  /\ \A u \in DOMAIN units :
       units[u].lock = "destroyed" => units[u].th = "ended" /\ sub.th \in Gone
  /\ main = "done" => /\ {pub, sub.th, alarm} \subseteq Gone
                      /\ \A u \in DOMAIN units : units[u].th = "ended"
                      /\ fds = {} /\ subs = <<>> /\ ~db

\* If the bridge came up, the shutdown cancels and joins only threads that
\* exist and were not joined before.
CrashNeedsFailedBridge == main = "crashed" => ~bridgeUp

\* cmos_publish() hands one line to every subscriber of its list exactly once,
\* also when it drops others on the way.
EveryoneGetsEach ==
  pub = "send" =>
    \A j \in DOMAIN subs : got[subs[j]] = IF j < at THEN 1 ELSE 0

\* Once a signal is noticed the daemon stops, provided that no subscriber
\* leaves its buffers full for ever: no thread waits for a mutex that nobody
\* releases or misses the flag that ends it.  A signal that arrives between
\* the test of g_running and pause() is not noticed until the next one.
ShutdownCompletes ==
  (\A c \in Clients : []<>(peer[c] # "full"))
    => (~gRunning /\ main \notin {"entering", "paused"} ~> main \in Dead)

=============================================================================
