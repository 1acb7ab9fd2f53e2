------------------------------- MODULE Engine -------------------------------
(***************************************************************************)
(* The life of the native engine: the commands of ProxyVpnService, the JNI *)
(* entry points of hev-jni.c, and the engine thread from the reading of    *)
(* its configuration over hev_socks5_tunnel_init, run and fini to its end. *)
(* What happens inside hev_socks5_tunnel_run is in module Tunnel; here the *)
(* engine leaves it once the byte of hev_socks5_tunnel_stop has arrived.   *)
(*                                                                         *)
(* Commands come one after the other on the main thread of the service.    *)
(* onRevoke comes from the system on a thread of its own.                  *)
(***************************************************************************)
EXTENDS Integers, FiniteSets

CONSTANTS
  main, binder,   \* the threads that call into the engine
  Faults,         \* the combinations of faults to look at
  MaxStarts,      \* bound: connect commands, and times the VPN is established
  none

(* "revoke": the system may revoke the VPN; "init": the configuration or   *)
(* hev_socks5_tunnel_init may fail; "kill": the system may kill the        *)
(* process of the service.                                                 *)
Fault == {"revoke", "init", "kill"}

ASSUME BoundAssumption == Faults \subseteq SUBSET Fault /\ MaxStarts \in Nat
ASSUME ThreadAssumption == main # binder /\ none \notin {main, binder}

Thread == {main, binder}

VARIABLES
  faults,         \* the faults that may happen in this behaviour
  pc,             \* where a thread is in startVpn, stopVpn and below
  after,          \* closeCurrentVpn was called by "start" or by "end"
  cmd,            \* the settings of the current command; 0: the defaults
  saved,          \* settings the user saved last; connect commands carry them
  tun,            \* this.tun; 0: null
  open,           \* open TUN descriptors
  starts,         \* TUN descriptors so far
  file,           \* the settings in psocks.yml
  is_working, mutex,
  fd,             \* the event descriptor hev_socks5_tunnel_stop has read
  epc,            \* the engine thread: "none", "config", "init", "ready", "run", "exit"
  etun, want, cfg,  \* its TUN descriptor, the settings meant for it, those it read
  efd,            \* event_fds[1]; 0: -1
  events,         \* event descriptors so far
  byte,           \* the event socket holds a byte
  badwrite,       \* the write of hev_socks5_tunnel_stop failed
  sticky          \* the system will start a killed service again

java   == <<faults, pc, after, cmd, saved, tun, open, starts, file, sticky>>
jni    == <<is_working, mutex>>
engine == <<epc, etun, want, cfg, efd, events, byte>>
stop   == <<fd, badwrite>>
vars   == <<java, jni, engine, stop>>

Pc == {"idle", "stop", "spin", "write", "join", "close", "establish", "config", "start"}

TypeOK ==
  /\ faults \in Faults
  /\ pc \in [Thread -> Pc] /\ after \in [Thread -> {"start", "end"}]
  /\ cmd \in Nat /\ saved \in Nat /\ file \in Nat
  /\ starts \in 0 .. MaxStarts /\ open \in SUBSET (1 .. starts) /\ tun \in open \cup {0}
  /\ is_working \in BOOLEAN /\ mutex \in Thread \cup {none}
  /\ fd \in [Thread -> Nat] /\ badwrite \in BOOLEAN /\ sticky \in BOOLEAN
  /\ epc \in {"none", "config", "init", "ready", "run", "exit"}
  /\ etun \in Nat /\ want \in Nat /\ cfg \in Nat
  /\ events \in Nat /\ efd \in 0 .. events /\ byte \in BOOLEAN

Init ==
  /\ faults \in Faults
  /\ pc = [t \in Thread |-> "idle"] /\ after = [t \in Thread |-> "end"]
  /\ cmd = 0 /\ saved = 0 /\ file = 0
  /\ tun = 0 /\ open = {} /\ starts = 0
  /\ is_working = FALSE /\ mutex = none
  /\ fd = [t \in Thread |-> 0] /\ badwrite = FALSE /\ sticky = FALSE
  /\ epc = "none" /\ etun = 0 /\ want = 0 /\ cfg = 0
  /\ efd = 0 /\ events = 0 /\ byte = FALSE

-----------------------------------------------------------------------------
(* ProxyVpnService                                                         *)

Go(t, p, q) == pc[t] = p /\ pc' = [pc EXCEPT ![t] = q]

(* Mutant: startVpn does not close the VPN that exists.                    *)
StartVpn_NoClose(c) ==
  /\ pc[main] = "idle" /\ starts < MaxStarts
  /\ pc' = [pc EXCEPT ![main] = "establish"]
  /\ after' = [after EXCEPT ![main] = "start"]
  /\ cmd' = c
  /\ sticky' = TRUE
  /\ UNCHANGED <<faults, tun, open, starts, file, jni, engine, stop>>

(* startVpn: a VPN that exists is closed first.                            *)
StartVpn(c) ==
  /\ pc[main] = "idle" /\ starts < MaxStarts
  /\ pc' = [pc EXCEPT ![main] = IF tun # 0 THEN "stop" ELSE "establish"]
  /\ after' = [after EXCEPT ![main] = "start"]
  /\ cmd' = c
  /\ sticky' = TRUE
  /\ UNCHANGED <<faults, tun, open, starts, file, jni, engine, stop>>

(* The user saves his settings and connects; the intent carries them.  So  *)
(* does the intent of BootReceiver, in a new process.                      *)
Connect == saved < MaxStarts /\ saved' = saved + 1 /\ StartVpn(saved + 1)

(* The system starts the killed service again, without an intent:          *)
(* Config.fromIntent (null) returns the defaults.                          *)
Restart == sticky /\ ~is_working /\ tun = 0 /\ UNCHANGED saved /\ StartVpn(0)

(* stopVpn, after a disconnect command or in onRevoke                      *)
StopVpn(t) ==
  /\ Go(t, "idle", "stop")
  /\ after' = [after EXCEPT ![t] = "end"]
  /\ sticky' = FALSE
  /\ UNCHANGED <<faults, cmd, saved, tun, open, starts, file, jni, engine, stop>>

Disconnect == StopVpn(main)
Revoke == "revoke" \in faults /\ tun # 0 /\ StopVpn(binder)

(* Mutant: the descriptor is not closed.                                   *)
Close_Leak(t) ==
  /\ Go(t, "close", IF after[t] = "start" THEN "establish" ELSE "idle")
  /\ tun' = 0
  /\ UNCHANGED <<faults, open, after, cmd, saved, starts, file, sticky, jni, engine, stop>>

(* closeCurrentVpn, when TProxyStopService has returned                    *)
Close(t) ==
  /\ Go(t, "close", IF after[t] = "start" THEN "establish" ELSE "idle")
  /\ tun' = 0 /\ open' = open \ {tun}
  /\ UNCHANGED <<faults, after, cmd, saved, starts, file, sticky, jni, engine, stop>>

Establish(t) ==
  /\ Go(t, "establish", "config")
  /\ starts' = starts + 1
  /\ tun' = starts + 1 /\ open' = open \cup {starts + 1}
  /\ UNCHANGED <<faults, after, cmd, saved, file, sticky, jni, engine, stop>>

(* No application is allowed, or the system refuses: stopSelf.             *)
EstablishFails(t) ==
  /\ Go(t, "establish", "idle")
  /\ sticky' = FALSE
  /\ UNCHANGED <<faults, after, cmd, saved, tun, open, starts, file, jni, engine, stop>>

WriteConfig(t) ==
  /\ Go(t, "config", "start")
  /\ file' = cmd
  /\ UNCHANGED <<faults, after, cmd, saved, tun, open, starts, sticky, jni, engine, stop>>

WriteConfigFails(t) ==
  /\ Go(t, "config", "stop")
  /\ after' = [after EXCEPT ![t] = "end"]
  /\ sticky' = FALSE
  /\ UNCHANGED <<faults, cmd, saved, tun, open, starts, file, jni, engine, stop>>

(* The process ends: descriptors, threads and static variables are gone.   *)
Die ==
  /\ pc' = [t \in Thread |-> "idle"]
  /\ tun' = 0 /\ open' = {}
  /\ is_working' = FALSE /\ mutex' = none
  /\ epc' = "none" /\ etun' = 0 /\ efd' = 0 /\ byte' = FALSE
  /\ fd' = [t \in Thread |-> 0]
  /\ UNCHANGED <<faults, after, cmd, saved, starts, file, sticky, want, cfg, events, badwrite>>

Kill == "kill" \in faults /\ sticky /\ pc[main] = "idle" /\ tun # 0 /\ Die

(* startVpn: tun.getFd () after onRevoke has set tun to null.              *)
NullTun(t) == pc[t] = "start" /\ tun = 0 /\ Die

-----------------------------------------------------------------------------
(* hev-jni.c and hev_socks5_tunnel_stop                                    *)

(* native_start_service: pthread_create succeeds.                          *)
Start(t) ==
  /\ Go(t, "start", "idle") /\ tun # 0
  /\ mutex = none /\ ~is_working
  /\ is_working' = TRUE
  /\ epc' = "config" /\ etun' = tun /\ want' = cmd
  /\ UNCHANGED <<faults, after, cmd, saved, tun, open, starts, file, sticky>>
  /\ UNCHANGED <<mutex, cfg, efd, events, byte, stop>>

(* The engine is working already, or pthread_create fails.                 *)
StartNothing(t) ==
  /\ Go(t, "start", "idle") /\ tun # 0
  /\ mutex = none
  /\ UNCHANGED <<faults, after, cmd, saved, tun, open, starts, file, sticky, jni, engine, stop>>

(* native_stop_service                                                     *)
StopNothing(t) ==
  /\ Go(t, "stop", "close")
  /\ mutex = none /\ ~is_working
  /\ UNCHANGED <<faults, after, cmd, saved, tun, open, starts, file, sticky, jni, engine, stop>>

StopLock(t) ==
  /\ Go(t, "stop", "spin")
  /\ mutex = none /\ is_working
  /\ mutex' = t
  /\ UNCHANGED <<faults, after, cmd, saved, tun, open, starts, file, sticky>>
  /\ UNCHANGED <<is_working, engine, stop>>

(* hev_socks5_tunnel_stop waits for the event descriptor.                  *)
Spin(t) == pc[t] = "spin" /\ efd = 0 /\ UNCHANGED vars

(* Mutant: it does not wait.                                               *)
SpinEnd_Always(t) ==
  /\ Go(t, "spin", "write")
  /\ fd' = [fd EXCEPT ![t] = efd]
  /\ UNCHANGED <<faults, after, cmd, saved, tun, open, starts, file, sticky, jni, engine, badwrite>>

SpinEnd(t) ==
  /\ Go(t, "spin", "write") /\ efd # 0
  /\ fd' = [fd EXCEPT ![t] = efd]
  /\ UNCHANGED <<faults, after, cmd, saved, tun, open, starts, file, sticky, jni, engine, badwrite>>

(* The builds define NDEBUG, so the assertion after the write is not there *)
(* and a failed write goes on to pthread_join.                             *)
Write(t) ==
  /\ Go(t, "write", "join")
  /\ IF fd[t] = efd /\ efd # 0
     THEN byte' = TRUE /\ UNCHANGED badwrite
     ELSE badwrite' = TRUE /\ UNCHANGED byte
  /\ UNCHANGED <<faults, after, cmd, saved, tun, open, starts, file, sticky, jni, fd>>
  /\ UNCHANGED <<epc, etun, want, cfg, efd, events>>

(* Mutant: the engine thread is not joined.                                *)
Join_No(t) ==
  /\ Go(t, "join", "close")
  /\ is_working' = FALSE /\ mutex' = none
  /\ UNCHANGED <<faults, after, cmd, saved, tun, open, starts, file, sticky, engine, stop>>

(* pthread_join                                                            *)
Join(t) ==
  /\ Go(t, "join", "close") /\ epc = "exit"
  /\ epc' = "none" /\ is_working' = FALSE /\ mutex' = none
  /\ UNCHANGED <<faults, after, cmd, saved, tun, open, starts, file, sticky>>
  /\ UNCHANGED <<etun, want, cfg, efd, events, byte, stop>>

-----------------------------------------------------------------------------
(* The engine thread: hev_socks5_tunnel_main                               *)

EGo(p, q) ==
  /\ epc = p /\ epc' = q
  /\ UNCHANGED <<java, jni, stop, etun, want>>

ReadConfig ==
  /\ EGo("config", "init")
  /\ cfg' = file
  /\ UNCHANGED <<efd, events, byte>>

ReadConfigFails ==
  /\ "init" \in faults /\ EGo("config", "exit")
  /\ UNCHANGED <<cfg, efd, events, byte>>

(* Mutant: the descriptors are kept in a variable of event_task_init.      *)
InitEvent_Local ==
  /\ EGo("init", "ready")
  /\ events' = events + 1 /\ byte' = FALSE
  /\ UNCHANGED <<cfg, efd>>

(* event_task_init                                                         *)
InitEvent ==
  /\ EGo("init", "ready")
  /\ events' = events + 1 /\ efd' = events + 1 /\ byte' = FALSE
  /\ UNCHANGED cfg

(* Any step of hev_socks5_tunnel_init fails, and hev_socks5_tunnel_fini    *)
(* undoes the others.                                                      *)
TunnelInitFails ==
  /\ "init" \in faults
  /\ EGo("init", "exit") \/ EGo("ready", "exit")
  /\ efd' = 0
  /\ UNCHANGED <<cfg, events, byte>>

RunTunnel ==
  /\ EGo("ready", "run")
  /\ UNCHANGED <<cfg, efd, events, byte>>

(* The event task has read the byte and all tasks have ended;              *)
(* hev_socks5_tunnel_fini.                                                 *)
Quit ==
  /\ byte /\ EGo("run", "exit")
  /\ efd' = 0
  /\ UNCHANGED <<cfg, events, byte>>

-----------------------------------------------------------------------------
JavaStep(t) ==
  \/ Close(t) \/ Establish(t) \/ EstablishFails(t)
  \/ WriteConfig(t) \/ WriteConfigFails(t) \/ NullTun(t)
  \/ Start(t) \/ StartNothing(t) \/ StopNothing(t) \/ StopLock(t)
  \/ SpinEnd(t) \/ Write(t) \/ Join(t)

EngineStep ==
  \/ ReadConfig \/ ReadConfigFails \/ InitEvent \/ TunnelInitFails
  \/ RunTunnel \/ Quit

Next ==
  \/ Connect \/ Restart \/ Disconnect \/ Revoke \/ Kill
  \/ \E t \in Thread : JavaStep(t) \/ Spin(t)
  \/ EngineStep

Spec == Init /\ [][Next]_vars

(* Threads run.                                                            *)
FairSpec ==
  /\ Spec
  /\ \A t \in Thread : WF_vars(JavaStep(t))
  /\ WF_vars(EngineStep)

-----------------------------------------------------------------------------
(* Properties.                                                             *)

Alive == epc \in {"config", "init", "ready", "run"}

(* The engine never works on a TUN descriptor that the service has closed: *)
(* its number may belong to another file by then.  onRevoke, on its own    *)
(* thread, may break it.                                                   *)
TunIsOpen == "revoke" \notin faults => (Alive => etun \in open)

(* The engine reads the settings written for it, although the file is      *)
(* written again by the next command and read by another thread.           *)
ConfigIsOwn ==
  "revoke" \notin faults => (epc \in {"init", "ready", "run"} => cfg = want)

(* The assertion of hev_socks5_tunnel_stop: its write reaches an engine,   *)
(* not a descriptor that was closed between the read of event_fds[1] and   *)
(* the write.  A failing initialisation may break it.                      *)
WriteSucceeds == "init" \notin faults => ~badwrite

(* When the last command was a disconnect and has returned, no engine      *)
(* thread and no TUN descriptor is left.                                   *)
StoppedIsClean ==
  "revoke" \notin faults =>
    (pc[main] = "idle" /\ after[main] = "end" => epc = "none" /\ open = {})

(* TProxyStopService returns, so every stop command comes to its end.      *)
StopReturns == \A t \in Thread : pc[t] = "stop" ~> pc[t] = "idle"

(* The same as long as the initialisation of the engine succeeds, whatever *)
(* is revoked or killed in between.                                        *)
UpStopReturns == "init" \notin faults => StopReturns

-----------------------------------------------------------------------------
(* What the safety properties rest on.                                     *)

Stopping == {"spin", "write", "join"}

(* onRevoke only stops; a start command under way knows that it is one and *)
(* has its TUN descriptor still to come.                                   *)
StartPending ==
  \/ pc[main] = "establish"
  \/ pc[main] \in {"stop", "close"} \cup Stopping /\ after[main] = "start"

Commands ==
  /\ after[binder] = "end" /\ pc[binder] \in {"idle", "stop", "close"} \cup Stopping
  /\ StartPending => starts < MaxStarts
  /\ pc[main] \in {"establish", "config", "start"} => after[main] = "start"

(* The JNI mutex is held exactly during a stop, and only for an engine     *)
(* that was started and not joined.                                        *)
Locking ==
  /\ \A t \in Thread : pc[t] \in Stopping <=> mutex = t
  /\ is_working <=> epc # "none"
  /\ mutex # none => is_working
  /\ efd # 0 <=> epc \in {"ready", "run"}

(* As long as the initialisation succeeds, the engine only ends after the  *)
(* write of the stop that waits for it.                                    *)
Reaches ==
  "init" \notin faults =>
    /\ ~badwrite
    /\ \A t \in Thread : pc[t] = "write" => fd[t] = efd /\ efd # 0
    /\ epc = "exit" \/ (byte /\ efd # 0) => \E t \in Thread : pc[t] = "join"

(* Without a revocation there is at most one TUN descriptor, the engine    *)
(* works on it, and psocks.yml holds its settings until it has read them.  *)
Owns ==
  "revoke" \notin faults =>
    /\ pc[binder] = "idle"
    /\ open = {tun} \ {0}
    /\ tun = 0 => epc = "none"
    /\ Alive => etun = tun
    /\ epc = "config" => file = want
    /\ epc \in {"init", "ready", "run"} => cfg = want
    /\ pc[main] \in {"close", "establish", "config", "start"} => epc = "none"
    /\ pc[main] = "establish" => tun = 0
    /\ pc[main] \in {"config", "start"} => tun # 0
    /\ pc[main] = "start" => file = cmd
    /\ pc[main] = "idle" /\ after[main] = "end" => tun = 0

(* The inductive invariant.                                                *)
EngineInv == TypeOK /\ Commands /\ Locking /\ Reaches /\ Owns
=============================================================================
