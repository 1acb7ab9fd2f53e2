---------------------------- MODULE EngineProofs ----------------------------
(* Proofs about Engine, for every set of fault combinations and every      *)
(* number of starts.                                                       *)
EXTENDS Engine, TLAPS

LEMMA EngineInit == Init => EngineInv
<1> SUFFICES ASSUME Init PROVE EngineInv
  OBVIOUS
<1> USE BoundAssumption, ThreadAssumption DEF Init, Thread, Pc
<1>1. /\ pc \in [Thread -> Pc] /\ after \in [Thread -> {"start", "end"}]
      /\ fd \in [Thread -> Nat]
  OBVIOUS
<1>a. /\ is_working \in BOOLEAN /\ badwrite \in BOOLEAN /\ sticky \in BOOLEAN
      /\ byte \in BOOLEAN /\ mutex \in Thread \cup {none}
  BY Zenon
<1>b. /\ cmd \in Nat /\ saved \in Nat /\ file \in Nat
      /\ starts \in 0 .. MaxStarts /\ open \in SUBSET (1 .. starts) /\ tun \in open \cup {0}
      /\ etun \in Nat /\ want \in Nat /\ cfg \in Nat
      /\ events \in Nat /\ efd \in 0 .. events
  OBVIOUS
<1>2. TypeOK
  BY <1>1, <1>a, <1>b DEF TypeOK
<1>3. Commands /\ Locking
  BY <1>1 DEF Commands, StartPending, Locking, Stopping
<1>4. Reaches
  BY <1>1 DEF Reaches
<1>5. Owns
  BY <1>1 DEF Owns, Alive
<1> QED
  BY <1>2, <1>3, <1>4, <1>5 DEF EngineInv

(* Commands, revocation and the end of the process.                        *)
LEMMA CommandInv ==
  ASSUME EngineInv, Connect \/ Restart \/ Disconnect \/ Revoke \/ Kill
  PROVE  EngineInv'
<1> USE BoundAssumption, ThreadAssumption DEF EngineInv, TypeOK, Commands, StartPending, Locking, Reaches, Owns, Stopping, Alive, Thread, Pc, jni, engine, stop
<1>1. CASE Connect
  BY <1>1 DEF Connect, StartVpn
<1>2. CASE Restart
  BY <1>2 DEF Restart, StartVpn
<1>3. CASE Disconnect
  <2>1. TypeOK'
    BY <1>3 DEF Disconnect, StopVpn, Go
  <2>2. Commands'
    BY <1>3 DEF Disconnect, StopVpn, Go
  <2>3. Locking'
    BY <1>3 DEF Disconnect, StopVpn, Go
  <2>4. Reaches'
    BY <1>3 DEF Disconnect, StopVpn, Go
  <2>5. Owns'
    BY <1>3 DEF Disconnect, StopVpn, Go
  <2> QED
    BY <2>1, <2>2, <2>3, <2>4, <2>5
<1>4. CASE Revoke
  BY <1>4 DEF Revoke, StopVpn, Go
<1>5. CASE Kill
  <2>0. /\ pc' \in [Thread -> Pc] /\ fd' \in [Thread -> Nat]
        /\ byte' \in BOOLEAN /\ is_working' \in BOOLEAN
    BY <1>5 DEF Kill, Die
  <2>1. TypeOK'
    BY <1>5, <2>0 DEF Kill, Die
  <2>2. Commands'
    BY <1>5 DEF Kill, Die
  <2>3. Locking'
    BY <1>5 DEF Kill, Die
  <2>4. Reaches'
    BY <1>5 DEF Kill, Die
  <2>5. Owns'
    BY <1>5 DEF Kill, Die
  <2> QED
    BY <2>1, <2>2, <2>3, <2>4, <2>5
<1> QED
  BY <1>1, <1>2, <1>3, <1>4, <1>5

(* The steps of the service and of the JNI functions.                      *)
LEMMA JavaStepInv ==
  ASSUME EngineInv, NEW t \in Thread, JavaStep(t)
  PROVE  EngineInv'
<1> USE BoundAssumption, ThreadAssumption DEF EngineInv, TypeOK, Commands, StartPending, Locking, Reaches, Owns, Stopping, Alive, Thread, Pc, jni, engine, stop
<1>1. CASE Close(t)
  BY <1>1 DEF Close, Go
<1>2. CASE Establish(t)
  BY <1>2 DEF Establish, Go
<1>3. CASE EstablishFails(t)
  <2>1. TypeOK'
    BY <1>3 DEF EstablishFails, Go
  <2>2. Commands'
    BY <1>3 DEF EstablishFails, Go
  <2>3. Locking'
    BY <1>3 DEF EstablishFails, Go
  <2>4. Reaches'
    BY <1>3 DEF EstablishFails, Go
  <2>5. Owns'
    BY <1>3 DEF EstablishFails, Go
  <2> QED
    BY <2>1, <2>2, <2>3, <2>4, <2>5
<1>4. CASE WriteConfig(t)
  BY <1>4 DEF WriteConfig, Go
<1>5. CASE WriteConfigFails(t)
  <2>1. TypeOK'
    BY <1>5 DEF WriteConfigFails, Go
  <2>2. Commands'
    BY <1>5 DEF WriteConfigFails, Go
  <2>3. Locking'
    BY <1>5 DEF WriteConfigFails, Go
  <2>4. Reaches'
    BY <1>5 DEF WriteConfigFails, Go
  <2>5. Owns'
    BY <1>5 DEF WriteConfigFails, Go
  <2> QED
    BY <2>1, <2>2, <2>3, <2>4, <2>5
<1>6. CASE NullTun(t)
  <2>0. /\ pc' \in [Thread -> Pc] /\ fd' \in [Thread -> Nat]
        /\ byte' \in BOOLEAN /\ is_working' \in BOOLEAN
    BY <1>6 DEF NullTun, Die
  <2>1. TypeOK'
    BY <1>6, <2>0 DEF NullTun, Die
  <2>2. Commands'
    BY <1>6 DEF NullTun, Die
  <2>3. Locking'
    BY <1>6 DEF NullTun, Die
  <2>4. Reaches'
    BY <1>6 DEF NullTun, Die
  <2>5. Owns'
    BY <1>6 DEF NullTun, Die
  <2> QED
    BY <2>1, <2>2, <2>3, <2>4, <2>5
<1>7. CASE Start(t)
  <2>1. TypeOK'
    BY <1>7 DEF Start, Go
  <2>2. Commands'
    BY <1>7 DEF Start, Go
  <2>3. Locking'
    BY <1>7 DEF Start, Go
  <2>4. Reaches'
    BY <1>7 DEF Start, Go
  <2>5. Owns'
    BY <1>7 DEF Start, Go
  <2> QED
    BY <2>1, <2>2, <2>3, <2>4, <2>5
<1>8. CASE StartNothing(t)
  <2>1. TypeOK'
    BY <1>8 DEF StartNothing, Go
  <2>2. Commands'
    BY <1>8 DEF StartNothing, Go
  <2>3. Locking'
    BY <1>8 DEF StartNothing, Go
  <2>4. Reaches'
    BY <1>8 DEF StartNothing, Go
  <2>5. Owns'
    BY <1>8 DEF StartNothing, Go
  <2> QED
    BY <2>1, <2>2, <2>3, <2>4, <2>5
<1>9. CASE StopNothing(t)
  BY <1>9 DEF StopNothing, Go
<1>10. CASE StopLock(t)
  BY <1>10 DEF StopLock, Go
<1>11. CASE SpinEnd(t)
  BY <1>11 DEF SpinEnd, Go
<1>12. CASE Write(t)
  <2>1. TypeOK'
    BY <1>12 DEF Write, Go
  <2>2. Commands'
    BY <1>12 DEF Write, Go
  <2>3. Locking'
    BY <1>12 DEF Write, Go
  <2>4. Reaches'
    BY <1>12 DEF Write, Go
  <2>5. Owns'
    BY <1>12 DEF Write, Go
  <2> QED
    BY <2>1, <2>2, <2>3, <2>4, <2>5
<1>13. CASE Join(t)
  BY <1>13 DEF Join, Go
<1> QED
  BY <1>1, <1>2, <1>3, <1>4, <1>5, <1>6, <1>7, <1>8, <1>9, <1>10, <1>11, <1>12, <1>13 DEF JavaStep

(* The engine thread.                                                      *)
LEMMA EngineStepInv ==
  ASSUME EngineInv, EngineStep
  PROVE  EngineInv'
<1> USE BoundAssumption, ThreadAssumption DEF EngineInv, TypeOK, Commands, StartPending, Locking, Reaches, Owns, Stopping, Alive, Thread, Pc, java, jni, stop, EGo
<1>1. CASE ReadConfig
  BY <1>1 DEF ReadConfig
<1>2. CASE ReadConfigFails
  BY <1>2 DEF ReadConfigFails
<1>3. CASE InitEvent
  <2>a. events' \in Nat /\ efd' \in 0 .. events'
    BY <1>3 DEF InitEvent
  <2>b. byte' \in BOOLEAN
    BY <1>3, Zenon DEF InitEvent
  <2>0. byte' \in BOOLEAN /\ events' \in Nat /\ efd' \in 0 .. events'
    BY <2>a, <2>b
  <2>1. TypeOK'
    BY <1>3, <2>0 DEF InitEvent
  <2>2. Commands'
    BY <1>3 DEF InitEvent
  <2>3. Locking'
    BY <1>3 DEF InitEvent
  <2>4. Reaches'
    BY <1>3 DEF InitEvent
  <2>5. Owns'
    BY <1>3 DEF InitEvent
  <2> QED
    BY <2>1, <2>2, <2>3, <2>4, <2>5
<1>4. CASE TunnelInitFails
  <2>0. byte' \in BOOLEAN /\ events' \in Nat /\ efd' \in 0 .. events'
    BY <1>4 DEF TunnelInitFails
  <2>1. TypeOK'
    BY <1>4, <2>0 DEF TunnelInitFails
  <2>2. Commands'
    BY <1>4 DEF TunnelInitFails
  <2>3. Locking'
    BY <1>4 DEF TunnelInitFails
  <2>4. Reaches'
    BY <1>4 DEF TunnelInitFails
  <2>5. Owns'
    BY <1>4 DEF TunnelInitFails
  <2> QED
    BY <2>1, <2>2, <2>3, <2>4, <2>5
<1>5. CASE RunTunnel
  BY <1>5 DEF RunTunnel
<1>6. CASE Quit
  BY <1>6 DEF Quit
<1> QED
  BY <1>1, <1>2, <1>3, <1>4, <1>5, <1>6 DEF EngineStep

LEMMA EngineNext == EngineInv /\ [Next]_vars => EngineInv'
<1> SUFFICES ASSUME EngineInv, [Next]_vars PROVE EngineInv'
  OBVIOUS
<1>1. CASE UNCHANGED vars
  BY <1>1 DEF EngineInv, TypeOK, Commands, StartPending, Locking, Reaches, Owns,
              Stopping, Alive, vars, java, jni, engine, stop
<1>2. ASSUME NEW t \in Thread, Spin(t) PROVE EngineInv'
  BY <1>2, <1>1 DEF Spin
<1> QED
  BY <1>1, <1>2, CommandInv, JavaStepInv, EngineStepInv DEF Next

(* The mutex of hev-jni.c, the event descriptor and the TUN descriptor     *)
(* are used as the parts of EngineInv say, in every interleaving of the    *)
(* commands, the revocation and the engine thread.                         *)
THEOREM EngineInvariant == Spec => []EngineInv
  BY EngineInit, EngineNext, PTL DEF Spec

(* Without a revocation the engine never works on a closed TUN descriptor. *)
THEOREM TunStaysOpen == Spec => []TunIsOpen
<1>1. EngineInv => TunIsOpen
  BY DEF EngineInv, Owns, TunIsOpen, Alive
<1> QED
  BY <1>1, EngineInvariant, PTL

(* Without a revocation the engine reads the settings written for it.      *)
THEOREM ReadsOwnConfig == Spec => []ConfigIsOwn
<1>1. EngineInv => ConfigIsOwn
  BY DEF EngineInv, Owns, ConfigIsOwn
<1> QED
  BY <1>1, EngineInvariant, PTL

(* As long as the initialisation succeeds, the write of                    *)
(* hev_socks5_tunnel_stop reaches the engine, revocations included.        *)
THEOREM WriteReachesEngine == Spec => []WriteSucceeds
<1>1. EngineInv => WriteSucceeds
  BY DEF EngineInv, Reaches, WriteSucceeds
<1> QED
  BY <1>1, EngineInvariant, PTL

(* Without a revocation a completed disconnect leaves nothing behind.      *)
THEOREM DisconnectIsClean == Spec => []StoppedIsClean
<1>1. EngineInv => StoppedIsClean
  BY DEF EngineInv, Owns, StoppedIsClean
<1> QED
  BY <1>1, EngineInvariant, PTL
=============================================================================
