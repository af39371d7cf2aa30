---------------------------- MODULE Loader_proofs ----------------------------
(***************************************************************************)
(* Theorems about Loader, for any number of loaders, interfaces, socket    *)
(* paths and configuration files, and any way in which loaders overlap.    *)
(***************************************************************************)
EXTENDS Loader, TLAPS

-----------------------------------------------------------------------------
(***************************************************************************)
(* The configuration: reading a file over a configuration, overriding it   *)
(* by the command line and taking it over at run time give configurations. *)
(***************************************************************************)
LEMMA Keys == Key = {"ifname", "mode", "socket", "log", "interval", "daemon"}
BY DEF Key, Field

LEMMA Fields ==
    /\ Field["ifname"] = If /\ Field["mode"] = Mode /\ Field["socket"] = Path
    /\ Field["log"] = {"file", "unwritable"}
    /\ Field["interval"] = 1..3600 /\ Field["daemon"] = 0..1
BY DEF Field

LEMMA ConfigIsMap ==
    ASSUME NEW g, g = [k \in Key |-> g[k]], \A k \in Key : g[k] \in Field[k]
    PROVE  g \in Config
<1>1. g = [ifname |-> g["ifname"], mode |-> g["mode"], socket |-> g["socket"],
           log |-> g["log"], interval |-> g["interval"], daemon |-> g["daemon"]]
  BY Keys
<1>2. /\ g["ifname"] \in If /\ g["mode"] \in Mode /\ g["socket"] \in Path
      /\ g["log"] \in {"file", "unwritable"}
  BY Keys, Fields
<1>3. g["interval"] \in 1..3600 /\ g["daemon"] \in 0..1
  BY Keys, Fields
<1> QED
  BY <1>1, <1>2, <1>3 DEF Config

LEMMA ConfigFields ==
    ASSUME NEW c \in Config, NEW k \in Key
    PROVE  c[k] \in Field[k]
BY Keys, Fields DEF Config

LEMMA OverlayIsConfig ==
    ASSUME NEW f \in ConfigFile \cup {NoFile}, NEW c \in Config
    PROVE  Overlay(f, c) \in Config
<1> DEFINE g == Overlay(f, c)
<1>1. CASE f.kind = "missing"
  BY <1>1 DEF Overlay
<1>2. CASE f.kind # "missing"
  <2>1. f \in ConfigFile
    BY <1>2 DEF NoFile
  <2>2. \A k \in DOMAIN f.set : f.set[k] \in Field[k]
    BY <2>1, LoaderAssumption
  <2>3. g = [k \in Key |-> IF k \in DOMAIN f.set THEN f.set[k] ELSE c[k]]
    BY <1>2 DEF Overlay
  <2> HIDE DEF g
  <2>4. \A k \in Key : g[k] \in Field[k]
    BY <2>2, <2>3, ConfigFields
  <2>5. g = [k \in Key |-> g[k]]
    BY <2>3
  <2>6. g \in Config
    BY <2>4, <2>5, ConfigIsMap
  <2> QED
    BY <2>6 DEF g
<1> QED
  BY <1>1, <1>2

LEMMA OverriddenIsConfig ==
    ASSUME NEW c \in Config, NEW a \in CliArgs
    PROVE  Overridden(c, a) \in Config
<1> DEFINE g == Overridden(c, a)
<1>1. a.ifname \in If \cup {None} /\ a.daemon \in {-1, 1}
  BY LoaderAssumption
<1>2. g = [k \in Key |-> g[k]]
  BY DEF Overridden
<1>3. \A k \in Key : g[k] \in Field[k]
  <2> TAKE k \in Key
  <2>1. CASE k = "ifname" /\ a.ifname # None
    BY <1>1, <2>1, Fields DEF Overridden
  <2>2. CASE k = "daemon" /\ a.daemon >= 0
    BY <1>1, <2>2, Fields DEF Overridden
  <2>3. CASE ~(k = "ifname" /\ a.ifname # None) /\ ~(k = "daemon" /\ a.daemon >= 0)
    <3>1. g[k] = c[k]
      BY <2>3 DEF Overridden
    <3> QED
      BY <3>1, ConfigFields
  <2> QED
    BY <2>1, <2>2, <2>3
<1> HIDE DEF g
<1>4. g \in Config
  BY <1>2, <1>3, ConfigIsMap
<1> QED
  BY <1>4 DEF g

\* Hot reload takes over the rest and keeps the interface, mode and socket.
LEMMA HotSwitchKeeps ==
    ASSUME NEW new \in Config, NEW old \in Config
    PROVE  /\ HotSwitch(new, old) \in Config
           /\ HotSwitch(new, old).ifname = old.ifname
           /\ HotSwitch(new, old).mode = old.mode
           /\ HotSwitch(new, old).socket = old.socket
<1> DEFINE g == HotSwitch(new, old)
<1>1. g = [k \in Key |-> g[k]]
  BY DEF HotSwitch
<1>2. \A k \in Key : g[k] \in Field[k]
  BY ConfigFields DEF HotSwitch
<1>3. g["ifname"] = old["ifname"] /\ g["mode"] = old["mode"] /\ g["socket"] = old["socket"]
  BY Keys DEF HotSwitch
<1> HIDE DEF g
<1>4. g \in Config
  BY <1>1, <1>2, ConfigIsMap
<1> QED
  BY <1>3, <1>4 DEF g

LEMMA RemovedIsHook ==
    ASSUME NEW h, NEW m
    PROVE  Removed(h, m) \in {h, None}
BY DEF Removed

-----------------------------------------------------------------------------
(***************************************************************************)
(* Type correctness.                                                       *)
(***************************************************************************)
LEMMA NoneIsNew ==
    None \notin If /\ None \notin Proc /\ None \notin [owner : Proc, mode : Mode]
BY LoaderAssumption

LEMMA TypeInit == Init => TypeOK
<1> SUFFICES ASSUME Init PROVE TypeOK
  OBVIOUS
<1>1. MachineTypes
  BY LoaderAssumption DEF Init, MachineTypes
<1>2. ControlTypes
  BY DEF Init, ControlTypes, Labels, Early, Startup, Loop, Cleanup, Over
<1>3. ConfigTypes
  BY LoaderAssumption DEF Init, ConfigTypes
<1>4. OtherTypes
  BY DEF Init, OtherTypes
<1> QED
  BY <1>1, <1>2, <1>3, <1>4 DEF TypeOK

\* What the steps of a loader have in common.
LEMMA ConfigOf ==
    ASSUME TypeOK, NEW p \in Proc
    PROVE  /\ cfg[p] \in Config
           /\ cfg[p].ifname \in If /\ cfg[p].mode \in Mode /\ cfg[p].socket \in Path
           /\ Overlay(FileSeen(p), cfg[p]) \in Config
           /\ Overlay(FileSeen(p), DefaultConfig) \in Config
           /\ Slot(cfg[p].mode) \in Mode
<1>1. cfg[p] \in Config /\ DefaultConfig \in Config
  BY LoaderAssumption DEF TypeOK, ConfigTypes
<1>2. /\ cfg[p].ifname \in If /\ cfg[p].mode \in Mode /\ cfg[p].socket \in Path
  BY <1>1 DEF Config
<1>3. FileSeen(p) \in ConfigFile \cup {NoFile}
  BY DEF TypeOK, MachineTypes, FileSeen
<1> QED
  BY <1>1, <1>2, <1>3, OverlayIsConfig DEF Slot, Mode

LEMMA StepMachineTypes ==
    ASSUME TypeOK, NEW p \in Proc, Step(p)
    PROVE  MachineTypes'
<1> USE DEF At, Goto, Set, MachineTypes, os
<1>0. MachineTypes /\ ControlTypes
  BY DEF TypeOK
<1>1. CASE LoadConfig(p)
  BY <1>0, <1>1, ConfigOf DEF LoadConfig
<1>2. CASE Daemonize(p)
  BY <1>0, <1>2, ConfigOf DEF Daemonize
<1>3. CASE OpenLog(p)
  BY <1>0, <1>3, ConfigOf DEF OpenLog
<1>4. CASE UnlinkOld(p)
  BY <1>0, <1>4, ConfigOf DEF UnlinkOld
<1>5. CASE Bind(p)
  BY <1>0, <1>5, ConfigOf DEF Bind
<1>6. CASE Listen(p)
  BY <1>0, <1>6, ConfigOf DEF Listen, Unlinked
<1>7. CASE LoadBpf(p)
  BY <1>0, <1>7, ConfigOf DEF LoadBpf
<1>8. CASE Attach(p)
  BY <1>0, <1>8, ConfigOf DEF Attach, ControlTypes, Accepts
<1>9. CASE SetupRing(p)
  BY <1>0, <1>9, ConfigOf DEF SetupRing
<1>10. CASE CheckExit(p)
  BY <1>0, <1>10, ConfigOf DEF CheckExit
<1>11. CASE CheckReload(p)
  BY <1>0, <1>11, ConfigOf DEF CheckReload
<1>12. CASE Reread(p)
  BY <1>0, <1>12, ConfigOf DEF Reread
<1>13. CASE Poll(p)
  BY <1>0, <1>13, ConfigOf DEF Poll
<1>14. CASE Detach(p)
  BY <1>0, <1>14, ConfigOf DEF Detach, MustDetach, Removed
<1>15. CASE Close(p)
  BY <1>0, <1>15, ConfigOf DEF Close
<1>16. CASE Unlink(p)
  BY <1>0, <1>16, ConfigOf DEF Unlink, Unlinked
<1> QED
  BY <1>1, <1>2, <1>3, <1>4, <1>5, <1>6, <1>7, <1>8,
     <1>9, <1>10, <1>11, <1>12, <1>13, <1>14, <1>15, <1>16 DEF Step

LEMMA StepControlTypes ==
    ASSUME TypeOK, NEW p \in Proc, Step(p)
    PROVE  ControlTypes'
<1> USE DEF At, Goto, Set, ControlTypes, held, flags, Labels, Early, Startup, Loop, Cleanup, Over
<1>0. ControlTypes /\ ConfigTypes
  BY DEF TypeOK
<1>1. CASE LoadConfig(p)
  BY <1>0, <1>1 DEF LoadConfig
<1>2. CASE Daemonize(p)
  BY <1>0, <1>2 DEF Daemonize
<1>3. CASE OpenLog(p)
  BY <1>0, <1>3 DEF OpenLog
<1>4. CASE UnlinkOld(p)
  BY <1>0, <1>4 DEF UnlinkOld
<1>5. CASE Bind(p)
  BY <1>0, <1>5 DEF Bind
<1>6. CASE Listen(p)
  BY <1>0, <1>6 DEF Listen
<1>7. CASE LoadBpf(p)
  BY <1>0, <1>7, ConfigOf, NoneIsNew DEF LoadBpf
<1>8. CASE Attach(p)
  BY <1>0, <1>8 DEF Attach, Accepts
<1>9. CASE SetupRing(p)
  BY <1>0, <1>9 DEF SetupRing
<1>10. CASE CheckExit(p)
  BY <1>0, <1>10 DEF CheckExit
<1>11. CASE CheckReload(p)
  BY <1>0, <1>11 DEF CheckReload
<1>12. CASE Reread(p)
  BY <1>0, <1>12 DEF Reread
<1>13. CASE Poll(p)
  BY <1>0, <1>13 DEF Poll
<1>14. CASE Detach(p)
  BY <1>0, <1>14 DEF Detach
<1>15. CASE Close(p)
  BY <1>0, <1>15 DEF Close
<1>16. CASE Unlink(p)
  BY <1>0, <1>16 DEF Unlink
<1> QED
  BY <1>1, <1>2, <1>3, <1>4, <1>5, <1>6, <1>7, <1>8,
     <1>9, <1>10, <1>11, <1>12, <1>13, <1>14, <1>15, <1>16 DEF Step

LEMMA StepConfigTypes ==
    ASSUME TypeOK, NEW p \in Proc, Step(p)
    PROVE  ConfigTypes'
<1> USE DEF At, Goto, Set, ConfigTypes
<1>0. ConfigTypes /\ pc \in [Proc -> Labels]
  BY DEF TypeOK, ControlTypes
<1>1. CASE LoadConfig(p)
  <2>1. args[p] \in CliArgs
    BY <1>0, <1>1 DEF LoadConfig
  <2>2. Overridden(Overlay(FileSeen(p), DefaultConfig), args[p]) \in Config
    BY <2>1, ConfigOf, OverriddenIsConfig
  <2> QED
    BY <1>0, <1>1, <2>2 DEF LoadConfig
<1>2. CASE Daemonize(p)
  BY <1>0, <1>2 DEF Daemonize
<1>3. CASE OpenLog(p)
  BY <1>0, <1>3 DEF OpenLog
<1>4. CASE UnlinkOld(p)
  BY <1>0, <1>4 DEF UnlinkOld
<1>5. CASE Bind(p)
  BY <1>0, <1>5 DEF Bind
<1>6. CASE Listen(p)
  BY <1>0, <1>6 DEF Listen
<1>7. CASE LoadBpf(p)
  BY <1>0, <1>7 DEF LoadBpf
<1>8. CASE Attach(p)
  BY <1>0, <1>8 DEF Attach
<1>9. CASE SetupRing(p)
  BY <1>0, <1>9 DEF SetupRing
<1>10. CASE CheckExit(p)
  BY <1>0, <1>10 DEF CheckExit
<1>11. CASE CheckReload(p)
  BY <1>0, <1>11 DEF CheckReload
<1>12. CASE Reread(p)
  <2>1. HotSwitch(Overlay(FileSeen(p), cfg[p]), cfg[p]) \in Config
    BY ConfigOf, HotSwitchKeeps
  <2> QED
    BY <1>0, <1>12, <2>1 DEF Reread
<1>13. CASE Poll(p)
  BY <1>0, <1>13 DEF Poll
<1>14. CASE Detach(p)
  BY <1>0, <1>14 DEF Detach
<1>15. CASE Close(p)
  BY <1>0, <1>15 DEF Close
<1>16. CASE Unlink(p)
  BY <1>0, <1>16 DEF Unlink
<1> QED
  BY <1>1, <1>2, <1>3, <1>4, <1>5, <1>6, <1>7, <1>8,
     <1>9, <1>10, <1>11, <1>12, <1>13, <1>14, <1>15, <1>16 DEF Step

LEMMA StepOtherTypes ==
    ASSUME TypeOK, NEW p \in Proc, Step(p)
    PROVE  OtherTypes'
<1> USE DEF At, Goto, Set, OtherTypes, past, hist
<1>0. OtherTypes /\ version \in Nat
  BY DEF TypeOK, MachineTypes
<1>1. CASE LoadConfig(p)
  BY <1>0, <1>1 DEF LoadConfig
<1>2. CASE Daemonize(p)
  BY <1>0, <1>2 DEF Daemonize
<1>3. CASE OpenLog(p)
  BY <1>0, <1>3 DEF OpenLog
<1>4. CASE UnlinkOld(p)
  BY <1>0, <1>4 DEF UnlinkOld
<1>5. CASE Bind(p)
  BY <1>0, <1>5 DEF Bind
<1>6. CASE Listen(p)
  BY <1>0, <1>6 DEF Listen, Unlinked
<1>7. CASE LoadBpf(p)
  BY <1>0, <1>7 DEF LoadBpf
<1>8. CASE Attach(p)
  BY <1>0, <1>8 DEF Attach
<1>9. CASE SetupRing(p)
  BY <1>0, <1>9 DEF SetupRing
<1>10. CASE CheckExit(p)
  BY <1>0, <1>10 DEF CheckExit
<1>11. CASE CheckReload(p)
  BY <1>0, <1>11 DEF CheckReload
<1>12. CASE Reread(p)
  BY <1>0, <1>12 DEF Reread
<1>13. CASE Poll(p)
  BY <1>0, <1>13 DEF Poll
<1>14. CASE Detach(p)
  BY <1>0, <1>14 DEF Detach
<1>15. CASE Close(p)
  BY <1>0, <1>15 DEF Close
<1>16. CASE Unlink(p)
  BY <1>0, <1>16 DEF Unlink, Unlinked
<1> QED
  BY <1>1, <1>2, <1>3, <1>4, <1>5, <1>6, <1>7, <1>8,
     <1>9, <1>10, <1>11, <1>12, <1>13, <1>14, <1>15, <1>16 DEF Step

\* A signal ends a loader before signal() was called, and else sets a flag.
LEMMA TerminatedType ==
    ASSUME TypeOK, NEW S, Terminated(S), script' \in {"idle", "signalled"},
           hook' \in [If -> [owner : Proc, mode : Mode] \cup {None}]
    PROVE  TypeOK'
<1> USE DEF TypeOK
<1>1. pc' \in [Proc -> Labels]
  BY DEF ControlTypes, Terminated, Labels, Over
<1>2. \A p \in Proc : /\ pc'[p] \in {"attach", "ring"} \cup Loop => pc[p] = pc'[p]
                      /\ pc'[p] # "new" => pc[p] # "new"
  BY DEF ControlTypes, Terminated, Early, Loop
<1>3. exiting' \in [Proc -> BOOLEAN]
  BY Zenon DEF ControlTypes, Terminated
<1>4. MachineTypes'
  BY DEF MachineTypes, Terminated
<1>5. ControlTypes'
  BY <1>1, <1>2, <1>3 DEF ControlTypes, Terminated, held
<1>6. ConfigTypes'
  BY <1>2 DEF ConfigTypes, Terminated
<1>7. OtherTypes'
  BY DEF OtherTypes, Terminated, hist, past
<1> QED
  BY <1>4, <1>5, <1>6, <1>7

LEMMA OperatorType ==
    ASSUME TypeOK, Operator
    PROVE  TypeOK'
<1> USE DEF Goto, Set, TypeOK, MachineTypes, ControlTypes, ConfigTypes, OtherTypes
<1>1. ASSUME NEW p \in Proc, NEW a \in CliArgs, Start(p, a) PROVE TypeOK'
  BY <1>1 DEF Start, os, flags, held, hist, past, Labels, Early, Startup, Loop
<1>2. ASSUME NEW p \in Proc, Terminate(p) PROVE TypeOK'
  BY <1>2, TerminatedType DEF Terminate
<1>3. ASSUME NEW p \in Proc, Hangup(p) PROVE TypeOK'
  <2>1. CASE pc[p] \in Early
    BY <1>3, <2>1 DEF Hangup, os, held, past, Labels, Early, Startup, Loop, Over, Running
  <2>2. CASE pc[p] \notin Early
    <3>1. /\ reload' = [reload EXCEPT ![p] = TRUE] /\ owed' = [owed EXCEPT ![p] = version]
          /\ UNCHANGED <<os, pc, args, cfg, cwd, exiting, held, script, past>>
      BY <1>3, <2>2 DEF Hangup
    <3>2. MachineTypes'
      BY <3>1 DEF os
    <3>3. ControlTypes'
      BY <3>1 DEF held
    <3>4. ConfigTypes' /\ OtherTypes'
      BY <3>1 DEF past
    <3> QED
      BY <3>2, <3>3, <3>4
  <2> QED
    BY <2>1, <2>2
<1>4. ASSUME NEW p \in Proc, Kill(p) PROVE TypeOK'
  BY <1>4 DEF Kill, os, flags, hist, past, Labels, Startup, Loop, Over, Running
<1>5. ASSUME NEW f \in ConfigFile, EditConfig(f) PROVE TypeOK'
  BY <1>5 DEF EditConfig, flags, held, hist, past
<1>6. ASSUME NEW s \in Path, RemoveSocket(s) PROVE TypeOK'
  BY <1>6 DEF RemoveSocket, flags, held, hist, past
<1>7. CASE StopSignal
  <2>1. TypeOK /\ script' \in {"idle", "signalled"}
    BY <1>7 DEF StopSignal
  <2> QED
    BY <1>7, <2>1, TerminatedType DEF StopSignal
<1>8. CASE StopDetach
  BY <1>8 DEF StopDetach, Removed, flags, held, hist, past
<1> QED
  BY <1>1, <1>2, <1>3, <1>4, <1>5, <1>6, <1>7, <1>8 DEF Operator

LEMMA TypeNext == TypeOK /\ [Next]_vars => TypeOK'
<1> SUFFICES ASSUME TypeOK, [Next]_vars PROVE TypeOK'
  OBVIOUS
<1>1. CASE \E p \in Proc : Step(p)
  BY <1>1, StepMachineTypes, StepControlTypes, StepConfigTypes, StepOtherTypes DEF TypeOK
<1>2. CASE Operator
  BY <1>2, OperatorType
<1>3. CASE UNCHANGED vars
  BY <1>3 DEF vars, os, flags, held, hist, past, TypeOK, MachineTypes, ControlTypes,
              ConfigTypes, OtherTypes
<1> QED
  BY <1>1, <1>2, <1>3 DEF Next

(***************************************************************************)
(* Every variable keeps its type; in particular the interface is known     *)
(* (ifindex > 0) whenever a loader attaches or serves.                     *)
(***************************************************************************)
THEOREM TypeCorrect == Spec => []TypeOK
BY TypeInit, TypeNext, PTL DEF Spec

-----------------------------------------------------------------------------
(***************************************************************************)
(* Who holds what.  NoOrphans says nothing of a loader that still runs, so *)
(* it is not inductive.  The strengthening: whatever is on an interface or *)
(* at a socket path belongs to a loader that was killed, or to one that    *)
(* remembers it and will find it again in cleanup - under the interface,   *)
(* the mode and the path that its configuration still has - or to one whose*)
(* call to detach or to unlink failed.                                     *)
(***************************************************************************)
Holding ==
    \A p \in Proc :
        /\ attached[p] => pc[p] \in {"ring", "detach"} \cup Loop
        /\ server[p] => pc[p] \in {"load", "attach", "ring", "detach", "close"} \cup Loop

HookOwned ==
    \A i \in If : hook[i] # None =>
        LET o == hook[i].owner IN
            \/ pc[o] = "killed" \/ "detach" \in failed[o]
            \/ attached[o] /\ ifindex[o] = i /\ hook[i].mode = Slot(cfg[o].mode)

SockOwned ==
    \A s \in Path, o \in Proc : sock[s] = o =>
        \/ pc[o] = "killed" \/ "unlink" \in failed[o]
        \/ s = cfg[o].socket /\ (server[o] \/ pc[o] \in {"listen", "unlink"})

Owned == TypeOK /\ Holding /\ HookOwned /\ SockOwned

\* For HookKept, without stop.sh: a loader that attached still has the hook.
HookHeld ==
    /\ script = "idle"
    /\ \A p \in Proc : /\ attached[p] => HasHook(p)
                       /\ pc[p] \in {"ring"} \cup Loop => attached[p]

Kept == Owned /\ HookHeld

LEMMA OwnedInit == Init => Owned
<1>1. Init => Holding /\ HookOwned
  BY DEF Init, Holding, HookOwned
<1>2. Init => SockOwned
  BY NoneIsNew DEF Init, SockOwned
<1> QED
  BY <1>1, <1>2, TypeInit DEF Owned

\* The parts of TypeOK that the steps below need.
Shapes ==
    /\ sock \in [Path -> Proc \cup {None}] /\ DOMAIN hook = If
    /\ \A i \in If : hook[i] # None => hook[i].owner \in Proc
    /\ pc \in [Proc -> Labels]
    /\ server \in [Proc -> BOOLEAN] /\ attached \in [Proc -> BOOLEAN]
    /\ ifindex \in [Proc -> If \cup {None}] /\ DOMAIN cfg = Proc
    /\ failed \in [Proc -> SUBSET {"detach", "unlink"}]

LEMMA ShapesHold == TypeOK => Shapes
BY DEF TypeOK, MachineTypes, ControlTypes, ConfigTypes, OtherTypes, Shapes

\* A reload leaves alone what cleanup will need.
LEMMA Taken ==
    ASSUME TypeOK, NEW p \in Proc, Reread(p)
    PROVE  /\ \A q \in Proc : /\ cfg'[q].mode = cfg[q].mode
                              /\ cfg'[q].socket = cfg[q].socket
                              /\ cfg'[q].ifname = cfg[q].ifname
           /\ DOMAIN cfg' = Proc
<1> DEFINE new == HotSwitch(Overlay(FileSeen(p), cfg[p]), cfg[p])
<1>1. /\ new.mode = cfg[p].mode /\ new.socket = cfg[p].socket /\ new.ifname = cfg[p].ifname
  BY ConfigOf, HotSwitchKeeps
<1>2. cfg' = [cfg EXCEPT ![p] = new] \/ cfg' = cfg
  BY DEF Reread, Set
<1>3. DOMAIN cfg = Proc
  BY DEF TypeOK, ConfigTypes
<1> HIDE DEF new
<1> QED
  BY <1>1, <1>2, <1>3

LEMMA StepOwned ==
    ASSUME Owned, NEW p \in Proc, Step(p)
    PROVE  Holding' /\ HookOwned' /\ SockOwned'
<1> USE DEF At, Goto, Set, Shapes, Holding, HookOwned, SockOwned, past, hist
<1>0. Shapes /\ Holding /\ HookOwned /\ SockOwned
  BY ShapesHold DEF Owned
<1>1. CASE LoadConfig(p)
  BY <1>0, <1>1 DEF LoadConfig, held, Labels, Loop
<1>2. CASE Daemonize(p)
  BY <1>0, <1>2 DEF Daemonize, held, Labels, Loop
<1>3. CASE OpenLog(p)
  BY <1>0, <1>3 DEF OpenLog, held, Labels, Loop
<1>4. CASE UnlinkOld(p)
  BY <1>0, <1>4, ConfigOf, NoneIsNew DEF UnlinkOld, held, Labels, Loop
<1>5. CASE Bind(p)
  BY <1>0, <1>5, ConfigOf, NoneIsNew DEF Bind, held, Labels, Loop
<1>6. CASE Listen(p)
  BY <1>0, <1>6, ConfigOf, NoneIsNew DEF Listen, Unlinked, held, Labels, Loop
<1>7. CASE LoadBpf(p)
  BY <1>0, <1>7 DEF LoadBpf, held, Labels, Loop
<1>8. CASE Attach(p)
  BY <1>0, <1>8, ConfigOf DEF Attach, held, Labels, Loop, Accepts
<1>9. CASE SetupRing(p)
  BY <1>0, <1>9 DEF SetupRing, held, Labels, Loop
<1>10. CASE CheckExit(p)
  BY <1>0, <1>10 DEF CheckExit, held, Labels, Loop
<1>11. CASE CheckReload(p)
  BY <1>0, <1>11 DEF CheckReload, held, Labels, Loop
<1>12. CASE Reread(p)
  <2>1. /\ \A q \in Proc : cfg'[q].mode = cfg[q].mode /\ cfg'[q].socket = cfg[q].socket
        /\ DOMAIN cfg' = Proc
    BY <1>12, Taken DEF Owned
  <2>2. /\ pc[p] = "reread" /\ pc' = [pc EXCEPT ![p] = "poll"]
        /\ UNCHANGED <<sock, hook, held, failed>>
    BY <1>12 DEF Reread
  <2>3. Holding'
    BY <1>0, <2>2 DEF held, Labels, Loop
  <2>4. HookOwned'
    BY <1>0, <2>1, <2>2 DEF held, Slot
  <2>5. SockOwned'
    BY <1>0, <2>1, <2>2 DEF held
  <2> QED
    BY <2>3, <2>4, <2>5
<1>13. CASE Poll(p)
  BY <1>0, <1>13 DEF Poll, held, Labels, Loop
<1>14. CASE Detach(p)
  <2>1. /\ pc[p] = "detach"
        /\ pc' = [pc EXCEPT ![p] = IF server[p] THEN "close" ELSE "exited"]
        /\ attached' = [attached EXCEPT ![p] = FALSE]
        /\ UNCHANGED <<sock, cfg, server, ifindex>>
    BY <1>14 DEF Detach
  <2>2. \A q \in Proc : failed[q] \subseteq failed'[q] /\ (q # p => failed'[q] = failed[q])
    BY <1>0, <1>14 DEF Detach
  <2>3. Holding'
    BY <1>0, <2>1 DEF Labels, Loop
  <2>4. SockOwned'
    BY <1>0, <2>1, <2>2
  <2>5. HookOwned'
    <3> SUFFICES ASSUME NEW i \in If, hook'[i] # None
                 PROVE  LET o == hook'[i].owner IN
                            \/ pc'[o] = "killed" \/ "detach" \in failed'[o]
                            \/ /\ attached'[o] /\ ifindex'[o] = i
                               /\ hook'[i].mode = Slot(cfg'[o].mode)
      OBVIOUS
    <3>1. hook'[i] = hook[i]
      BY <1>0, <1>14 DEF Detach, MustDetach, Removed
    <3>2. hook[i].owner # p \/ pc[p] = "killed" \/ "detach" \in failed'[p]
      <4>1. CASE /\ MustDetach(p) /\ UNCHANGED failed
                 /\ hook' = [hook EXCEPT ![ifindex[p]] = Removed(@, cfg[p].mode)]
        BY <1>0, <3>1, <4>1, NoneIsNew DEF MustDetach, Removed
      <4>2. CASE failed' = [failed EXCEPT ![p] = failed[p] \cup {"detach"}]
        BY <1>0, <4>2
      <4>3. CASE ~MustDetach(p) /\ UNCHANGED <<hook, failed>>
        BY <1>0, <3>1, <4>3, NoneIsNew DEF MustDetach
      <4> QED
        BY <1>14, <4>1, <4>2, <4>3 DEF Detach
    <3> QED
      BY <1>0, <2>1, <2>2, <3>1, <3>2
  <2> QED
    BY <2>3, <2>4, <2>5
<1>15. CASE Close(p)
  BY <1>0, <1>15 DEF Close, held, Labels, Loop
<1>16. CASE Unlink(p)
  BY <1>0, <1>16, ConfigOf, NoneIsNew DEF Unlink, Unlinked, held, Labels, Loop
<1> QED
  BY <1>1, <1>2, <1>3, <1>4, <1>5, <1>6, <1>7, <1>8,
     <1>9, <1>10, <1>11, <1>12, <1>13, <1>14, <1>15, <1>16 DEF Step

LEMMA OperatorOwned ==
    ASSUME Owned, Operator
    PROVE  Holding' /\ HookOwned' /\ SockOwned'
<1> USE DEF Goto, Set, Shapes, Holding, HookOwned, SockOwned, past, hist
<1>0. Shapes /\ Holding /\ HookOwned /\ SockOwned
  BY ShapesHold DEF Owned
<1>1. ASSUME NEW p \in Proc, NEW a \in CliArgs, Start(p, a)
      PROVE  Holding' /\ HookOwned' /\ SockOwned'
  BY <1>0, <1>1 DEF Start, os, held, Loop
<1>2. ASSUME NEW S, Terminated(S), \A i \in If : hook'[i] \in {hook[i], None}
      PROVE  Holding' /\ HookOwned' /\ SockOwned'
  BY <1>0, <1>2 DEF Terminated, held, Early, Loop
<1>3. ASSUME NEW p \in Proc, Hangup(p)
      PROVE  Holding' /\ HookOwned' /\ SockOwned'
  BY <1>0, <1>3 DEF Hangup, os, held, Early, Loop
<1>4. ASSUME NEW p \in Proc, Kill(p)
      PROVE  Holding' /\ HookOwned' /\ SockOwned'
  BY <1>0, <1>4 DEF Kill, os, Loop
<1>5. ASSUME NEW f \in ConfigFile, EditConfig(f)
      PROVE  Holding' /\ HookOwned' /\ SockOwned'
  BY <1>0, <1>5 DEF EditConfig, held
<1>6. ASSUME NEW s \in Path, RemoveSocket(s)
      PROVE  Holding' /\ HookOwned' /\ SockOwned'
  BY <1>0, <1>6, NoneIsNew DEF RemoveSocket, held
<1>7. ASSUME StopDetach
      PROVE  Holding' /\ HookOwned' /\ SockOwned'
  <2>1. \A i \in If : hook'[i] \in {hook[i], None}
    BY <1>0, <1>7 DEF StopDetach, Removed
  <2>2. UNCHANGED <<sock, pc, cfg, held, failed>>
    BY <1>7 DEF StopDetach
  <2> QED
    BY <1>0, <2>1, <2>2 DEF held
<1> QED
  BY <1>1, <1>2, <1>3, <1>4, <1>5, <1>6, <1>7 DEF Operator, Terminate, StopSignal

LEMMA OwnedNext == Owned /\ [Next]_vars => Owned'
<1> SUFFICES ASSUME Owned, [Next]_vars PROVE Owned'
  OBVIOUS
<1>1. TypeOK'
  BY TypeNext DEF Owned
<1>2. CASE \E p \in Proc : Step(p)
  BY <1>1, <1>2, StepOwned DEF Owned
<1>3. CASE Operator
  BY <1>1, <1>3, OperatorOwned DEF Owned
<1>4. CASE UNCHANGED vars
  <2>1. UNCHANGED <<sock, hook, pc, cfg, server, ifindex, attached, failed>>
    BY <1>4 DEF vars, os, held, hist, past
  <2> QED
    BY <1>1, <2>1 DEF Owned, Holding, HookOwned, SockOwned
<1> QED
  BY <1>2, <1>3, <1>4 DEF Next

(***************************************************************************)
(* A loader whose main returned left a program behind only if the call that*)
(* detaches it failed, and a socket file only if unlink did (cleanup(),    *)
(* loader.c:500-535), however many loaders overlap, whatever was reloaded, *)
(* whichever startup step failed, and with stop.sh in use.                 *)
(***************************************************************************)
THEOREM NothingLeftBehind == Spec => []NoOrphans
<1>1. Owned => NoOrphans
  <2> SUFFICES ASSUME Owned, NEW p \in Proc, pc[p] = "exited"
               PROVE  /\ "detach" \in failed[p] \/ \A i \in If : hook[i] = None \/ hook[i].owner # p
                      /\ "unlink" \in failed[p] \/ \A s \in Path : sock[s] # p
    BY DEF NoOrphans
  <2>1. ~attached[p] /\ ~server[p]
    BY DEF Owned, Holding, Loop
  <2> QED
    BY <2>1 DEF Owned, HookOwned, SockOwned
<1> QED
  BY <1>1, OwnedInit, OwnedNext, PTL DEF Spec

-----------------------------------------------------------------------------
(***************************************************************************)
(* Without stop.sh, which detaches by interface, a loader that attached    *)
(* keeps the hook until its own cleanup.                                   *)
(***************************************************************************)
LEMMA KeptInit == Init => Kept
<1>1. Init => HookHeld
  BY DEF Init, HookHeld, Loop
<1> QED
  BY <1>1, OwnedInit DEF Kept

LEMMA KeptNext == ASSUME "stop.sh" \notin Tools PROVE Kept /\ [Next]_vars => Kept'
<1> SUFFICES ASSUME Kept, [Next]_vars PROVE HookHeld'
  BY OwnedNext DEF Kept
<1> USE DEF At, Goto, Set, Shapes, Holding, HookHeld, HasHook
<1>0. Shapes /\ Holding /\ HookHeld
  BY ShapesHold DEF Kept, Owned
<1>1. ASSUME NEW p \in Proc, Attach(p) PROVE HookHeld'
  <2>1. pc[p] = "attach" /\ ~attached[p] /\ ifindex[p] \in If
    BY <1>0, <1>1 DEF Attach, Loop, Kept, Owned, TypeOK, ControlTypes
  <2>2. UNCHANGED <<script, ifindex>>
    BY <1>1 DEF Attach
  <2>3. CASE /\ Accepts(ifindex[p])
             /\ hook' = [hook EXCEPT ![ifindex[p]] =
                             [owner |-> p, mode |-> Slot(cfg[p].mode)]]
             /\ attached' = [attached EXCEPT ![p] = TRUE]
             /\ pc' = [pc EXCEPT ![p] = "ring"]
    <3>1. [owner |-> p, mode |-> Slot(cfg[p].mode)] \in [owner : Proc, mode : Mode]
      BY ConfigOf DEF Kept, Owned
    <3>2. hook'[ifindex[p]] # None /\ hook'[ifindex[p]].owner = p
      BY <1>0, <2>1, <2>3, <3>1, NoneIsNew
    <3>3. \A q \in Proc : attached[q] => ifindex[q] # ifindex[p]
      BY <1>0, <2>3 DEF Accepts
    <3>4. \A q \in Proc : q # p /\ attached[q] => hook'[ifindex[q]] = hook[ifindex[q]]
      BY <1>0, <2>3, <3>3
    <3>5. HasHook(p)' /\ attached'[p]
      BY <1>0, <2>1, <2>2, <2>3, <3>2, NoneIsNew
    <3>6. ASSUME NEW q \in Proc, q # p
          PROVE  /\ attached'[q] => HasHook(q)'
                 /\ pc'[q] \in {"ring"} \cup Loop => attached'[q]
      <4>1. attached'[q] = attached[q] /\ pc'[q] = pc[q] /\ ifindex'[q] = ifindex[q]
        BY <1>0, <2>2, <2>3, <3>6
      <4> QED
        BY <1>0, <3>4, <3>6, <4>1
    <3> QED
      BY <1>0, <2>2, <3>5, <3>6
  <2>4. CASE UNCHANGED <<hook, attached>> /\ pc' = [pc EXCEPT ![p] = "detach"]
    BY <1>0, <2>1, <2>2, <2>4 DEF Loop
  <2> QED
    BY <1>1, <2>3, <2>4 DEF Attach
<1>2. ASSUME NEW p \in Proc, Detach(p) PROVE HookHeld'
  <2>1. /\ pc[p] = "detach"
        /\ pc' \in [Proc -> Labels] /\ pc'[p] \in {"close", "exited"}
        /\ \A q \in Proc \ {p} : pc'[q] = pc[q]
        /\ attached' = [attached EXCEPT ![p] = FALSE]
        /\ UNCHANGED <<script, ifindex>>
    BY <1>0, <1>2 DEF Detach, Labels, Cleanup, Over
  <2>2. \A i \in If : hook'[i] # hook[i] => attached[p] /\ ifindex[p] = i
    BY <1>0, <1>2 DEF Detach, MustDetach
  <2>3. \A q \in Proc \ {p} : attached[q] => hook'[ifindex[q]] = hook[ifindex[q]]
    BY <1>0, <2>2
  <2> QED
    BY <1>0, <2>1, <2>3 DEF Loop
<1>3. ASSUME NEW p \in Proc, LoadConfig(p) PROVE HookHeld'
  BY <1>0, <1>3 DEF LoadConfig, held, Loop
<1>4. ASSUME NEW p \in Proc, Daemonize(p) PROVE HookHeld'
  BY <1>0, <1>4 DEF Daemonize, held, Loop
<1>5. ASSUME NEW p \in Proc, OpenLog(p) PROVE HookHeld'
  BY <1>0, <1>5 DEF OpenLog, held, Loop
<1>6. ASSUME NEW p \in Proc, UnlinkOld(p) PROVE HookHeld'
  BY <1>0, <1>6 DEF UnlinkOld, held, Loop
<1>7. ASSUME NEW p \in Proc, Bind(p) PROVE HookHeld'
  BY <1>0, <1>7 DEF Bind, held, Loop
<1>8. ASSUME NEW p \in Proc, Listen(p) PROVE HookHeld'
  BY <1>0, <1>8 DEF Listen, held, Loop
<1>9. ASSUME NEW p \in Proc, LoadBpf(p) PROVE HookHeld'
  BY <1>0, <1>9 DEF LoadBpf, held, Loop
<1>10. ASSUME NEW p \in Proc, CheckExit(p) PROVE HookHeld'
  BY <1>0, <1>10 DEF CheckExit, held, Loop
<1>11. ASSUME NEW p \in Proc, CheckReload(p) PROVE HookHeld'
  BY <1>0, <1>11 DEF CheckReload, held, Loop
<1>12. ASSUME NEW p \in Proc, Reread(p) PROVE HookHeld'
  BY <1>0, <1>12 DEF Reread, held, Loop
<1>13. ASSUME NEW p \in Proc, Poll(p) PROVE HookHeld'
  BY <1>0, <1>13 DEF Poll, held, Loop
<1>14. ASSUME NEW p \in Proc, Close(p) PROVE HookHeld'
  BY <1>0, <1>14 DEF Close, held, Loop
<1>15. ASSUME NEW p \in Proc, Unlink(p) PROVE HookHeld'
  BY <1>0, <1>15 DEF Unlink, held, Loop
<1>16. ASSUME NEW p \in Proc, SetupRing(p) PROVE HookHeld'
  BY <1>0, <1>16 DEF SetupRing, held, Loop
<1>17. CASE Operator
  <2>1. ASSUME NEW S, Terminated(S), UNCHANGED <<hook, script>> PROVE HookHeld'
    BY <1>0, <2>1 DEF Terminated, held, Early, Loop
  <2>2. ASSUME NEW p \in Proc, NEW a \in CliArgs, Start(p, a) PROVE HookHeld'
    BY <1>0, <2>2 DEF Start, os, held, Loop
  <2>3. ASSUME NEW p \in Proc, Hangup(p) PROVE HookHeld'
    BY <1>0, <2>3 DEF Hangup, os, held, Early, Loop
  <2>4. ASSUME NEW p \in Proc, Kill(p) PROVE HookHeld'
    BY <1>0, <2>4 DEF Kill, os, Loop
  <2>5. ASSUME NEW f \in ConfigFile, EditConfig(f) PROVE HookHeld'
    BY <1>0, <2>5 DEF EditConfig, held
  <2>6. ASSUME NEW s \in Path, RemoveSocket(s) PROVE HookHeld'
    BY <1>0, <2>6 DEF RemoveSocket, held
  <2>7. ~StopSignal /\ ~StopDetach
    BY <1>0 DEF StopSignal, StopDetach
  <2> QED
    BY <1>17, <2>1, <2>2, <2>3, <2>4, <2>5, <2>6, <2>7 DEF Operator, Terminate
<1>18. CASE UNCHANGED vars
  BY <1>0, <1>18 DEF vars, os, held
<1> QED
  BY <1>1, <1>2, <1>3, <1>4, <1>5, <1>6, <1>7, <1>8, <1>9, <1>10,
     <1>11, <1>12, <1>13, <1>14, <1>15, <1>16, <1>17, <1>18 DEF Next, Step

(***************************************************************************)
(* A loader that serves has its program on the interface, whatever other   *)
(* loaders try and fail to start (without stop.sh).                        *)
(***************************************************************************)
THEOREM HookIsKept == ASSUME "stop.sh" \notin Tools PROVE Spec => []HookKept
<1>1. Kept => HookKept
  BY DEF Kept, HookHeld, HookKept, InService
<1> QED
  BY <1>1, KeptInit, KeptNext, PTL DEF Spec

(***************************************************************************)
(* A program leaves an interface only by the cleanup of the loader that    *)
(* attached it (cleanup(), loader.c:509-519), without stop.sh.             *)
(***************************************************************************)
THEOREM DetachedByOwner == ASSUME "stop.sh" \notin Tools PROVE Spec => OnlyOwnerDetaches
<1> DEFINE Good == \A i \in If : (hook[i] # None /\ hook'[i] # hook[i]) =>
                       pc[hook[i].owner] = "detach" /\ pc'[hook[i].owner] # "detach"
<1>1. Kept /\ [Next]_vars => [Good]_vars
  <2> SUFFICES ASSUME Kept, Next, NEW i \in If, hook[i] # None, hook'[i] # hook[i]
               PROVE  pc[hook[i].owner] = "detach" /\ pc'[hook[i].owner] # "detach"
    OBVIOUS
  <2>0. Shapes /\ HookHeld
    BY ShapesHold DEF Kept, Owned
  <2>1. ~StopDetach
    BY <2>0 DEF StopDetach, HookHeld
  <2>2. ASSUME NEW p \in Proc, Attach(p) PROVE FALSE
    BY <2>0, <2>2 DEF Attach, Accepts, Set, Shapes
  <2>3. ASSUME NEW p \in Proc, Detach(p)
        PROVE  pc[hook[i].owner] = "detach" /\ pc'[hook[i].owner] # "detach"
    BY <2>0, <2>3 DEF Detach, MustDetach, At, Goto, Set, Shapes, HookHeld, HasHook
  <2>4. (\E p \in Proc : Step(p)) => \E p \in Proc : Attach(p) \/ Detach(p)
    BY DEF Step, LoadConfig, Daemonize, OpenLog, UnlinkOld, Bind, Listen, LoadBpf, SetupRing,
           CheckExit, CheckReload, Reread, Poll, Close, Unlink
  <2>5. ~Operator
    BY <2>1 DEF Operator, Start, Terminate, Hangup, Kill, EditConfig, RemoveSocket,
                StopSignal, os
  <2> QED
    BY <2>2, <2>3, <2>4, <2>5 DEF Next
<1> QED
  BY <1>1, KeptInit, KeptNext, PTL DEF Spec, OnlyOwnerDetaches

(***************************************************************************)
(* No hot switch at run time (reload_config_runtime, loader.c:639): from   *)
(* the bind of the socket on, the interface, the mode and the path stay.   *)
(***************************************************************************)
THEOREM NeverHotSwitched == Spec => NoHotSwitch
<1> DEFINE Same(p) == /\ cfg'[p].ifname = cfg[p].ifname
                      /\ cfg'[p].mode = cfg[p].mode
                      /\ cfg'[p].socket = cfg[p].socket
           Good == \A p \in Proc : pc[p] \in Startup \cup Loop \cup Cleanup => Same(p)
<1>1. TypeOK /\ [Next]_vars => [Good]_vars
  <2> SUFFICES ASSUME TypeOK, Next, NEW p \in Proc, pc[p] \in Startup \cup Loop \cup Cleanup
               PROVE  Same(p)
    OBVIOUS
  <2>1. ASSUME NEW q \in Proc, LoadConfig(q) PROVE Same(p)
    BY <2>1 DEF LoadConfig, At, Set, Startup, Loop, Cleanup, TypeOK, ConfigTypes
  <2>2. ASSUME NEW q \in Proc, Reread(q) PROVE Same(p)
    BY <2>2, Taken
  <2>3. (\E q \in Proc : Step(q)) => \/ \E q \in Proc : LoadConfig(q) \/ Reread(q)
                                     \/ cfg' = cfg
    BY DEF Step, Daemonize, OpenLog, UnlinkOld, Bind, Listen, LoadBpf, Attach, SetupRing,
           CheckExit, CheckReload, Poll, Detach, Close, Unlink
  <2>4. Operator => cfg' = cfg
    BY DEF Operator, Start, Terminate, Hangup, Kill, EditConfig, RemoveSocket,
           StopSignal, StopDetach, Terminated
  <2> QED
    BY <2>1, <2>2, <2>3, <2>4 DEF Next
<1> QED
  BY <1>1, TypeInit, TypeNext, PTL DEF Spec, NoHotSwitch

-----------------------------------------------------------------------------
(***************************************************************************)
(* Loaders that run one after the other.  The invariant: one runs at most, *)
(* and from the bind to the cleanup the socket file of its configuration   *)
(* is the one it bound.                                                    *)
(***************************************************************************)
Listening == {"load", "attach", "ring"} \cup Loop

Serves(p) ==
    /\ pc[p] \in {"listen"} \cup Listening => sock[cfg[p].socket] = p
    /\ pc[p] \in Listening => server[p]

Alone ==
    /\ TypeOK
    /\ \A p, q \in Proc : Running(p) /\ Running(q) => p = q
    /\ \A p \in Proc : Serves(p)

\* A step is one of a loader that runs, and touches no other.
LEMMA StepsAlone ==
    ASSUME TypeOK, NEW p \in Proc, Step(p)
    PROVE  /\ Running(p) /\ pc' \in [Proc -> Labels]
           /\ \A q \in Proc \ {p} : pc'[q] = pc[q]
<1> USE DEF At, Goto, TypeOK, ControlTypes
<1>1. pc[p] \in Labels \ Over
  BY DEF Step, LoadConfig, Daemonize, OpenLog, UnlinkOld, Bind, Listen, LoadBpf, Attach, SetupRing,
         CheckExit, CheckReload, Reread, Poll, Detach, Close, Unlink, Labels, Early, Startup, Loop, Cleanup, Over
<1>2. PICK label \in Labels : pc' = [pc EXCEPT ![p] = label]
  <2> USE DEF Labels, Early, Startup, Loop, Cleanup, Over
  <2>1. CASE LoadConfig(p) \/ Daemonize(p) \/ OpenLog(p) \/ UnlinkOld(p) \/ Bind(p) \/ Listen(p)
    BY <2>1 DEF LoadConfig, Daemonize, OpenLog, UnlinkOld, Bind, Listen
  <2>2. CASE LoadBpf(p) \/ Attach(p) \/ SetupRing(p) \/ CheckExit(p) \/ CheckReload(p) \/ Reread(p)
    BY <2>2 DEF LoadBpf, Attach, SetupRing, CheckExit, CheckReload, Reread
  <2>3. CASE Poll(p) \/ Detach(p) \/ Close(p) \/ Unlink(p)
    BY <2>3 DEF Poll, Detach, Close, Unlink
  <2> QED
    BY <2>1, <2>2, <2>3 DEF Step
<1> QED
  BY <1>1, <1>2 DEF Running

LEMMA StepServes == ASSUME TypeOK, NEW p \in Proc, Serves(p), Step(p) PROVE Serves(p)'
<1> DEFINE c == cfg[p]
<1>0. /\ pc \in [Proc -> Labels] /\ sock \in [Path -> Proc \cup {None}] /\ server \in [Proc -> BOOLEAN]
      /\ cfg \in [Proc -> Config] /\ c \in Config /\ c.socket \in Path
  BY DEF TypeOK, MachineTypes, ControlTypes, ConfigTypes, Config
<1> USE DEF At, Goto, Set, Serves, Listening, Loop
<1>1. CASE LoadConfig(p)
  BY <1>0, <1>1 DEF LoadConfig
<1>2. CASE Daemonize(p) \/ OpenLog(p) \/ UnlinkOld(p)
  BY <1>0, <1>2 DEF Daemonize, OpenLog, UnlinkOld
<1>3. CASE Bind(p)
  BY <1>0, <1>3 DEF Bind
<1>4. CASE Listen(p)
  BY <1>0, <1>4 DEF Listen
<1>5. CASE LoadBpf(p) \/ Attach(p) \/ SetupRing(p)
  BY <1>0, <1>5 DEF LoadBpf, Attach, SetupRing, held
<1>6. CASE CheckExit(p) \/ CheckReload(p) \/ Poll(p)
  BY <1>0, <1>6 DEF CheckExit, CheckReload, Poll, held
<1>7. CASE Reread(p)
  <2>1. cfg'[p].socket = cfg[p].socket
    BY <1>7, Taken
  <2> QED
    BY <1>0, <1>7, <2>1 DEF Reread, held
<1>8. CASE Detach(p) \/ Close(p) \/ Unlink(p)
  BY <1>0, <1>8 DEF Detach, Close, Unlink
<1> QED
  BY <1>1, <1>2, <1>3, <1>4, <1>5, <1>6, <1>7, <1>8 DEF Step

LEMMA AloneNext == ASSUME Overlap = "after exit" PROVE Alone /\ [Next]_vars => Alone'
<1> SUFFICES ASSUME Alone, [Next]_vars PROVE Alone'
  OBVIOUS
<1>0. TypeOK /\ TypeOK'
  BY TypeNext DEF Alone
<1>1. ASSUME NEW p \in Proc, Step(p) PROVE Alone'
  <2>1. /\ Running(p) /\ pc' \in [Proc -> Labels]
        /\ \A q \in Proc \ {p} : pc'[q] = pc[q]
    BY <1>0, <1>1, StepsAlone
  <2>2. \A q \in Proc \ {p} : ~Running(q) /\ ~Running(q)'
    BY <2>1 DEF Alone, Running
  <2>3. \A q \in Proc \ {p} : Serves(q)'
    BY <2>2 DEF Serves, Running, Listening, Loop, Over
  <2>4. Serves(p)'
    BY <1>0, <1>1, StepServes DEF Alone
  <2> QED
    BY <1>0, <2>2, <2>3, <2>4 DEF Alone
<1>2. CASE Operator
  <2>1. ASSUME UNCHANGED <<sock, cfg>>, pc' \in [Proc -> Labels],
               \A q \in Proc : \/ pc'[q] = pc[q] /\ server'[q] = server[q]
                               \/ pc'[q] \in Over
        PROVE  Alone'
    BY <1>0, <2>1 DEF Alone, Running, Serves, Listening, Loop, Over
  <2>2. ASSUME NEW p \in Proc, NEW a \in CliArgs, Start(p, a) PROVE Alone'
    <3>1. \A q \in Proc : ~Running(q)
      BY <2>2 DEF Start, MayStart
    <3>2. pc'[p] = "config" /\ \A q \in Proc \ {p} : pc'[q] = pc[q]
      BY <1>0, <2>2 DEF Start, Goto, TypeOK, ControlTypes
    <3>3. \A q \in Proc : Running(q)' => q = p
      BY <3>1, <3>2 DEF Running
    <3>4. \A q \in Proc : Serves(q)'
      BY <3>2, <3>3 DEF Serves, Running, Listening, Loop, Over
    <3> QED
      BY <1>0, <3>3, <3>4 DEF Alone
  <2>3. ASSUME NEW S, Terminated(S) PROVE Alone'
    <3>1. /\ UNCHANGED <<sock, cfg, server>>
          /\ pc' = [q \in Proc |-> IF q \in S /\ pc[q] \in Early THEN "killed" ELSE pc[q]]
      BY <2>3 DEF Terminated, held
    <3> QED
      BY <1>0, <2>1, <3>1 DEF TypeOK, ControlTypes, Labels, Over
  <2>4. ASSUME NEW p \in Proc, Hangup(p) PROVE Alone'
    <3>1. UNCHANGED <<sock, cfg, server>> /\ (pc' = pc \/ pc' = [pc EXCEPT ![p] = "killed"])
      BY <2>4 DEF Hangup, Goto, os, held
    <3> QED
      BY <1>0, <2>1, <3>1 DEF TypeOK, ControlTypes, Labels, Over
  <2>5. ASSUME NEW p \in Proc, Kill(p) PROVE Alone'
    <3>1. /\ UNCHANGED <<sock, cfg>> /\ pc' = [pc EXCEPT ![p] = "killed"]
          /\ server' = [server EXCEPT ![p] = FALSE]
      BY <2>5 DEF Kill, Goto, Set, os
    <3> QED
      BY <1>0, <2>1, <3>1 DEF TypeOK, ControlTypes, Labels, Over
  <2>6. ASSUME NEW f \in ConfigFile, EditConfig(f) PROVE Alone'
    BY <1>0, <2>1, <2>6 DEF EditConfig, held, TypeOK, ControlTypes
  <2>7. ASSUME NEW s \in Path, RemoveSocket(s) PROVE Alone'
    <3>1. (\A q \in Proc : ~Running(q)) /\ pc' = pc
      BY <2>7 DEF RemoveSocket, MayStart
    <3>2. \A q \in Proc : ~Running(q)' /\ Serves(q)'
      BY <3>1 DEF Running, Serves, Listening, Loop, Over
    <3> QED
      BY <1>0, <3>2 DEF Alone
  <2>8. CASE StopDetach
    BY <1>0, <2>1, <2>8 DEF StopDetach, held, TypeOK, ControlTypes
  <2> QED
    BY <1>2, <2>2, <2>3, <2>4, <2>5, <2>6, <2>7, <2>8 DEF Operator, Terminate, StopSignal
<1>3. CASE UNCHANGED vars
  BY <1>0, <1>3 DEF vars, os, held, Alone, Running, Serves
<1> QED
  BY <1>1, <1>2, <1>3 DEF Next

(***************************************************************************)
(* When a loader is only started, and the socket file only removed, while  *)
(* no other loader runs: whatever was killed, failed or reloaded before,   *)
(* the loader in its main loop can be reached at the path it has           *)
(* configured (setup_unix_server, reload_config_runtime, cleanup()).       *)
(***************************************************************************)
THEOREM LoaderIsReachable == ASSUME Overlap = "after exit" PROVE Spec => []Reachable
<1>1. Init => Alone
  BY TypeInit DEF Init, Alone, Running, Serves, Over, Listening, Loop
<1>2. Alone => Reachable
  BY DEF Alone, Serves, Reachable, InService, Listening
<1> QED
  BY <1>1, <1>2, AloneNext, PTL DEF Spec
=============================================================================
