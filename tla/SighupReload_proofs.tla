------------------------- MODULE SighupReload_proofs -------------------------
(* Safety of SighupReload for any files, tables and number of rotations.      *)
EXTENDS SighupReload, TLAPS

(* A reload is under way only on the driver that reloads, and there is a     *)
(* listener only once the database was opened.                               *)
ListenerInv ==
    /\ listener \in {"resolve", "open", "swap"} => driver = "duckdb"
    /\ process \in {"starting", "opened"} => listener = "none"

(* A handle is open only between OpenReloadable and CloseDB, or until the     *)
(* process is killed.                                                        *)
HandleInv == process \in {"starting", "down"} => serving = "none"

Inv == ListenerInv /\ HandleInv /\ HandleAlwaysServes

(* What a reload does to the handle: a file that passed its validation       *)
(* replaces the one it was compared with, or nothing changes.                *)
LEMMA SwapServes ==
    ASSUME Inv, Swap
    PROVE  HandleAlwaysServes'
<1> USE DEF Swap, Inv
<1>1. CASE serving # "none" /\ Validated
  <2>1. driver = "duckdb" /\ driver' = driver
    BY DEF ListenerInv, outside
  <2>2. serving' \in Sound /\ TablesOf[serving] \subseteq TablesOf[serving']
    BY <1>1 DEF SwapsIn, Validated
  <2>3. QED
    BY <1>1, <2>1, <2>2 DEF HandleAlwaysServes
<1>2. CASE ~(serving # "none" /\ Validated)
  BY <1>2 DEF GivesUp, HandleAlwaysServes, outside
<1>3. QED
  BY <1>1, <1>2

LEMMA InvInit == Init => TypeOK /\ Inv
<1> SUFFICES ASSUME Init PROVE TypeOK /\ Inv
  OBVIOUS
<1>1. rotations \in 0..MaxRotations /\ queued \in 0..1
  BY SighupAssumption DEF SighupAssumption, Init
<1>2. told \in BOOLEAN /\ done \in BOOLEAN
  BY DEF Init
<1>3. Inv
  BY DEF Init, Inv, ListenerInv, HandleInv, HandleAlwaysServes
<1>4. QED
  BY <1>1, <1>2, <1>3 DEF Init, TypeOK

LEMMA TypeStep == TypeOK /\ [Next]_vars => TypeOK'
<1> SUFFICES ASSUME TypeOK, [Next]_vars PROVE TypeOK'
  OBVIOUS
<1> USE SighupAssumption DEF SighupAssumption, TypeOK, outside
<1>1. ASSUME NEW f \in Files, Rotate(f) PROVE TypeOK'
  <2>1. rotations' \in 0..MaxRotations /\ queued' \in 0..1
    BY <1>1 DEF Rotate
  <2>2. /\ link' \in Files /\ told' \in BOOLEAN
        /\ attempt' \in {"before", "after", "failed"}
        /\ UNCHANGED <<driver, process, first, serving, done, listener, opened>>
    BY <1>1 DEF Rotate
  <2>3. QED
    BY <2>1, <2>2
<1>2. CASE Sighup
  <2>1. queued' \in 0..1 /\ rotations' \in 0..MaxRotations
    BY <1>2 DEF Sighup
  <2>2. told' \in BOOLEAN /\ UNCHANGED <<driver, link, attempt, process, first,
                                         serving, done, listener, opened>>
    BY <1>2 DEF Sighup
  <2>3. QED
    BY <2>1, <2>2
<1>3. CASE RunServer
  BY <1>3 DEF RunServer, OpenReloadable, OpenFails, ReloadOnSIGHUP, Stop, CloseDB
<1>4. CASE SighupKills \/ Shutdown
  BY <1>4 DEF SighupKills, Shutdown
<1>5. CASE SelectDone \/ SelectSignal \/ Resolve \/ Open
  BY <1>5 DEF SelectDone, SelectSignal, Resolve, Open
<1>6. CASE ReloadFails
  BY <1>6 DEF ReloadFails, GivesUp
<1>7. CASE Swap
  BY <1>7 DEF Swap, SwapsIn, GivesUp, Validated
<1>8. CASE UNCHANGED vars
  BY <1>8 DEF vars
<1>9. QED
  BY <1>1, <1>2, <1>3, <1>4, <1>5, <1>6, <1>7, <1>8 DEF Next, Listener

LEMMA InvStep == Inv /\ [Next]_vars => Inv'
<1> SUFFICES ASSUME Inv, [Next]_vars PROVE Inv'
  OBVIOUS
<1> USE DEF Inv, ListenerInv, HandleInv, outside
<1>1. ASSUME NEW f \in Files, Rotate(f) PROVE Inv'
  BY <1>1 DEF Rotate, HandleAlwaysServes
<1>2. CASE Sighup \/ SighupKills \/ Shutdown
  BY <1>2 DEF Sighup, SighupKills, Shutdown, HandleAlwaysServes
<1>3. CASE OpenReloadable \/ OpenFails
  BY <1>3 DEF OpenReloadable, OpenFails, Opens, HandleAlwaysServes
<1>4. CASE ReloadOnSIGHUP \/ Stop \/ CloseDB
  BY <1>4 DEF ReloadOnSIGHUP, Stop, CloseDB, HandleAlwaysServes
<1>5. CASE SelectDone \/ SelectSignal \/ Resolve \/ Open
  BY <1>5 DEF SelectDone, SelectSignal, Resolve, Open, HandleAlwaysServes
<1>6. CASE ReloadFails
  BY <1>6 DEF ReloadFails, GivesUp, HandleAlwaysServes
<1>7. CASE Swap
  <2>1. ListenerInv' /\ HandleInv'
    BY <1>7 DEF Swap, SwapsIn, GivesUp
  <2>2. QED
    BY <1>7, <2>1, SwapServes
<1>8. CASE UNCHANGED vars
  BY <1>8 DEF vars, HandleAlwaysServes
<1>9. QED
  BY <1>1, <1>2, <1>3, <1>4, <1>5, <1>6, <1>7, <1>8 DEF Next, RunServer, Listener

(* Every variable keeps its type (RunServer, the listener and the signal's   *)
(* channel, which never holds more than one).                                *)
THEOREM TypeCorrect == Spec => []TypeOK
<1>1. Init => TypeOK
  BY InvInit
<1>2. QED
  BY <1>1, TypeStep, PTL DEF Spec

(* No sequence of rotations, signals and failed reloads leaves the handle on  *)
(* a file that does not answer or lacks a table of the first one.            *)
THEOREM AlwaysServes == Spec => []HandleAlwaysServes
<1>1. Init => Inv
  BY InvInit
<1>2. Inv => HandleAlwaysServes
  BY DEF Inv
<1>3. QED
  BY <1>1, <1>2, InvStep, PTL DEF Spec

(* A reload that outlives db.Close leaves no file in use.                    *)
THEOREM NothingServedAtExit == Spec => []ClosedAtExit
<1>1. Init => Inv
  BY InvInit
<1>2. Inv => ClosedAtExit
  BY DEF Inv, HandleInv, ClosedAtExit
<1>3. QED
  BY <1>1, <1>2, InvStep, PTL DEF Spec

-----------------------------------------------------------------------------
(* The safety half of RotationIsServed: once told of a rotation, a server     *)
(* whose listener has nothing left to do serves the file the path names, or   *)
(* has said that it could not.                                               *)
NothingLeftToDo == queued = 0 /\ listener = "select"
RotationIsRemembered ==
    told /\ process = "serving" /\ driver = "duckdb" /\ NothingLeftToDo =>
        serving = link \/ attempt = "failed"

(* The same while it is at it: a signal in the channel, or a reload begun     *)
(* after the rotation, which opens what the path names.                      *)
Remembered ==
    \/ queued = 1
    \/ listener = "select" /\ (serving = link \/ attempt = "failed")
    \/ listener \in {"resolve", "open"} /\ attempt = "after"
    \/ listener = "swap" /\ attempt = "after" /\ opened = link
RememberInv ==
    /\ process = "serving" => serving # "none" /\ listener # "none"
    /\ process = "opened" => serving # "none"
    /\ process \in {"starting", "opened"} => ~told
    /\ process \in {"starting", "opened", "serving", "stopping"} => ~done
    /\ told /\ process = "serving" /\ driver = "duckdb" => Remembered

LEMMA RememberStep == TypeOK /\ RememberInv /\ [Next]_vars => RememberInv'
<1> SUFFICES ASSUME TypeOK, RememberInv, [Next]_vars PROVE RememberInv'
  OBVIOUS
<1> USE SighupAssumption DEF SighupAssumption, RememberInv, Remembered, outside
<1>1. ASSUME NEW f \in Files, Rotate(f) PROVE RememberInv'
  BY <1>1 DEF Rotate
<1>2. CASE Sighup \/ SighupKills \/ Shutdown
  BY <1>2 DEF Sighup, SighupKills, Shutdown, Notified
<1>3. CASE OpenReloadable
  BY <1>3 DEF OpenReloadable, Opens, TypeOK
<1>4. CASE OpenFails \/ ReloadOnSIGHUP \/ Stop \/ CloseDB
  BY <1>4 DEF OpenFails, ReloadOnSIGHUP, Stop, CloseDB
<1>5. CASE SelectDone \/ SelectSignal
  BY <1>5 DEF SelectDone, SelectSignal, TypeOK
<1>6. CASE Resolve \/ Open
  BY <1>6 DEF Resolve, Open
<1>7. CASE ReloadFails
  BY <1>7 DEF ReloadFails, GivesUp
<1>8. CASE Swap
  BY <1>8 DEF Swap, SwapsIn, GivesUp, Validated
<1>9. CASE UNCHANGED vars
  BY <1>9 DEF vars
<1>10. QED
  BY <1>1, <1>2, <1>3, <1>4, <1>5, <1>6, <1>7, <1>8, <1>9 DEF Next, RunServer, Listener

(* No signal is forgotten, whichever comes in the middle of a reload or is    *)
(* dropped because one waits already.                                        *)
THEOREM NoSignalForgotten == Spec => []RotationIsRemembered
<1>1. Init => TypeOK /\ RememberInv
  BY InvInit DEF Init, RememberInv, Remembered
<1>2. TypeOK /\ RememberInv /\ [Next]_vars => (TypeOK /\ RememberInv)'
  BY TypeStep, RememberStep
<1>3. RememberInv => RotationIsRemembered
  BY DEF RememberInv, Remembered, RotationIsRemembered, NothingLeftToDo
<1>4. QED
  BY <1>1, <1>2, <1>3, PTL DEF Spec
=============================================================================
