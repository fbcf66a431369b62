------------------------ MODULE SessionRegistryProofs ------------------------
(***************************************************************************)
(* What SessionRegistry promises to the tools: consequences that hold of   *)
(* every program that implements it, for any devices and sessions, so of   *)
(* the managers of ssh_exec.py, http.py and redfish.py.                    *)
(***************************************************************************)
EXTENDS SessionRegistry, TLAPS

Registered == {reg[d] : d \in Devices} \ {None}

\* No session serves two devices.
OneDeviceEach == \A d, e \in Devices : reg[d] = reg[e] /\ reg[d] # None => d = e

\* What is registered was constructed.
IInv == TypeOK /\ OneDeviceEach /\ Registered \subseteq made

\* What a step does to one device and one session.
RegistryStep ==
    /\ \A s \in made : s \in Registered' => s \in Registered
    /\ \A d \in Devices : reg[d] # None /\ reg'[d] # reg[d] /\ reg'[d] # None => reg[d] \in ended
    /\ \A d, e \in Devices : reg[d] = reg'[e] /\ reg[d] # None => d = e
    /\ ended \subseteq ended'

-----------------------------------------------------------------------------
\* Nothing is registered at first.
LEMMA InitIInv == Init => IInv
BY DEF Init, IInv, TypeOK, OneDeviceEach, Registered

\* A device that finds no living session registers a new one.
LEMMA RegisterStep ==
    ASSUME IInv, NEW d \in Devices, NEW s \in Sessions, Register(d, s)
    PROVE  IInv' /\ RegistryStep
<1>1. /\ reg' = [reg EXCEPT ![d] = s] /\ made' = made \cup {s} /\ ended' = ended
      /\ s \notin made /\ reg[d] \in ended \cup {None}
  BY DEF Register
<1>2. TypeOK'
  BY <1>1 DEF IInv, TypeOK
<1>3. reg'[d] = s /\ \A e \in Devices \ {d} : reg'[e] = reg[e]
  BY <1>1 DEF IInv, TypeOK
<1>4. \A e \in Devices : reg[e] # None => reg[e] \in made
  BY DEF IInv, Registered
<1>5. OneDeviceEach'
  BY <1>1, <1>3, <1>4 DEF IInv, OneDeviceEach
<1>6. Registered' \subseteq made'
  BY <1>1, <1>3, <1>4 DEF Registered
<1>7. \A e \in Devices : reg'[e] # None => e = d \/ reg'[e] = reg[e]
  BY <1>3
<1>8. \A t \in made : t \in Registered' => t \in Registered
  BY <1>1, <1>3 DEF Registered
<1>9. RegistryStep
  BY <1>1, <1>3, <1>4, <1>8 DEF RegistryStep, IInv, OneDeviceEach
<1> QED
  BY <1>2, <1>5, <1>6, <1>9 DEF IInv

\* Devices are left without a session, and sessions end.
LEMMA ReleaseStep == ASSUME IInv, Release PROVE IInv' /\ RegistryStep
<1>1. TypeOK'
  BY DEF Release, IInv, TypeOK
<1>2. \A d \in Devices : reg'[d] # None => reg'[d] = reg[d]
  BY DEF Release
<1>3. OneDeviceEach'
  BY <1>2 DEF IInv, OneDeviceEach
<1>4. Registered' \subseteq Registered
  BY <1>2 DEF Registered
<1>5. RegistryStep
  BY <1>2, <1>4 DEF RegistryStep, IInv, OneDeviceEach, Release
<1> QED
  BY <1>1, <1>3, <1>4, <1>5 DEF IInv, Release

\* Nothing changes.
LEMMA QuietStep == ASSUME IInv, UNCHANGED vars PROVE IInv' /\ RegistryStep
BY DEF vars, IInv, TypeOK, OneDeviceEach, Registered, RegistryStep

\* A session serves the device it was made for, and no other.
THEOREM OneSessionOneDevice == Spec => []OneDeviceEach
<1>1. ASSUME IInv, [Next]_vars PROVE IInv'
  BY <1>1, RegisterStep, ReleaseStep, QuietStep DEF Next
<1>2. IInv => OneDeviceEach
  BY DEF IInv
<1> QED
  BY InitIInv, <1>1, <1>2, PTL DEF Spec

\* A session that left the registry never comes back, under its device or any
\* other; a living session is replaced by none; and what ended stays ended.
THEOREM LeavesForGood == Spec => [][RegistryStep]_vars
<1>1. ASSUME IInv, [Next]_vars PROVE IInv' /\ [RegistryStep]_vars
  BY <1>1, RegisterStep, ReleaseStep, QuietStep DEF Next
<1> QED
  BY InitIInv, <1>1, PTL DEF Spec
=============================================================================
