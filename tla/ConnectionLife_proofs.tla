------------------------ MODULE ConnectionLife_proofs ------------------------
(***************************************************************************)
(* What follows from the life of a connection alone, and so holds of every *)
(* module that implements it.                                              *)
(***************************************************************************)
EXTENDS ConnectionLife, TLAPS

States == {"none", "Connecting", "Connected", "Disconnecting", "Disconnected"}

(* The inductive invariant: a second report of its end takes a channel that is *)
(* registered again, which its first takes out.                                *)
LifeInv ==
    /\ state \in States /\ polled \in BOOLEAN /\ ups \in Nat /\ downs \in Nat
    /\ inMap \in BOOLEAN /\ removing \in BOOLEAN /\ establishing \in BOOLEAN
    /\ destroying \in BOOLEAN /\ stopped \in BOOLEAN
    /\ ReportedDown /\ HandedOn
    /\ downs = 2 => ~polled
    /\ state = "none" => ~inMap /\ ~destroying

LEMMA LifeInvInit == Init => LifeInv
<1> SUFFICES ASSUME Init PROVE LifeInv
  OBVIOUS
<1>1. /\ state \in {"none", "Connecting"} /\ inMap \in BOOLEAN /\ establishing \in BOOLEAN
      /\ (inMap <=> state = "Connecting") /\ (establishing <=> state = "Connecting")
  BY Zenon DEF Init
<1>2. /\ polled \in BOOLEAN /\ removing \in BOOLEAN /\ destroying \in BOOLEAN
      /\ stopped \in BOOLEAN /\ ~destroying
  BY Zenon DEF Init
<1>3. ups = 0 /\ downs = 0
  BY DEF Init
<1> QED BY <1>1, <1>2, <1>3 DEF LifeInv, States, ReportedDown, HandedOn

LEMMA LifeInvNext == LifeInv /\ [Next]_vars => LifeInv'
<1> SUFFICES ASSUME LifeInv, [Next]_vars PROVE LifeInv'
  OBVIOUS
<1> USE DEF LifeInv, States, ReportedDown, HandedOn
<1>1. CASE Accept
  BY <1>1 DEF Accept
<1>2. CASE Establish
  <2>1. ups' = 1 /\ downs = 0 /\ downs' = 0
    BY <1>2 DEF Establish
  <2>2. /\ state' = "Connected" /\ ~establishing' /\ establishing' \in BOOLEAN /\ polled' \in BOOLEAN
        /\ inMap' = inMap /\ removing' = removing /\ destroying' = destroying /\ stopped' = stopped
        /\ state = "Connecting"
    BY <1>2, Zenon DEF Establish
  <2> QED BY <2>1, <2>2
<1>3. CASE StartClosing
  BY <1>3 DEF StartClosing
<1>4. CASE Close
  BY <1>4 DEF Close, Open
<1>5. CASE Reregister
  BY <1>5 DEF Reregister
<1>6. CASE Remove
  BY <1>6 DEF Remove
<1>7. CASE Stop
  BY <1>7 DEF Stop
<1>8. CASE Drop
  BY <1>8 DEF Drop
<1>9. CASE Destroy
  <2>1. /\ ~destroying' /\ destroying' \in BOOLEAN /\ ~polled' /\ polled' \in BOOLEAN
        /\ ups' = ups /\ inMap' = inMap /\ removing' = removing /\ establishing' = establishing
        /\ stopped' = stopped /\ ~inMap /\ ~establishing
    BY <1>9, Zenon DEF Destroy
  <2>2. CASE state = "Connected"
    <3>1. downs' = 1 /\ state' = "Disconnected"
      BY <1>9, <2>2 DEF Destroy
    <3> QED BY <2>1, <2>2, <3>1
  <2>3. CASE state # "Connected"
    <3>1. downs' = downs /\ state' = state
      BY <1>9, <2>3, Zenon DEF Destroy
    <3> QED BY <2>1, <2>3, <3>1
  <2> QED BY <2>2, <2>3
<1>10. CASE UNCHANGED vars
  BY <1>10 DEF vars
<1> QED BY <1>1, <1>2, <1>3, <1>4, <1>5, <1>6, <1>7, <1>8, <1>9, <1>10 DEF Next

LEMMA LifeInvariant == Spec => []LifeInv
BY LifeInvInit, LifeInvNext, PTL DEF Spec

(* A connection is reported up once and, until the server is destroyed, down at *)
(* most once; after that at most twice (tcp_connection.cpp:132-164,211-224).    *)
THEOREM ReportedDownCorrect == Spec => []ReportedDown
<1>1. LifeInv => ReportedDown
  BY DEF LifeInv
<1> QED BY <1>1, LifeInvariant, PTL

(* No connection is lost between its loop and the base loop                *)
(* (tcp_server.cpp:28-37,52-98, tcp_connection.cpp:143-164,211-224).       *)
THEOREM HandedOnCorrect == Spec => []HandedOn
<1>1. LifeInv => HandedOn
  BY DEF LifeInv
<1> QED BY <1>1, LifeInvariant, PTL
=============================================================================
