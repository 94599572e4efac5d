--------------------------- MODULE Desktop_proofs ---------------------------
(***************************************************************************)
(* What holds of the desk, for any places, windows, outputs and bounds.    *)
(* The parts share no state: a step of one leaves the others (PartSteps).  *)
(***************************************************************************)
EXTENDS MCDesktop, Sequences, FiniteSetTheorems, SequenceTheorems, WellFoundedInduction, TLAPS

--------------------
(* The camera (Camera).                                                    *)

\* Windows that are not where the camera shows them have a pass coming.
ArrangeIsComing == laid # cam => windowing \/ cPass = "busy"

CamInv ==
    /\ Cam!TypeOK /\ Cam!FlightIsDriven /\ Cam!BlurFollowsMotion /\ ArrangeIsComing

\* The camera starts at rest.
LEMMA CamInit == Cam!Init => CamInv
BY CameraAssumption DEF Cam!Init, CamInv, Cam!TypeOK, Cam!FlightIsDriven, Cam!BlurFollowsMotion,
   ArrangeIsComing, Cam!Places, Cam!Zooms

\* A camera moved within the desk is on it (Within, Toward).
LEMMA StaysWithin ==
    /\ \A n \in Int : Cam!Within(n) \in Cam!Places
    /\ \A a, b \in Cam!Places : Cam!Toward(a, b) \in Cam!Places
    /\ \A a, b \in Cam!Zooms : Cam!Toward(a, b) \in Cam!Zooms
BY CameraAssumption DEF Cam!Within, Cam!Toward, Cam!Places, Cam!Zooms

\* What Cam!TypeOK says of the fields of places.
LEMMA CamFields ==
    ASSUME Cam!TypeOK
    PROVE  /\ cam.p \in Cam!Places /\ cam.z \in Cam!Zooms
           /\ cam = [p |-> cam.p, z |-> cam.z]
           /\ ramp # None => ramp.to.p \in Cam!Places /\ ramp.to.z \in Cam!Zooms /\ ramp.left \in 0..2
BY DEF Cam!TypeOK

\* One step of what flies ends on the desk (advance_camera_animation).
LEMMA AdvancedStays ==
    ASSUME Cam!TypeOK, NEW c \in [p : Cam!Places, z : Cam!Zooms]
    PROVE  Cam!Advanced(c) \in [p : Cam!Places, z : Cam!Zooms]
<1> DEFINE flown == IF ramp = None THEN c
                    ELSE IF ramp.left = 0 THEN ramp.to
                    ELSE [p |-> Cam!Toward(c.p, ramp.to.p), z |-> Cam!Toward(c.z, ramp.to.z)]
           panned == IF toP = None THEN flown ELSE [flown EXCEPT !.p = Cam!Toward(@, toP)]
           zoomed == IF toZ = None THEN panned ELSE [panned EXCEPT !.z = Cam!Toward(@, toZ)]
           Spot == [p : Cam!Places, z : Cam!Zooms]
<1>1. flown \in Spot BY StaysWithin DEF Cam!TypeOK
<1>2. panned \in Spot
  <2> HIDE DEF flown
  <2>1. toP # None => toP \in Cam!Places BY DEF Cam!TypeOK
  <2>2. toP # None => Cam!Toward(flown.p, toP) \in Cam!Places BY <1>1, <2>1, StaysWithin
  <2> QED BY <1>1, <2>2
<1>3. zoomed \in Spot
  <2> HIDE DEF panned
  <2>1. toZ # None => toZ \in Cam!Zooms BY DEF Cam!TypeOK
  <2>2. toZ # None => Cam!Toward(panned.z, toZ) \in Cam!Zooms BY <1>2, <2>1, StaysWithin
  <2> QED BY <1>2, <2>2
<1>4. Cam!Advanced(c) = IF coast > 0 THEN [zoomed EXCEPT !.p = Cam!Within(@ + 1)] ELSE zoomed
  BY DEF Cam!Advanced
<1> HIDE DEF zoomed
<1>5. zoomed.p + 1 \in Int BY <1>3, CameraAssumption DEF Cam!Places
<1>6. Cam!Within(zoomed.p + 1) \in Cam!Places BY <1>5, StaysWithin
<1> QED BY <1>3, <1>4, <1>6

\* A frame steps what flies, and arranges or has a pass arrange (step_camera_frame).
LEMMA CamFrame == ASSUME CamInv, Cam!Frame PROVE CamInv'
<1> DEFINE moved == [p |-> Cam!Within(cam.p + pendP), z |-> IF pendZ = None THEN cam.z ELSE pendZ]
           Spot == [p : Cam!Places, z : Cam!Zooms]
<1>0. Cam!TypeOK /\ Cam!FlightIsDriven /\ Cam!BlurFollowsMotion /\ ArrangeIsComing BY DEF CamInv
<1>1. moved \in Spot
  <2>1. cam.p + pendP \in Int /\ cam.z \in Cam!Zooms BY <1>0, CamFields DEF Cam!TypeOK, Cam!Places
  <2>2. Cam!Within(cam.p + pendP) \in Cam!Places BY <2>1, StaysWithin
  <2> QED BY <1>0, <2>1, <2>2 DEF Cam!TypeOK
<1>2. UNCHANGED <<watchdog, cPass, waiter, answer, cEvents>> BY DEF Cam!Frame
<1>3. CASE ~anim /\ ~(pendP # 0 \/ pendZ # None)
  <2>1. UNCHANGED <<cam, cMode, Cam!flight, pendP, pendZ, laid, Cam!blur, windowing>>
    BY <1>3 DEF Cam!Frame
  <2> QED BY <1>0, <1>2, <2>1 DEF CamInv, Cam!TypeOK, Cam!FlightIsDriven, Cam!BlurFollowsMotion,
         ArrangeIsComing, Cam!flight, Cam!blur
<1>4. CASE anim \/ pendP # 0 \/ pendZ # None
  <2>1. /\ pendP' = 0 /\ pendZ' = None
        /\ cMode' = IF pendZ = None THEN cMode ELSE Cam!ModeFor(pendZ)
        /\ IF anim THEN Cam!Advance(moved) ELSE cam' = moved /\ UNCHANGED Cam!flight
        /\ IF cPass = "idle" THEN Cam!Relaid /\ UNCHANGED windowing
           ELSE windowing' = TRUE /\ frame' = FALSE /\ UNCHANGED <<laid, Cam!blur>>
    BY <1>4 DEF Cam!Frame
  <2> HIDE DEF moved
  <2>2. cMode' \in {"normal", "overview"} BY <1>0, <2>1 DEF Cam!TypeOK, Cam!ModeFor
  <2>3. /\ cam' \in Spot
        /\ ramp' = None \/ ramp' \in [to : [p : Cam!Places, z : Cam!Zooms], left : 0..2]
        /\ toP' \in Cam!Places \cup {None} /\ toZ' \in Cam!Zooms \cup {None}
        /\ coast' \in 0..2
        /\ Cam!FlightIsDriven'
    <3>1. CASE anim
      <4>1. Cam!Advance(moved) BY <2>1, <3>1
      <4>2. cam' \in Spot BY <1>0, <1>1, <4>1, AdvancedStays DEF Cam!Advance
      <4>3. ramp' = None \/ ramp' \in [to : [p : Cam!Places, z : Cam!Zooms], left : 0..2]
        <5>1. CASE ramp = None \/ ramp.left = 0 BY <4>1, <5>1 DEF Cam!Advance
        <5>2. CASE ~(ramp = None \/ ramp.left = 0)
          <6>1. ramp' = [ramp EXCEPT !.left = ramp.left - 1] BY <4>1, <5>2 DEF Cam!Advance
          <6>2. ramp \in [to : [p : Cam!Places, z : Cam!Zooms], left : 0..2] BY <1>0, <5>2 DEF Cam!TypeOK
          <6>3. ramp.left - 1 \in 0..2 BY <5>2, <6>2
          <6> QED BY <6>1, <6>2, <6>3
        <5> QED BY <5>1, <5>2
      <4>4. /\ toP' \in Cam!Places \cup {None} /\ toZ' \in Cam!Zooms \cup {None}
            /\ coast' \in 0..2
        BY <1>0, <4>1 DEF Cam!TypeOK, Cam!Advance
      <4>5. /\ anim' = (ramp' # None \/ toP' # None \/ toZ' # None \/ coast' > 0)
            /\ anchored' = (anchored /\ toZ' # None)
        BY <4>1 DEF Cam!Advance
      <4>6. Cam!FlightIsDriven' BY <1>0, <1>2, <3>1, <4>5 DEF Cam!FlightIsDriven
      <4> QED BY <4>2, <4>3, <4>4, <4>6
    <3>2. CASE ~anim
      <4>1. cam' = moved /\ UNCHANGED <<ramp, toP, toZ, anchored, coast, anim>>
        BY <2>1, <3>2 DEF Cam!flight
      <4> QED BY <1>0, <1>1, <1>2, <4>1 DEF Cam!TypeOK, Cam!FlightIsDriven
    <3> QED BY <3>1, <3>2
  <2>4. laid' \in Spot /\ freezeZ' \in Cam!Zooms /\ bakedZ' \in Cam!Zooms
        /\ Cam!BlurFollowsMotion' /\ ArrangeIsComing'
    <3>1. CASE cPass = "idle"
      <4>1. Cam!Relaid BY <2>1, <3>1
      <4>2. laid' = cam' BY <4>1 DEF Cam!Relaid
      <4>3. CASE cam' # laid
        <5>1. /\ cActive' = TRUE /\ frozen' = TRUE /\ settle' = TRUE /\ bakedZ' = bakedZ
              /\ freezeZ' = IF cActive THEN freezeZ ELSE cam'.z
          BY <4>1, <4>3 DEF Cam!Relaid
        <5> QED BY <1>0, <2>3, <4>2, <5>1 DEF Cam!TypeOK, Cam!BlurFollowsMotion, ArrangeIsComing
      <4>4. CASE cam' = laid
        <5>1. UNCHANGED <<cActive, frozen, settle, freezeZ, bakedZ>> BY <4>1, <4>4 DEF Cam!Relaid, Cam!blur
        <5> QED BY <1>0, <2>3, <4>2, <5>1 DEF Cam!TypeOK, Cam!BlurFollowsMotion, ArrangeIsComing
      <4> QED BY <4>3, <4>4
    <3>2. CASE cPass # "idle"
      <4>1. windowing' = TRUE /\ UNCHANGED <<laid, cActive, frozen, settle, freezeZ, bakedZ>>
        BY <2>1, <3>2 DEF Cam!blur
      <4> QED BY <1>0, <4>1 DEF Cam!TypeOK, Cam!BlurFollowsMotion, ArrangeIsComing
    <3> QED BY <3>1, <3>2
  <2>5. Cam!TypeOK' BY <1>0, <1>2, <2>1, <2>2, <2>3, <2>4 DEF Cam!TypeOK
  <2> QED BY <2>3, <2>4, <2>5 DEF CamInv
<1> QED BY <1>3, <1>4

\* Every step of the camera keeps all of it.
LEMMA CamNext == ASSUME CamInv, [Cam!Next]_(Cam!camVars) PROVE CamInv'
<1>0. Cam!TypeOK /\ Cam!FlightIsDriven /\ Cam!BlurFollowsMotion /\ ArrangeIsComing BY DEF CamInv
<1> DEFINE Parts == /\ Cam!TypeOK' /\ Cam!FlightIsDriven' /\ Cam!BlurFollowsMotion' /\ ArrangeIsComing'
<1> USE DEF Cam!flight, Cam!blur
<1>e. ASSUME Cam!Event PROVE cEvents' \in 0..CamEvents
  BY <1>0, <1>e, CameraAssumption DEF Cam!Event, Cam!TypeOK
<1>1. CASE UNCHANGED Cam!camVars
  BY <1>0, <1>1 DEF Cam!camVars, CamInv, Cam!TypeOK, Cam!FlightIsDriven, Cam!BlurFollowsMotion, ArrangeIsComing
<1>2. ASSUME NEW by \in {-1, 1}, Cam!WheelPan(by) PROVE CamInv'
  <2>1. (IF toP = None THEN cam.p ELSE toP) + by \in Int
    BY <1>0, <1>2, CamFields, CameraAssumption DEF Cam!TypeOK, Cam!Places
  <2>2. toP' \in Cam!Places BY <1>2, <2>1, StaysWithin DEF Cam!WheelPan
  <2>3. cEvents' \in 0..CamEvents BY <1>2, <1>e DEF Cam!WheelPan
  <2> QED BY <1>0, <1>2, <2>2, <2>3 DEF Cam!WheelPan, Cam!Start, CamInv, Cam!TypeOK, Cam!FlightIsDriven,
         Cam!BlurFollowsMotion, ArrangeIsComing
<1>3. ASSUME NEW by \in {-1, 1}, Cam!FingerPan(by) PROVE CamInv'
  BY <1>0, <1>3, <1>e DEF Cam!FingerPan, Cam!Stop, CamInv, Cam!TypeOK, Cam!FlightIsDriven,
     Cam!BlurFollowsMotion, ArrangeIsComing
<1>4. ASSUME NEW h \in Cam!Zooms, Cam!WheelZoom(h) PROVE CamInv'
  <2>1. h # None BY CameraAssumption DEF Cam!Zooms
  <2> QED BY <1>0, <1>4, <1>e, <2>1 DEF Cam!WheelZoom, Cam!Start, Cam!ModeFor, CamInv, Cam!TypeOK,
         Cam!FlightIsDriven, Cam!BlurFollowsMotion, ArrangeIsComing
<1>5. ASSUME NEW h \in Cam!Zooms, Cam!Pinch(h) PROVE CamInv'
  BY <1>0, <1>5, <1>e DEF Cam!Pinch, Cam!Stop, CamInv, Cam!TypeOK, Cam!FlightIsDriven,
     Cam!BlurFollowsMotion, ArrangeIsComing
<1>6. ASSUME NEW p \in Cam!Places, NEW h \in {0, 2}, NEW how \in {"ramp", "ease", "jump"},
             Cam!SetCamera(p, h, how)
      PROVE  CamInv'
  <2>0. h \in Cam!Zooms /\ cEvents' \in 0..CamEvents /\ cMode' \in {"normal", "overview"}
    BY <1>6, <1>e DEF Cam!SetCamera, Cam!Zooms, Cam!ModeFor
  <2>1. /\ UNCHANGED <<pendP, pendZ, laid, cActive, frozen, settle, freezeZ, bakedZ, cPass, waiter, answer>>
        /\ anchored' = FALSE /\ coast' = 0 /\ windowing' = (windowing \/ how = "jump")
    BY <1>6 DEF Cam!SetCamera
  <2>a. laid # cam => windowing' \/ cPass' = "busy" BY <1>0, <2>1 DEF ArrangeIsComing
  <2>2. CASE how = "ramp"
    <3>1. /\ ramp' = [to |-> [p |-> p, z |-> h], left |-> 2] /\ toP' = None /\ toZ' = None
          /\ anim' = TRUE /\ watchdog' = TRUE /\ cam' = cam
      BY <1>6, <2>2 DEF Cam!SetCamera, Cam!Start
    <3>2. ramp' \in [to : [p : Cam!Places, z : Cam!Zooms], left : 0..2] BY <2>0, <3>1
    <3> QED BY <1>0, <2>0, <2>1, <2>a, <3>1, <3>2 DEF CamInv, Cam!TypeOK, Cam!FlightIsDriven,
           Cam!BlurFollowsMotion, ArrangeIsComing
  <2>3. CASE how = "ease"
    <3>1. /\ ramp' = None /\ toP' = p /\ toZ' = h
          /\ anim' = TRUE /\ watchdog' = TRUE /\ cam' = cam
      BY <1>6, <2>3 DEF Cam!SetCamera, Cam!Start
    <3> QED BY <1>0, <2>0, <2>1, <2>a, <3>1 DEF CamInv, Cam!TypeOK, Cam!FlightIsDriven,
           Cam!BlurFollowsMotion, ArrangeIsComing
  <2>4. CASE how = "jump"
    <3>1. /\ ramp' = None /\ toP' = None /\ toZ' = None /\ windowing' = TRUE
          /\ cam' = [p |-> p, z |-> h] /\ anim' = FALSE /\ watchdog' = watchdog
      BY <1>6, <2>1, <2>4 DEF Cam!SetCamera
    <3>2. cam' \in [p : Cam!Places, z : Cam!Zooms] BY <2>0, <3>1
    <3> QED BY <1>0, <2>0, <2>1, <3>1, <3>2 DEF CamInv, Cam!TypeOK, Cam!FlightIsDriven,
           Cam!BlurFollowsMotion, ArrangeIsComing
  <2> QED BY <2>2, <2>3, <2>4
<1>7. ASSUME NEW p \in Cam!Places, NEW waits \in BOOLEAN, Cam!FocusWindow(p, waits) PROVE CamInv'
  <2>1. /\ cEvents' \in 0..CamEvents /\ windowing' = TRUE
        /\ UNCHANGED <<cam, cMode, ramp, toZ, anchored, coast, pendP, pendZ, laid, cActive, frozen,
                       settle, freezeZ, bakedZ, cPass>>
    BY <1>7, <1>e DEF Cam!FocusWindow
  <2>2. /\ toP' \in Cam!Places \cup {None}
        /\ (toP' = toP /\ anim' = anim /\ watchdog' = watchdog) \/ (anim' = TRUE /\ watchdog' = TRUE)
    BY <1>0, <1>7 DEF Cam!FocusWindow, Cam!Start, Cam!TypeOK
  <2>3. waiter' = None \/ waiter' \in [still : 0..StillPolls, box : Cam!Places \cup {None}, polls : 0..WaitPolls]
    <3>1. CASE waits /\ waiter = None
      <4>1. waiter' = [still |-> 0, box |-> None, polls |-> 0] BY <1>7, <3>1 DEF Cam!FocusWindow
      <4>2. 0 \in 0..StillPolls /\ 0 \in 0..WaitPolls BY CameraAssumption
      <4> QED BY <4>1, <4>2
    <3>2. CASE ~(waits /\ waiter = None)
      <4>1. waiter' = waiter BY <1>7, <3>2 DEF Cam!FocusWindow
      <4> QED BY <1>0, <4>1 DEF Cam!TypeOK
    <3> QED BY <3>1, <3>2
  <2> QED BY <1>0, <2>1, <2>2, <2>3 DEF CamInv, Cam!TypeOK, Cam!FlightIsDriven, Cam!BlurFollowsMotion,
         ArrangeIsComing
<1>8. ASSUME NEW closed \in BOOLEAN, Cam!Poll(closed) PROVE CamInv'
  <2> DEFINE s == IF Cam!Moving \/ waiter.box # laid.p THEN 0 ELSE waiter.still + 1
  <2>1. /\ waiter # None
        /\ IF closed THEN waiter' = None /\ answer' = "closed" /\ cEvents < CamEvents
           ELSE IF s >= StillPolls THEN waiter' = None /\ answer' = "settled"
           ELSE IF waiter.polls >= WaitPolls THEN waiter' = None /\ answer' = "still moving"
           ELSE waiter' = [still |-> s, box |-> laid.p, polls |-> waiter.polls + 1] /\ UNCHANGED answer
        /\ cEvents' = IF closed THEN cEvents + 1 ELSE cEvents
        /\ UNCHANGED <<cam, cMode, ramp, toP, toZ, anchored, coast, anim, watchdog, pendP, pendZ, frame, laid,
                       cActive, frozen, settle, freezeZ, bakedZ, cPass, windowing>>
    BY <1>8 DEF Cam!Poll
  <2>2. cEvents' \in 0..CamEvents
    <3>1. cEvents \in 0..CamEvents /\ CamEvents \in Nat BY <1>0, CameraAssumption DEF Cam!TypeOK
    <3>2. CASE closed BY <2>1, <3>1, <3>2
    <3>3. CASE ~closed BY <2>1, <3>1, <3>3
    <3> QED BY <3>2, <3>3
  <2>3. /\ waiter.still \in 0..StillPolls /\ waiter.polls \in 0..WaitPolls /\ laid.p \in Cam!Places
    BY <1>0, <2>1 DEF Cam!TypeOK
  <2>4. s \in Nat BY <2>3, CameraAssumption
  <2> HIDE DEF s
  <2>5. waiter' = None \/ waiter' \in [still : 0..StillPolls, box : Cam!Places \cup {None}, polls : 0..WaitPolls]
    <3>1. CASE ~closed /\ ~(s >= StillPolls) /\ ~(waiter.polls >= WaitPolls)
      <4>1. waiter' = [still |-> s, box |-> laid.p, polls |-> waiter.polls + 1] BY <2>1, <3>1
      <4>2. s \in 0..StillPolls /\ waiter.polls + 1 \in 0..WaitPolls BY <2>3, <2>4, <3>1, CameraAssumption
      <4> QED BY <2>3, <4>1, <4>2
    <3>2. CASE closed \/ s >= StillPolls \/ waiter.polls >= WaitPolls BY <2>1, <3>2
    <3> QED BY <3>1, <3>2
  <2> QED BY <1>0, <2>1, <2>2, <2>5 DEF CamInv, Cam!TypeOK, Cam!FlightIsDriven, Cam!BlurFollowsMotion,
         ArrangeIsComing
<1>9. CASE Cam!FingerLift
  BY <1>0, <1>9, <1>e DEF Cam!FingerLift, Cam!Start, CamInv, Cam!TypeOK, Cam!FlightIsDriven,
     Cam!BlurFollowsMotion, ArrangeIsComing
<1>10. CASE Cam!OtherAction
  BY <1>0, <1>10, <1>e DEF Cam!OtherAction, Cam!Stop, CamInv, Cam!TypeOK, Cam!FlightIsDriven,
     Cam!BlurFollowsMotion, ArrangeIsComing
<1>11. CASE Cam!FrameLost
  BY <1>0, <1>11, <1>e DEF Cam!FrameLost, CamInv, Cam!TypeOK, Cam!FlightIsDriven,
     Cam!BlurFollowsMotion, ArrangeIsComing
<1>12. CASE Cam!Watchdog
  BY <1>0, <1>12 DEF Cam!Watchdog, CamInv, Cam!TypeOK, Cam!FlightIsDriven, Cam!BlurFollowsMotion,
     ArrangeIsComing
<1>13. CASE Cam!Settle
  <2>1. bakedZ' \in Cam!Zooms BY <1>0, <1>13, CamFields DEF Cam!Settle, Cam!TypeOK
  <2> QED BY <1>0, <1>13, <2>1 DEF Cam!Settle, CamInv, Cam!TypeOK, Cam!FlightIsDriven,
         Cam!BlurFollowsMotion, ArrangeIsComing
<1>14. CASE Cam!PassStarts
  BY <1>0, <1>14 DEF Cam!PassStarts, CamInv, Cam!TypeOK, Cam!FlightIsDriven, Cam!BlurFollowsMotion,
     ArrangeIsComing
<1>15. CASE Cam!PassEnds
  BY <1>0, <1>15 DEF Cam!PassEnds, CamInv, Cam!TypeOK, Cam!FlightIsDriven, Cam!BlurFollowsMotion,
     ArrangeIsComing
<1> QED BY <1>1, <1>2, <1>3, <1>4, <1>5, <1>6, <1>7, <1>8, <1>9, <1>10, <1>11, <1>12, <1>13, <1>14, <1>15,
           CamFrame DEF Cam!Next

\* What the camera promises follows (camera.rs).
LEMMA CamSound == CamInv => Cam!TypeOK /\ Cam!CameraIsSound
BY DEF CamInv, Cam!CameraIsSound, Cam!DeskFollowsCamera, ArrangeIsComing, Cam!Moving, Cam!TypeOK

\* A window is said to hold still only when the camera does (poll_settle_waiters).
LEMMA CamSettles ==
    ASSUME CamInv, [Cam!Next]_(Cam!camVars)
    PROVE  [answer = "waits" /\ answer' = "settled" => ~anim /\ cPass = "idle" /\ laid = cam]_(Cam!camVars)
<1> SUFFICES ASSUME answer = "waits", answer' = "settled" PROVE ~anim /\ cPass = "idle" /\ laid = cam
  OBVIOUS
<1>1. Cam!Next /\ answer' # answer BY DEF Cam!camVars
<1>2. PICK closed \in BOOLEAN : Cam!Poll(closed)
  BY <1>1 DEF Cam!Next, Cam!WheelPan, Cam!FingerPan, Cam!WheelZoom, Cam!Pinch, Cam!SetCamera,
     Cam!FocusWindow, Cam!FingerLift, Cam!OtherAction, Cam!Frame, Cam!FrameLost, Cam!Watchdog,
     Cam!Settle, Cam!PassStarts, Cam!PassEnds
<1>3. ~Cam!Moving
  <2> DEFINE s == IF Cam!Moving \/ waiter.box # laid.p THEN 0 ELSE waiter.still + 1
  <2>1. s >= StillPolls BY <1>2 DEF Cam!Poll
  <2> QED BY <2>1, CameraAssumption
<1> QED BY <1>3 DEF CamInv, Cam!Moving, Cam!TypeOK, ArrangeIsComing

--------------------
(* The desktop grid (GridPatch).                                           *)

\* What Grid!TypeOK leaves out: where the camera is and is going.
GridTypes ==
    /\ gAt \in Int /\ z \in Nat /\ (to = None \/ to \in [p : Int, z : Nat, zoom : BOOLEAN])
    /\ serial \in Nat /\ style \in {0, 1}

\* The patch the client is told is the pending one, what it renders is the acked
\* one, and each of them is newer than what is on the screen.
Newer(a, b) == a # None => b = None \/ b.n <= a.n
ChainInOrder ==
    /\ heard = pending
    /\ acked # None => render # None /\ render.n = acked.n
    /\ render # None => render.n \in Nat
    /\ gBuffer # None => gBuffer.n \in Nat
    /\ Newer(pending, render) /\ Newer(pending, gBuffer) /\ Newer(render, gBuffer)
    /\ \A it \in {render, gBuffer} \ {None} : it.n <= serial

\* How often the camera will still move before it is at its destination.
StepsLeft == IF to = None THEN 0 ELSE IF gActive THEN 1 ELSE 2
\* The patch for the camera where it is, and the newest the client was sent.
Wanted == IF to # None /\ to.zoom THEN Grid!FlightPatch(z, to) ELSE Grid!RoomyPatch(gAt, z, to)
Newest == IF pending # None THEN pending ELSE IF acked # None THEN acked ELSE current
\* Whether the client may yet be sent it.
Owed == IF Newest # None /\ Newest.patch = Wanted /\ ~stale THEN 0 ELSE 1
\* One patch for each place the camera is at is as much as it costs.
SendsAreFew == sends + StepsLeft + Owed <= 3

GridInv ==
    /\ Grid!TypeOK /\ GridTypes /\ ChainInOrder /\ Grid!NoOldBufferAtNewAnchor /\ SendsAreFew

\* The grid starts with nothing sent.
LEMMA GridInit == Grid!Init => GridInv
<1> HAVE Grid!Init
<1>1. Grid!TypeOK
  <2>1. /\ pending = None /\ acked = None /\ current = None /\ sends = 0
        /\ stale = FALSE /\ flight = FALSE /\ hold = FALSE /\ cells = TRUE /\ gMapped = FALSE
        /\ bound = FALSE /\ gActive = FALSE /\ gDirty = FALSE
    BY DEF Grid!Init
  <2>2. {stale, flight, hold, cells, gMapped, bound, gActive, gDirty} \subseteq BOOLEAN BY <2>1
  <2>3. \A it \in {pending, acked, current} : it = None BY <2>1
  <2> QED BY <2>1, <2>2, <2>3 DEF Grid!TypeOK, Grid!MaxSends
<1>2. GridTypes BY DEF Grid!Init, GridTypes
<1>3. ChainInOrder /\ Grid!NoOldBufferAtNewAnchor
  BY DEF Grid!Init, ChainInOrder, Newer, Grid!NoOldBufferAtNewAnchor
<1>4. SendsAreFew
  <2>1. Owed \in {0, 1} /\ StepsLeft = 0 /\ sends = 0 BY DEF Owed, StepsLeft, Grid!Init
  <2> QED BY <2>1 DEF SendsAreFew
<1> QED BY <1>1, <1>2, <1>3, <1>4 DEF GridInv

\* A power of two is a number: it counts the subsets of a finite set.
LEMMA TwoToThe == \A h \in Nat : 2^h \in Nat
<1> TAKE h \in Nat
<1>1. IsFiniteSet(1..h) /\ Cardinality(1..h) = h BY FS_Interval
<1>2. IsFiniteSet(SUBSET (1..h)) /\ Cardinality(SUBSET (1..h)) = 2^Cardinality(1..h)
  BY <1>1, FS_SUBSET
<1> QED BY <1>1, <1>2, FS_CardinalityType

\* The patches asked for are of the desk, at a resolution there is.
LEMMA PatchesFit ==
    ASSUME NEW c \in Int, NEW h \in Nat, NEW t, t = None \/ t \in [p : Int, z : Nat, zoom : BOOLEAN]
    PROVE  /\ t # None => Grid!FlightPatch(h, t) \in Grid!Patch
           /\ Grid!RoomyPatch(c, h, t) # None => Grid!RoomyPatch(c, h, t) \in Grid!Patch
<1>f. \A x \in Int : Grid!Floor(x) \in Int /\ Grid!Ceil(x) \in Int
  BY GridAssumption DEF Grid!Floor, Grid!Ceil
<1>w. \A x \in Nat : Grid!Width(x) \in Int
  BY TwoToThe, GridAssumption DEF Grid!Width
<1>k. Grid!Halvings(h, t) \in 0..Coarsest
  BY GridAssumption DEF Grid!Halvings, Grid!Least
<1> DEFINE k == Grid!Halvings(h, t)
<1>c. Cap * 2^k \in Int BY <1>k, TwoToThe, GridAssumption
<1>m. \A a, b \in Int : Grid!Least(a, b) \in Int /\ Grid!Most(a, b) \in Int
  BY DEF Grid!Least, Grid!Most
<1> HIDE DEF k
<1>1. ASSUME t # None PROVE Grid!FlightPatch(h, t) \in Grid!Patch
  <2> DEFINE w == Grid!Width(t.z)
             lo == Grid!Floor(t.p - w \div 4)
             hi == Grid!Ceil(t.p + w + w \div 4)
             cap == Grid!Floor(Cap * 2^k)
             mid == Grid!Floor(t.p + w \div 2 - cap \div 2)
  <2>1. w \in Int /\ t.p \in Int BY <1>1, <1>w
  <2> HIDE DEF w
  <2>2. lo \in Int /\ hi \in Int BY <1>f, <2>1
  <2>3. cap \in Int BY <1>f, <1>c
  <2> HIDE DEF cap
  <2>4. mid \in Int BY <1>f, <2>1, <2>3
  <2>5. Grid!FlightPatch(h, t) = IF hi - lo <= cap THEN [lo |-> lo, hi |-> hi, k |-> k]
                                 ELSE [lo |-> mid, hi |-> mid + cap, k |-> k]
    BY DEF Grid!FlightPatch, k, cap, w
  <2> HIDE DEF lo, hi, mid
  <2> QED BY <1>k, <2>2, <2>3, <2>4, <2>5 DEF Grid!Patch, k
<1>2. ASSUME Grid!RoomyPatch(c, h, t) # None PROVE Grid!RoomyPatch(c, h, t) \in Grid!Patch
  <2> DEFINE w == Grid!Width(h)
             v == Grid!Width(t.z)
             full == Cap * 2^k
             lo == IF t = None THEN c ELSE Grid!Least(c, t.p - v \div 10)
             hi == IF t = None THEN c + w ELSE Grid!Most(c + w, t.p + v + v \div 10)
             wide == Grid!Floor(full)
             first == Grid!Floor((lo + hi - wide) \div 2)
             start == IF first + wide < hi THEN first + GridCell ELSE first
             slack == Grid!Least(full - (hi - lo), hi - lo) \div 2
  <2>1. w \in Int /\ full \in Int /\ (t # None => v \in Int /\ t.p \in Int) BY <1>w, <1>c
  <2>5. Grid!RoomyPatch(c, h, t) =
          IF hi - lo > full THEN None
          ELSE IF start <= lo /\ start + wide >= hi THEN [lo |-> start, hi |-> start + wide, k |-> k]
          ELSE [lo |-> Grid!Floor(lo - slack), hi |-> Grid!Ceil(hi + slack), k |-> k]
    BY DEF Grid!RoomyPatch, k
  <2> HIDE DEF w, v, full
  <2>2. lo \in Int /\ hi \in Int
    <3>1. CASE t = None BY <2>1, <3>1
    <3>2. CASE t # None
      <4>1. t.p - v \div 10 \in Int /\ c + w \in Int /\ t.p + v + v \div 10 \in Int BY <2>1, <3>2
      <4>2. Grid!Least(c, t.p - v \div 10) \in Int BY <1>m, <4>1
      <4>3. Grid!Most(c + w, t.p + v + v \div 10) \in Int BY <1>m, <4>1
      <4> QED BY <3>2, <4>2, <4>3
    <3> QED BY <3>1, <3>2
  <2> HIDE DEF lo, hi
  <2>3. wide \in Int /\ GridCell \in Int BY <1>f, <2>1, GridAssumption
  <2> HIDE DEF wide
  <2>4. first \in Int BY <1>f, <2>2, <2>3
  <2> HIDE DEF first
  <2>6. start \in Int BY <2>3, <2>4
  <2>7. Grid!Least(full - (hi - lo), hi - lo) \in Int BY <1>m, <2>1, <2>2
  <2>8. slack \in Int BY <2>7
  <2> HIDE DEF start, slack
  <2>9. Grid!Floor(lo - slack) \in Int /\ Grid!Ceil(hi + slack) \in Int BY <1>f, <2>2, <2>8
  <2> QED BY <1>2, <1>k, <2>3, <2>5, <2>6, <2>9 DEF Grid!Patch, k
<1> QED BY <1>1, <1>2

\* A patch was sent: it is the one for the camera, and the client did not have it.
Sent == /\ pending' = [n |-> serial + 1, patch |-> Wanted'] /\ heard' = pending' /\ serial' = serial + 1
        /\ Wanted' \in Grid!Patch
        /\ stale' = FALSE /\ sends' = Grid!Least(sends + 1, Grid!MaxSends)
        /\ stale \/ \A known \in {pending, acked, current} \ {None} : known.patch # Wanted'
\* Nothing was sent, though the serial may have been used up.
Unsent == UNCHANGED <<pending, stale, heard, sends>> /\ serial' \in {serial, serial + 1}

\* Arranging the desk sends the patch for the camera, or nothing (update_grid_patches).
LEMMA UpdateSends ==
    ASSUME Grid!UpdatePatches, flight \in BOOLEAN, gAt' \in Int, z' \in Nat,
           to' = None \/ to' \in [p : Int, z : Nat, zoom : BOOLEAN]
    PROVE  (Sent \/ Unsent) /\ flight' \in BOOLEAN
<1> DEFINE zoomFlight == to' # None /\ to'.zoom
           fits == Grid!RoomyPatch(gAt', z', to')
           upgrade == flight /\ ~zoomFlight /\ pending = None /\ acked = None
           moving == gActive \/ to' # None
           suits(it) == it # None /\ Grid!Covers(it.patch, gAt', z', to', moving)
           quiet == \/ ~gMapped
                    \/ ~stale /\ ~upgrade /\ suits(current)
                    \/ suits(pending) \/ acked # None
                    \/ ~zoomFlight /\ fits = None
           it == IF zoomFlight THEN Grid!FlightPatch(z', to') ELSE fits
<1>1. IF quiet THEN UNCHANGED <<pending, serial, stale, flight, heard, sends>> ELSE Grid!Send(it, zoomFlight)
  BY DEF Grid!UpdatePatches
<1>2. Wanted' = it BY DEF Wanted
<1>3. ~quiet => it \in Grid!Patch
  <2>1. to' # None => Grid!FlightPatch(z', to') \in Grid!Patch BY PatchesFit
  <2>2. fits # None => fits \in Grid!Patch BY PatchesFit
  <2> QED BY <2>1, <2>2
<1>4. zoomFlight \in BOOLEAN BY DEF zoomFlight
<1> HIDE DEF quiet, it, zoomFlight
<1>5. CASE quiet BY <1>1, <1>5 DEF Unsent
<1>6. CASE ~quiet
  <2>1. Grid!Send(it, zoomFlight) BY <1>1, <1>6
  <2>2. CASE ~Grid!News(it, stale) BY <1>4, <2>1, <2>2 DEF Grid!Send, Unsent
  <2>3. CASE Grid!News(it, stale) /\ ~bound BY <2>1, <2>3 DEF Grid!Send, Unsent
  <2>4. CASE Grid!News(it, stale) /\ bound
    <3>1. /\ serial' = serial + 1
          /\ pending' = [n |-> serial', patch |-> it] /\ heard' = pending'
          /\ stale' = FALSE /\ flight' = zoomFlight /\ sends' = Grid!Least(sends + 1, Grid!MaxSends)
      BY <2>1, <2>4 DEF Grid!Send
    <3>2. stale \/ \A known \in {pending, acked, current} \ {None} : known.patch # it
      BY <2>4 DEF Grid!News
    <3> QED BY <1>2, <1>3, <1>4, <1>6, <3>1, <3>2 DEF Sent
  <2> QED BY <2>2, <2>3, <2>4
<1> QED BY <1>5, <1>6

\* An arrange keeps the invariant, when the camera has made one of its steps or
\* is where it was.
LEMMA ArrangeKeeps ==
    ASSUME GridInv, Grid!Arrange, gAt' \in Int, z' \in Nat,
           to' = None \/ to' \in [p : Int, z : Nat, zoom : BOOLEAN],
           UNCHANGED <<gMapped, bound, acked, current, style, render, gBuffer, gEvents>>,
           gActive' \in BOOLEAN, gDirty' \in BOOLEAN,
           StepsLeft' + 1 <= StepsLeft \/ UNCHANGED <<gAt, z, to, gActive>>
    PROVE  GridInv'
<1>0. Grid!TypeOK /\ GridTypes /\ ChainInOrder /\ Grid!NoOldBufferAtNewAnchor /\ SendsAreFew BY DEF GridInv
<1>1. (Sent \/ Unsent) /\ flight' \in BOOLEAN BY <1>0, UpdateSends DEF Grid!Arrange, Grid!TypeOK
<1>2. hold' \in BOOLEAN /\ cells' \in BOOLEAN BY DEF Grid!Arrange, Grid!Cells
<1>3. GridTypes' BY <1>0, <1>1 DEF GridTypes, Sent, Unsent
<1>4. /\ sends \in Nat /\ StepsLeft \in Nat /\ StepsLeft' \in Nat /\ Owed \in {0, 1} /\ Owed' \in {0, 1}
      /\ sends <= 3 /\ sends + StepsLeft + Owed <= 3
  <2>1. sends \in Nat BY <1>0 DEF Grid!TypeOK, Grid!MaxSends
  <2>2. StepsLeft \in Nat /\ StepsLeft' \in Nat BY DEF StepsLeft
  <2>3. Owed \in {0, 1} /\ Owed' \in {0, 1} BY DEF Owed
  <2> QED BY <1>0, <2>1, <2>2, <2>3 DEF SendsAreFew
<1>a. \A s, l, m \in Nat, o, p \in {0, 1} :
        s + l + o <= 3 /\ m + 1 <= l => s + m + p <= 3 /\ (s + 1) + m + 0 <= 3
  OBVIOUS
<1>b. ASSUME StepsLeft' + 1 <= StepsLeft
      PROVE  sends + StepsLeft' + Owed' <= 3 /\ (sends + 1) + StepsLeft' + 0 <= 3
  BY <1>4, <1>a, <1>b, Zenon
<1>5. CASE Sent
  <2>1. pending'.n = serial + 1 /\ pending'.patch = Wanted' /\ pending' \in [n : Nat, patch : Grid!Patch]
    BY <1>0, <1>5 DEF Sent, GridTypes
  <2>2. pending' # None BY <2>1, GridAssumption
  <2>3. Owed' = 0
    <3>1. Newest' = pending' BY <2>2 DEF Newest
    <3> QED BY <1>5, <2>1, <2>2, <3>1 DEF Owed, Sent
  <2>4. sends' = sends + 1 BY <1>4, <1>5 DEF Sent, Grid!Least, Grid!MaxSends
  <2>5. SendsAreFew'
    <3>1. CASE StepsLeft' + 1 <= StepsLeft
      <4>1. sends' + StepsLeft' + Owed' <= 3 BY <1>b, <2>3, <2>4, <3>1, Zenon
      <4> QED BY <4>1 DEF SendsAreFew
    <3>2. CASE UNCHANGED <<gAt, z, to, gActive>>
      <4>1. StepsLeft' = StepsLeft /\ Wanted' = Wanted BY <3>2 DEF StepsLeft, Wanted
      <4>2. Newest # None => Newest \in {pending, acked, current} \ {None} BY DEF Newest
      <4>3. Owed = 1 BY <1>5, <4>1, <4>2 DEF Sent, Owed
      <4> QED BY <1>0, <1>4, <2>3, <2>4, <4>1, <4>3 DEF SendsAreFew
    <3> QED BY <3>1, <3>2
  <2>6. ChainInOrder'
    <3>1. heard' = pending' /\ serial' = serial + 1 /\ serial \in Nat BY <1>0, <1>5 DEF Sent, GridTypes
    <3> QED BY <1>0, <2>1, <3>1 DEF ChainInOrder, Newer
  <2>7. Grid!TypeOK'
    <3>1. serial' = serial + 1 /\ serial \in Nat /\ stale' = FALSE BY <1>0, <1>5 DEF Sent, GridTypes
    <3>2. \A it \in {pending', acked', current'} : it = None \/ (it.n \in 1..serial' /\ it.patch \in Grid!Patch)
      <4>1. \A it \in {acked, current} : it = None \/ (it.n \in 1..serial /\ it.patch \in Grid!Patch)
        BY <1>0 DEF Grid!TypeOK
      <4> QED BY <2>1, <3>1, <4>1
    <3>3. sends' \in 0..Grid!MaxSends BY <1>4, <2>4 DEF Grid!MaxSends
    <3>4. {stale', flight', hold', cells', gMapped', bound', gActive', gDirty'} \subseteq BOOLEAN
      BY <1>0, <1>1, <1>2, <3>1 DEF Grid!TypeOK
    <3> QED BY <3>2, <3>3, <3>4 DEF Grid!TypeOK
  <2> QED BY <1>0, <1>3, <2>5, <2>6, <2>7 DEF GridInv, Grid!NoOldBufferAtNewAnchor
<1>6. CASE Unsent
  <2>1. SendsAreFew'
    <3>1. CASE StepsLeft' + 1 <= StepsLeft
      <4>1. sends' = sends BY <1>6 DEF Unsent
      <4>2. sends' + StepsLeft' + Owed' <= 3 BY <1>b, <3>1, <4>1, Zenon
      <4> QED BY <4>2 DEF SendsAreFew
    <3>2. CASE UNCHANGED <<gAt, z, to, gActive>>
      <4>1. StepsLeft' = StepsLeft /\ Wanted' = Wanted BY <3>2 DEF StepsLeft, Wanted
      <4>2. Owed' = Owed BY <1>6, <4>1 DEF Unsent, Owed, Newest
      <4> QED BY <1>0, <1>6, <4>1, <4>2 DEF SendsAreFew, Unsent
    <3> QED BY <3>1, <3>2
  <2>2. serial \in Nat /\ serial' \in Nat /\ serial <= serial' BY <1>0, <1>6 DEF Unsent, GridTypes
  <2>3. ChainInOrder' BY <1>0, <1>6, <2>2 DEF ChainInOrder, Newer, Unsent
  <2>4. Grid!TypeOK'
    <3>1. \A it \in {pending', acked', current'} : it = None \/ (it.n \in 1..serial' /\ it.patch \in Grid!Patch)
      <4>1. \A it \in {pending, acked, current} : it = None \/ (it.n \in 1..serial /\ it.patch \in Grid!Patch)
        BY <1>0 DEF Grid!TypeOK
      <4> QED BY <1>6, <2>2, <4>1 DEF Unsent
    <3>2. sends' \in 0..Grid!MaxSends BY <1>0, <1>6 DEF Grid!TypeOK, Unsent
    <3>3. {stale', flight', hold', cells', gMapped', bound', gActive', gDirty'} \subseteq BOOLEAN
      BY <1>0, <1>1, <1>2, <1>6 DEF Grid!TypeOK, Unsent
    <3> QED BY <3>1, <3>2, <3>3 DEF Grid!TypeOK
  <2> QED BY <1>0, <1>3, <2>1, <2>3, <2>4 DEF GridInv, Grid!NoOldBufferAtNewAnchor
<1> QED BY <1>1, <1>5, <1>6

\* Every step of the grid keeps all of it.
LEMMA GridNext == ASSUME GridInv, [Grid!Next]_(Grid!patchVars) PROVE GridInv'
<1>0. Grid!TypeOK /\ GridTypes /\ ChainInOrder /\ Grid!NoOldBufferAtNewAnchor /\ SendsAreFew BY DEF GridInv
<1> USE DEF Grid!camera, Grid!world, Grid!patches, Grid!client
<1>s. /\ sends \in Nat /\ Owed \in {0, 1} /\ Owed' \in {0, 1} /\ StepsLeft \in 0..2 /\ StepsLeft' \in 0..2
      /\ serial \in Nat
  <2>1. sends \in Nat BY <1>0 DEF Grid!TypeOK, Grid!MaxSends
  <2>2. Owed \in {0, 1} /\ Owed' \in {0, 1} BY DEF Owed
  <2>3. StepsLeft \in 0..2 /\ StepsLeft' \in 0..2 BY DEF StepsLeft
  <2> QED BY <1>0, <2>1, <2>2, <2>3 DEF GridTypes
\* An event from outside starts the count afresh.
<1>a. ASSUME Grid!Afresh PROVE SendsAreFew'
  <2>1. sends' = 0 BY <1>a DEF Grid!Afresh
  <2>2. \A l \in 0..2, o \in {0, 1} : 0 + l + o <= 3 OBVIOUS
  <2>3. sends' + StepsLeft' + Owed' <= 3 BY <1>s, <2>1, <2>2, Zenon
  <2> QED BY <2>3 DEF SendsAreFew
<1>1. CASE UNCHANGED Grid!patchVars
  <2>1. Grid!TypeOK' /\ GridTypes' /\ ChainInOrder' /\ Grid!NoOldBufferAtNewAnchor'
    BY <1>0, <1>1 DEF Grid!patchVars, Grid!TypeOK, GridTypes, ChainInOrder, Newer, Grid!NoOldBufferAtNewAnchor
  <2>2. StepsLeft' = StepsLeft BY <1>1 DEF Grid!patchVars, StepsLeft
  <2>3. Owed' = Owed
    <3>1. Wanted' = Wanted BY <1>1 DEF Grid!patchVars, Wanted
    <3> QED BY <1>1, <3>1 DEF Grid!patchVars, Owed, Newest
  <2>4. sends' = sends BY <1>1 DEF Grid!patchVars
  <2>5. SendsAreFew' BY <1>0, <2>2, <2>3, <2>4 DEF SendsAreFew
  <2> QED BY <2>1, <2>5 DEF GridInv
<1>2. CASE Grid!Map
  <2>1. Grid!TypeOK'
    BY <1>0, <1>2 DEF Grid!Map, Grid!Afresh, Grid!TypeOK, Grid!MaxSends
  <2>2. GridTypes' /\ ChainInOrder' /\ Grid!NoOldBufferAtNewAnchor' /\ Grid!Afresh
    BY <1>0, <1>2 DEF Grid!Map, GridTypes, ChainInOrder, Newer, Grid!NoOldBufferAtNewAnchor
  <2> QED BY <1>a, <2>1, <2>2 DEF GridInv
<1>3. CASE Grid!Bind
  <2>1. Grid!TypeOK'
    BY <1>0, <1>3 DEF Grid!Bind, Grid!Afresh, Grid!TypeOK, Grid!MaxSends
  <2>2. GridTypes' /\ ChainInOrder' /\ Grid!NoOldBufferAtNewAnchor' /\ Grid!Afresh
    BY <1>0, <1>3 DEF Grid!Bind, GridTypes, ChainInOrder, Newer, Grid!NoOldBufferAtNewAnchor
  <2> QED BY <1>a, <2>1, <2>2 DEF GridInv
<1>4. ASSUME NEW p \in Anchors, NEW h \in ZoomOuts, Grid!Fly(p, h) PROVE GridInv'
  <2>1. Grid!TypeOK'
    BY <1>0, <1>4 DEF Grid!Fly, Grid!Afresh, Grid!TypeOK, Grid!MaxSends
  <2>2. ChainInOrder' /\ Grid!NoOldBufferAtNewAnchor' /\ Grid!Afresh
    BY <1>0, <1>4 DEF Grid!Fly, ChainInOrder, Newer, Grid!NoOldBufferAtNewAnchor
  <2>3. GridTypes'
    <3>1. to' = [p |-> p, z |-> h, zoom |-> h # z] BY <1>4 DEF Grid!Fly
    <3>2. p \in Int /\ h \in Nat /\ (h # z) \in BOOLEAN BY GridAssumption
    <3>3. to' \in [p : Int, z : Nat, zoom : BOOLEAN] BY <3>1, <3>2
    <3> QED BY <1>0, <1>4, <3>3 DEF Grid!Fly, GridTypes
  <2> QED BY <1>a, <2>1, <2>2, <2>3 DEF GridInv
<1>5. CASE Grid!Restyle
  <2>1. Grid!TypeOK'
    BY <1>0, <1>5 DEF Grid!Restyle, Grid!Afresh, Grid!TypeOK, Grid!MaxSends
  <2>2. GridTypes' /\ ChainInOrder' /\ Grid!NoOldBufferAtNewAnchor' /\ Grid!Afresh
    BY <1>0, <1>5 DEF Grid!Restyle, GridTypes, ChainInOrder, Newer, Grid!NoOldBufferAtNewAnchor
  <2> QED BY <1>a, <2>1, <2>2 DEF GridInv
<1>6. ASSUME NEW lands \in BOOLEAN, Grid!Step(lands) PROVE GridInv'
  <2>1. /\ Grid!Arrange /\ gActive' \in BOOLEAN /\ gDirty' \in BOOLEAN
        /\ UNCHANGED <<gMapped, bound, acked, current, style, render, gBuffer, gEvents>>
    BY <1>0, <1>6 DEF Grid!Step, Grid!TypeOK
  <2>2. /\ gAt' \in Int /\ z' \in Nat /\ (to' = None \/ to' \in [p : Int, z : Nat, zoom : BOOLEAN])
        /\ StepsLeft' + 1 <= StepsLeft
    <3>0. /\ to # None /\ to \in [p : Int, z : Nat, zoom : BOOLEAN] /\ gAt \in Int /\ z \in Nat
          /\ to.p \in Int /\ to.z \in Nat
      BY <1>0, <1>6 DEF Grid!Step, GridTypes
    <3>1. CASE lands
      <4>1. gAt' = to.p /\ z' = to.z /\ to' = None BY <1>6, <3>1 DEF Grid!Step
      <4> QED BY <3>0, <4>1 DEF StepsLeft
    <3>2. CASE ~lands
      <4>1. ~gActive /\ gActive' = TRUE /\ gAt' = Grid!Halfway(gAt, to.p) /\ z' = Grid!Halfway(z, to.z) /\ to' = to
        BY <1>6, <3>2 DEF Grid!Step
      <4>2. gAt' \in Int BY <3>0, <4>1 DEF Grid!Halfway
      <4>3. z' \in Nat BY <3>0, <4>1 DEF Grid!Halfway
      <4>4. StepsLeft' = 1 /\ StepsLeft = 2 BY <3>0, <4>1 DEF StepsLeft
      <4> QED BY <3>0, <4>1, <4>2, <4>3, <4>4
    <3> QED BY <3>1, <3>2
  <2> QED BY <2>1, <2>2, ArrangeKeeps
<1>7. CASE Grid!Settle
  <2>1. Grid!TypeOK' BY <1>0, <1>7 DEF Grid!Settle, Grid!TypeOK
  <2>2. GridTypes' /\ ChainInOrder' /\ Grid!NoOldBufferAtNewAnchor'
    BY <1>0, <1>7 DEF Grid!Settle, GridTypes, ChainInOrder, Newer, Grid!NoOldBufferAtNewAnchor
  <2>3. StepsLeft' = StepsLeft /\ sends' = sends BY <1>7 DEF Grid!Settle, StepsLeft
  <2>4. Owed' = Owed
    <3>1. Wanted' = Wanted BY <1>7 DEF Grid!Settle, Wanted
    <3> QED BY <1>7, <3>1 DEF Grid!Settle, Owed, Newest
  <2>5. SendsAreFew' BY <1>0, <2>3, <2>4 DEF SendsAreFew
  <2> QED BY <2>1, <2>2, <2>5 DEF GridInv
<1>8. CASE Grid!Pass
  <2>1. /\ Grid!Arrange /\ gActive' \in BOOLEAN /\ gDirty' \in BOOLEAN
        /\ UNCHANGED <<gMapped, bound, acked, current, style, render, gBuffer, gEvents>>
        /\ UNCHANGED <<gAt, z, to, gActive>>
    BY <1>0, <1>8 DEF Grid!Pass, Grid!TypeOK
  <2>2. gAt' \in Int /\ z' \in Nat /\ (to' = None \/ to' \in [p : Int, z : Nat, zoom : BOOLEAN])
    BY <1>0, <2>1 DEF GridTypes
  <2> QED BY <2>1, <2>2, ArrangeKeeps
<1>w. ASSUME UNCHANGED <<gAt, z, to, gActive, serial, stale, style, sends>>, Newest' = Newest
      PROVE  GridTypes' /\ SendsAreFew'
  <2>1. GridTypes' BY <1>0, <1>w DEF GridTypes
  <2>2. StepsLeft' = StepsLeft /\ Wanted' = Wanted BY <1>w DEF StepsLeft, Wanted
  <2>3. Owed' = Owed BY <1>w, <2>2 DEF Owed
  <2> QED BY <1>0, <1>w, <2>1, <2>2, <2>3 DEF SendsAreFew
<1>9. CASE Grid!Ack
  <2>1. /\ pending # None /\ render = None /\ acked = None
        /\ render' = [n |-> pending.n, patch |-> pending.patch, style |-> style] /\ heard' = None
        /\ pending' = None /\ acked' = pending
        /\ UNCHANGED <<gAt, z, to, gActive, gMapped, bound, style, current, serial, stale, flight, hold, cells,
                       gDirty, gBuffer, sends, gEvents>>
    BY <1>0, <1>9 DEF Grid!Ack, ChainInOrder
  <2>2. Grid!TypeOK' BY <1>0, <2>1 DEF Grid!TypeOK
  <2>3. Newest' = Newest BY <2>1 DEF Newest
  <2>4. ChainInOrder'
    <3>1. pending.n \in 1..serial BY <1>0, <2>1 DEF Grid!TypeOK
    <3>2. render' # None
      <4>1. render' \in [n : Nat, patch : Grid!Patch, style : {0, 1}]
        BY <1>0, <1>s, <2>1, <3>1 DEF Grid!TypeOK, GridTypes
      <4> QED BY <4>1, GridAssumption
    <3>3. render'.n = pending.n BY <2>1
    <3> QED BY <1>0, <1>s, <2>1, <3>1, <3>2, <3>3 DEF ChainInOrder, Newer
  <2>5. Grid!NoOldBufferAtNewAnchor' BY <1>0, <2>1 DEF Grid!NoOldBufferAtNewAnchor
  <2> QED BY <1>w, <2>1, <2>2, <2>3, <2>4, <2>5 DEF GridInv
<1>10. CASE Grid!Commit
  <2>1. /\ render # None /\ render' = None /\ gBuffer' = render
        /\ IF acked # None THEN current' = acked /\ acked' = None /\ gDirty' = TRUE
           ELSE UNCHANGED <<current, acked, gDirty>>
        /\ UNCHANGED <<gAt, z, to, gActive, gMapped, bound, style, pending, serial, stale, flight, hold, cells,
                       heard, sends, gEvents>>
    BY <1>10 DEF Grid!Commit
  <2>2. Grid!TypeOK' BY <1>0, <2>1 DEF Grid!TypeOK
  <2>3. Newest' = Newest BY <2>1 DEF Newest
  <2>4. ChainInOrder' BY <1>0, <2>1 DEF ChainInOrder, Newer
  <2>5. Grid!NoOldBufferAtNewAnchor'
    <3>1. /\ acked # None => acked.n \in 1..serial
          /\ current # None => current.n \in 1..serial
      BY <1>0 DEF Grid!TypeOK
    <3>2. CASE acked # None
      <4>1. current' = acked /\ render.n = acked.n BY <1>0, <2>1, <3>2 DEF ChainInOrder
      <4> QED BY <1>s, <2>1, <3>1, <3>2, <4>1 DEF Grid!NoOldBufferAtNewAnchor
    <3>3. CASE acked = None
      <4>1. current' = current BY <2>1, <3>3
      <4>2. gBuffer # None => gBuffer.n <= render.n /\ gBuffer.n \in Nat /\ render.n \in Nat
        BY <1>0, <2>1 DEF ChainInOrder, Newer
      <4>3. current # None => gBuffer # None /\ gBuffer.n >= current.n
        BY <1>0 DEF Grid!NoOldBufferAtNewAnchor
      <4> QED BY <1>s, <2>1, <3>1, <4>1, <4>2, <4>3 DEF Grid!NoOldBufferAtNewAnchor
    <3> QED BY <3>2, <3>3
  <2> QED BY <1>w, <2>1, <2>2, <2>3, <2>4, <2>5 DEF GridInv
<1> QED BY <1>1, <1>2, <1>3, <1>4, <1>5, <1>6, <1>7, <1>8, <1>9, <1>10 DEF Grid!Next

\* What the grid promises follows (grid_patches.rs).
LEMMA GridSound == GridInv => Grid!TypeOK /\ Grid!NoOldBufferAtNewAnchor /\ Grid!NoStorm
<1> SUFFICES ASSUME GridInv PROVE Grid!NoStorm BY DEF GridInv
<1>1. sends \in Nat /\ Owed \in {0, 1} /\ StepsLeft \in {0, 1, 2}
  BY DEF GridInv, Grid!TypeOK, Grid!MaxSends, Owed, StepsLeft
<1>2. \A s \in Nat, l \in {0, 1, 2}, o \in {0, 1} : s + l + o <= 3 => s < 6 OBVIOUS
<1>3. sends < 6 BY <1>1, <1>2, Zenon DEF GridInv, SendsAreFew
<1> QED BY <1>3 DEF Grid!NoStorm, Grid!MaxSends

\* Cells go only from under a latched patch (arrange_views).
LEMMA CellsAreCovered ==
    ASSUME [Grid!Next]_(Grid!patchVars)
    PROVE  [hold /\ cells /\ ~cells' /\ ~Grid!NoneShows =>
               /\ pending' = None /\ acked' = None
               /\ Grid!Reaches(current'.patch, gAt', gAt' + Grid!Width(z'))]_(Grid!patchVars)
<1> SUFFICES ASSUME hold, cells, ~cells', ~Grid!NoneShows
             PROVE  /\ pending' = None /\ acked' = None
                    /\ Grid!Reaches(current'.patch, gAt', gAt' + Grid!Width(z'))
  OBVIOUS
<1>1. Grid!Next BY DEF Grid!patchVars
<1>2. Grid!Arrange /\ current' = current /\ acked' = acked
  BY <1>1 DEF Grid!Next, Grid!Map, Grid!Bind, Grid!Fly, Grid!Restyle, Grid!Step, Grid!Settle, Grid!Pass,
     Grid!Ack, Grid!Commit
<1>3. Grid!Cells(pending', acked) BY <1>2 DEF Grid!Arrange
<1> QED BY <1>2, <1>3 DEF Grid!Cells, Grid!NoneShows

--------------------
(* The night light (NightLight).                                           *)

\* What Night!TypeOK leaves out: temperatures are numbers, outputs have flags.
Block == [night : Int, day : Int, mode : {"auto", "on", "off"}, sched : BOOLEAN]
Fades == [from : Int, to : Int, p : 0..FadeSteps - 1]
NightTypes ==
    /\ now \in 0..DayLen - 1 /\ jumped \in BOOLEAN /\ (config = None \/ config \in Block)
    /\ nMode \in {"auto", "on", "off"} /\ wait \in (0..Recheck) \cup {None} /\ nEvents \in 0..NightEvents
    /\ shown \in Int /\ lut = shown /\ nTarget \in Int /\ (fade = None \/ fade \in Fades)
    /\ hw \in [Outputs -> Int \cup {Ramp}] /\ soft \in [Outputs -> Int \cup {Ramp}]
    /\ {fresh, owned, client, refused, held, change, damage, tearing, missed} \subseteq [Outputs -> BOOLEAN]

\* While a schedule runs the timer does, and it fires before the factor moves on.
TimerRuns ==
    Night!Scheduled(config, nMode) =>
        /\ wait # None
        /\ ~jumped /\ wait # 0 =>
              /\ shown = Night!TargetNow(config, nMode) /\ fade = None
              /\ wait = 1 \/ wait <= Night!UntilTransition(now)

\* An output without a LUT has no client; one with its LUT sent has it, unless a
\* client had it or it was refused, and one without has a frame or a step coming.
OutputKept(o) ==
    /\ hw[o] \in {soft[o], 0}
    /\ o \in NoLut => ~client[o]
    /\ o \notin NoLut =>
          /\ change[o] /\ ~held[o] => ~fresh[o] \/ client[o] \/ missed[o]
          /\ fresh[o] /\ ~client[o] /\ ~held[o] /\ ~refused[o] /\ ~missed[o]
                => hw[o] = Night!OwnLut \/ (config = None /\ ~owned[o])
          /\ ~tearing[o] /\ wait # 0 /\ ~damage[o] /\ ~change[o]
                => ~Night!WantsCommit(config, fresh, o) \/ (config = None /\ ~owned[o])

NightInv == NightTypes /\ TimerRuns /\ \A o \in Outputs : OutputKept(o)

\* The night light starts neutral, with a step due.
LEMMA NightInit == Night!Init => NightInv
<1> HAVE Night!Init
<1>1. NightTypes
  <2>1. /\ now \in {0, Dusk} /\ jumped = FALSE /\ wait = 0 /\ nEvents = 0 /\ shown = 0 /\ lut = 0
        /\ nTarget = 0 /\ fade = None /\ config \in Blocks \cup {None}
        /\ nMode = IF config = None THEN "auto" ELSE config.mode
    BY DEF Night!Init
  <2>2. now \in 0..DayLen - 1 /\ 0 \in 0..Recheck /\ 0 \in 0..NightEvents BY <2>1, NightAssumption
  <2>3. config = None \/ config \in Block BY <2>1, NightAssumption DEF Block
  <2>4. nMode \in {"auto", "on", "off"} BY <2>1, <2>3 DEF Block
  <2>5. hw = [o \in Outputs |-> 0] /\ soft = hw BY DEF Night!Init
  <2>6. hw \in [Outputs -> Int \cup {Ramp}] /\ soft \in [Outputs -> Int \cup {Ramp}] BY <2>5
  <2>7. {fresh, owned, client, refused, held, change, damage, tearing, missed} \subseteq [Outputs -> BOOLEAN]
    BY DEF Night!Init
  <2>8. /\ now \in 0..DayLen - 1 /\ jumped \in BOOLEAN /\ (config = None \/ config \in Block)
        /\ nMode \in {"auto", "on", "off"} /\ wait \in (0..Recheck) \cup {None} /\ nEvents \in 0..NightEvents
        /\ shown \in Int /\ lut = shown /\ nTarget \in Int /\ (fade = None \/ fade \in Fades)
    <3>0. jumped = FALSE /\ shown = 0 /\ lut = 0 /\ nTarget = 0 /\ wait = 0 /\ nEvents = 0 BY <2>1, Zenon
    <3>j. jumped \in BOOLEAN BY <3>0, Zenon
    <3>1. shown \in Int /\ lut = shown /\ nTarget \in Int BY <3>0
    <3>2. wait \in (0..Recheck) \cup {None} /\ nEvents \in 0..NightEvents BY <2>2, <3>0
    <3> QED BY <2>1, <2>2, <2>3, <2>4, <3>j, <3>1, <3>2, Zenon
  <2> QED BY <2>6, <2>7, <2>8, Zenon DEF NightTypes
<1>2. TimerRuns
  <2>1. wait = 0 /\ None # 0 BY CameraAssumption DEF Night!Init
  <2> QED BY <2>1 DEF TimerRuns
<1>3. ASSUME NEW o \in Outputs PROVE OutputKept(o)
  <2>1. hw[o] = 0 /\ client[o] = FALSE /\ fresh[o] = FALSE /\ damage[o] = TRUE BY DEF Night!Init
  <2> QED BY <2>1 DEF OutputKept
<1> QED BY <1>1, <1>2, <1>3 DEF NightInv

\* A remainder of what is less than two days off.
LEMMA DayWindow ==
    ASSUME NEW x \in Int
    PROVE  /\ x \in 0..DayLen - 1 => x % DayLen = x
           /\ x + DayLen \in 0..DayLen - 1 => x % DayLen = x + DayLen
           /\ x + 2 * DayLen \in 0..DayLen - 1 => x % DayLen = x + 2 * DayLen
<1>1. DayLen \in Nat \ {0} BY NightAssumption
<1>2. ASSUME x \in 0..DayLen - 1 PROVE x % DayLen = x BY <1>1, <1>2
<1>3. ASSUME NEW k \in {1, 2}, x + k * DayLen \in 0..DayLen - 1 PROVE x % DayLen = x + k * DayLen
  <2>1. CASE k = 1 BY <1>1, <1>3, <2>1
  <2>2. CASE k = 2 BY <1>1, <1>3, <2>2
  <2> QED BY <2>1, <2>2
<1> QED BY <1>1, <1>2, <1>3

\* What of a schedule is numbers (night_factor, ms_until_transition).
LEMMA ScheduleTypes ==
    /\ Night!NightLen \in 0..DayLen - 1
    /\ Night!FadeLen \in Nat \ {0} /\ Night!FadeLen <= Night!Most(1, Night!Least(Night!NightLen, DayLen - Night!NightLen))
    /\ \A t \in Int : Night!NightFactor(t) \in 0..2 * Night!FadeLen
    /\ \A t \in Int : Night!UntilTransition(t) \in Nat
<1>1. Night!NightLen \in 0..DayLen - 1 BY NightAssumption DEF Night!NightLen
<1> DEFINE N == Night!NightLen
<1> HIDE DEF N
<1>2. N \in 0..DayLen - 1 /\ DayLen \in Nat \ {0} BY <1>1, NightAssumption DEF N
<1>3. Night!FadeLen \in Nat \ {0} /\ Night!FadeLen <= Night!Most(1, Night!Least(N, DayLen - N))
  BY <1>2, NightAssumption DEF Night!FadeLen, Night!Most, Night!Least, Night!Clamp, N
<1> DEFINE F == Night!FadeLen
<1> HIDE DEF F
<1>4. F \in Nat \ {0} BY <1>3 DEF F
<1>5. ASSUME NEW t \in Int PROVE Night!NightFactor(t) \in 0..2 * F
  <2> DEFINE slope(x) == Night!Clamp(F + 2 * x, 0, 2 * F)
             u == (t - Dusk) % DayLen
  <2>1. \A x \in Int : slope(x) \in 0..2 * F BY <1>4 DEF Night!Clamp, Night!Most, Night!Least
  <2>2. u \in Nat BY NightAssumption
  <2>3. Night!NightFactor(t) = CASE N = 0 -> 0
                                 [] u < N -> Night!Least(slope(u), slope(N - u))
                                 [] OTHER -> Night!Most(slope(N - u), slope(u - DayLen))
    BY DEF Night!NightFactor, N, F
  <2> HIDE DEF slope, u
  <2>4. slope(u) \in 0..2 * F /\ slope(N - u) \in 0..2 * F /\ slope(u - DayLen) \in 0..2 * F
    BY <1>2, <2>1, <2>2
  <2>5. CASE N = 0 BY <1>4, <2>2, <2>3, <2>5
  <2>6. CASE N # 0 /\ u < N
    <3>1. Night!NightFactor(t) = Night!Least(slope(u), slope(N - u)) BY <2>3, <2>6
    <3> QED BY <2>4, <3>1 DEF Night!Least
  <2>7. CASE N # 0 /\ ~(u < N)
    <3>1. Night!NightFactor(t) = Night!Most(slope(N - u), slope(u - DayLen)) BY <2>3, <2>7
    <3> QED BY <2>4, <3>1 DEF Night!Most
  <2> QED BY <2>5, <2>6, <2>7
<1>6. ASSUME NEW t \in Int PROVE Night!UntilTransition(t) \in Nat
  <2> DEFINE until(b) == (b - F \div 2 - t) % DayLen
  <2>1. F \div 2 \in Int BY <1>4
  <2>2. \A b \in Int : until(b) \in 0..DayLen - 1 BY <2>1, NightAssumption
  <2>3. Night!UntilTransition(t) = IF Night!NightFactor(t) \in 1..2 * F - 1 THEN 0
                                   ELSE Night!Least(until(Dusk), until(End))
    BY DEF Night!UntilTransition, F
  <2> HIDE DEF until
  <2>4. until(Dusk) \in Nat /\ until(End) \in Nat BY <2>2, NightAssumption
  <2>5. Night!Least(until(Dusk), until(End)) \in Nat BY <2>4 DEF Night!Least
  <2> QED BY <2>3, <2>5
<1> QED BY <1>1, <1>3, <1>5, <1>6 DEF N, F

\* A tick well before the next transition leaves the factor and is nearer to it.
LEMMA ClockTicks ==
    ASSUME NEW t \in 0..DayLen - 1, Night!UntilTransition(t) >= 2
    PROVE  /\ Night!NightFactor((t + 1) % DayLen) = Night!NightFactor(t)
           /\ Night!UntilTransition((t + 1) % DayLen) = Night!UntilTransition(t) - 1
<1> DEFINE N == Night!NightLen
           F == Night!FadeLen
           D == DayLen
           h == F \div 2
           s == (t + 1) % D
           At(x) == (x - Dusk) % D
           until(b, x) == (b - h - x) % D
           slope(x) == Night!Clamp(F + 2 * x, 0, 2 * F)
           u == At(t)
           v == At(s)
<1>n. /\ D \in Nat \ {0} /\ Dusk \in 0..D - 1 /\ End \in 0..D - 1
      /\ N \in 0..D - 1 /\ F \in Nat \ {0} /\ F <= D
      /\ N = (End - Dusk) % D
  <2>1. D \in Nat \ {0} /\ Dusk \in 0..D - 1 /\ End \in 0..D - 1 BY NightAssumption
  <2>2. N \in 0..D - 1 /\ F \in Nat \ {0} /\ F <= Night!Most(1, Night!Least(N, D - N)) BY ScheduleTypes
  <2>3. N = (End - Dusk) % D BY DEF Night!NightLen
  <2> HIDE DEF N, F, D
  <2>4. F <= D BY <2>1, <2>2 DEF Night!Most, Night!Least
  <2> QED BY <2>1, <2>2, <2>3, <2>4
<1>w. \A x \in Int : /\ x \in 0..D - 1 => x % D = x
                     /\ x + D \in 0..D - 1 => x % D = x + D
                     /\ x + 2 * D \in 0..D - 1 => x % D = x + 2 * D
  BY DayWindow
<1>f. \A x \in Int : Night!NightFactor(x) =
         CASE N = 0 -> 0
           [] At(x) < N -> Night!Least(slope(At(x)), slope(N - At(x)))
           [] OTHER -> Night!Most(slope(N - At(x)), slope(At(x) - D))
  BY DEF Night!NightFactor
<1>g. \A x \in Int : Night!UntilTransition(x) =
         IF Night!NightFactor(x) \in 1..2 * F - 1 THEN 0 ELSE Night!Least(until(Dusk, x), until(End, x))
  BY DEF Night!UntilTransition
<1>t. t \in 0..D - 1 OBVIOUS
<1>e. /\ \A x : At(x) = (x - Dusk) % D
      /\ \A b, x : until(b, x) = (b - h - x) % D
      /\ \A x : slope(x) = Night!Clamp(F + 2 * x, 0, 2 * F)
      /\ s = (t + 1) % D /\ u = At(t) /\ v = At(s)
  OBVIOUS
<1> HIDE DEF N, F, D, s, At, until, slope, u, v
<1>h. h \in Nat /\ 2 * h <= F /\ F <= 2 * h + 1 /\ 2 * h <= D BY <1>n
<1> HIDE DEF h
<1>1. u \in 0..D - 1 /\ u = (IF t >= Dusk THEN t - Dusk ELSE t - Dusk + D)
  <2>1. t - Dusk \in Int BY <1>n, <1>t
  <2> QED BY <1>n, <1>t, <1>w, <1>e, <2>1
<1>2. s \in 0..D - 1 /\ s = IF t + 1 = D THEN 0 ELSE t + 1
  <2>1. CASE t + 1 = D
    <3>1. (t + 1) % D = 0 BY <1>n, <2>1
    <3> QED BY <1>n, <1>e, <2>1, <3>1
  <2>2. CASE t + 1 # D
    <3>1. t + 1 \in 0..D - 1 BY <1>n, <1>t, <2>2
    <3> QED BY <1>n, <1>e, <1>w, <2>2, <3>1
  <2> QED BY <2>1, <2>2
<1>3. v = IF u + 1 = D THEN 0 ELSE u + 1
  <2>1. v \in 0..D - 1 /\ v = (IF s >= Dusk THEN s - Dusk ELSE s - Dusk + D)
    <3>1. s - Dusk \in Int BY <1>n, <1>2
    <3>2. v = (s - Dusk) % D BY <1>e, Zenon
    <3> QED BY <1>n, <1>2, <1>w, <3>1, <3>2
  <2> QED BY <1>n, <1>t, <1>1, <1>2, <2>1
<1>4. ASSUME NEW b \in 0..D - 1
      PROVE  /\ until(b, t) \in 0..D - 1
             /\ until(b, t) # 0 => until(b, s) = until(b, t) - 1
  <2> DEFINE x == b - h - t
             y == b - h - s
  <2>1. /\ x \in Int /\ x < D /\ x > -(2 * D)
        /\ y \in Int /\ y < D /\ y > -(2 * D)
    BY <1>n, <1>h, <1>t, <1>2
  <2>2. until(b, t) = (IF x >= 0 THEN x ELSE IF x >= -D THEN x + D ELSE x + 2 * D)
        /\ until(b, t) \in 0..D - 1
    <3>1. until(b, t) = x % D BY <1>e
    <3> HIDE DEF x
    <3> QED BY <1>n, <1>w, <2>1, <3>1
  <2>3. y = IF t + 1 = D THEN x - 1 + D ELSE x - 1 BY <1>n, <1>h, <1>t, <1>2
  <2>4. until(b, s) = y % D BY <1>e
  <2> HIDE DEF x, y
  <2>5. ASSUME until(b, t) # 0 PROVE until(b, s) = until(b, t) - 1
    <3>1. CASE y \in 0..D - 1
      <4>1. y % D = y BY <1>w, <2>1, <3>1
      <4> QED BY <1>n, <2>1, <2>2, <2>3, <2>4, <2>5, <3>1, <4>1
    <3>2. CASE y + D \in 0..D - 1
      <4>1. y % D = y + D BY <1>w, <2>1, <3>2
      <4> QED BY <1>n, <2>1, <2>2, <2>3, <2>4, <2>5, <3>2, <4>1
    <3>3. CASE y + 2 * D \in 0..D - 1
      <4>1. y % D = y + 2 * D BY <1>w, <2>1, <3>3
      <4> QED BY <1>n, <2>1, <2>2, <2>3, <2>4, <2>5, <3>3, <4>1
    <3> QED BY <1>n, <2>1, <2>2, <2>3, <2>5, <3>1, <3>2, <3>3
  <2> QED BY <2>2, <2>5
<1>5. /\ Night!NightFactor(t) \notin 1..2 * F - 1
      /\ Night!UntilTransition(t) = Night!Least(until(Dusk, t), until(End, t))
      /\ until(Dusk, t) >= 2 /\ until(End, t) >= 2
  <2>1. t \in Int BY <1>n, <1>t
  <2>2. until(Dusk, t) \in Int /\ until(End, t) \in Int BY <1>n, <1>4
  <2>3. Night!NightFactor(t) \notin 1..2 * F - 1 BY <1>g, <2>1
  <2>4. Night!UntilTransition(t) = Night!Least(until(Dusk, t), until(End, t)) BY <1>g, <2>1, <2>3
  <2> QED BY <2>2, <2>3, <2>4 DEF Night!Least
<1>6. Night!NightFactor(s) = Night!NightFactor(t)
  <2>0. s \in Int /\ t \in Int /\ v \in Int /\ u \in Int BY <1>n, <1>t, <1>1, <1>2, <1>3
  <2>r. \A x \in Int : slope(x) = IF F + 2 * x < 0 THEN 0 ELSE IF F + 2 * x < 2 * F THEN F + 2 * x ELSE 2 * F
    BY <1>e, <1>n DEF Night!Clamp, Night!Most, Night!Least
  <2>1. CASE N = 0
    <3>1. \A x \in {s, t} : At(x) >= 0 BY <1>e, <1>1, <1>3, <1>n, <2>1
    <3>2. Night!NightFactor(s) = 0 BY <1>f, <2>0, <2>1, <3>1, <1>e, <1>1, <1>3, <1>n
    <3>3. Night!NightFactor(t) = 0 BY <1>f, <2>0, <2>1, <3>1, <1>e, <1>1, <1>3, <1>n
    <3> QED BY <3>2, <3>3
  <2>2. CASE N # 0 /\ u < N
    <3>1. Night!NightFactor(t) = Night!Least(slope(u), slope(N - u)) BY <1>f, <1>e, <2>0, <2>2
    <3>2. slope(u) = (IF F + 2 * u < 2 * F THEN F + 2 * u ELSE 2 * F)
          /\ slope(N - u) = (IF F + 2 * (N - u) < 2 * F THEN F + 2 * (N - u) ELSE 2 * F)
      BY <1>n, <1>1, <2>r, <2>2
    <3>3. 2 * u >= F /\ 2 * (N - u) >= F /\ Night!NightFactor(t) = 2 * F
      BY <1>n, <1>1, <1>5, <2>2, <3>1, <3>2 DEF Night!Least
    <3>4. until(End, t) = N - u - h
      <4>u. until(End, t) = (End - h - t) % D BY <1>e, Zenon
      <4>1. until(End, t) = (End - h - t) % D /\ End - h - t \in Int BY <1>n, <1>h, <1>t, <4>u
      <4>2. N = (IF End >= Dusk THEN End - Dusk ELSE End - Dusk + D)
        <5>1. End - Dusk \in Int BY <1>n
        <5> QED BY <1>n, <1>w, <5>1
      <4>3. N - u - h \in 0..D - 1 BY <1>n, <1>1, <1>h, <2>2, <3>3
      <4>4. \/ N - u - h = End - h - t \/ N - u - h = End - h - t + D \/ N - u - h = End - h - t - D
        BY <1>n, <1>1, <1>t, <1>h, <4>2
      <4>5. CASE N - u - h = End - h - t BY <1>w, <4>1, <4>3, <4>5
      <4>6. CASE N - u - h = End - h - t + D BY <1>w, <4>1, <4>3, <4>6
      <4>7. CASE N - u - h = End - h - t - D BY <1>n, <1>t, <1>h, <4>3, <4>7
      <4> QED BY <4>4, <4>5, <4>6, <4>7
    <3>5. v = u + 1 /\ v < N /\ 2 * v >= F /\ 2 * (N - v) >= F
      BY <1>n, <1>h, <1>1, <1>3, <1>5, <2>2, <3>3, <3>4
    <3>6. Night!NightFactor(s) = Night!Least(slope(v), slope(N - v)) BY <1>f, <1>e, <2>0, <2>2, <3>5
    <3>7. slope(v) = 2 * F /\ slope(N - v) = 2 * F BY <1>n, <2>0, <2>r, <3>5
    <3> QED BY <1>n, <3>3, <3>6, <3>7 DEF Night!Least
  <2>3. CASE N # 0 /\ ~(u < N)
    <3>1. Night!NightFactor(t) = Night!Most(slope(N - u), slope(u - D)) BY <1>f, <1>e, <2>0, <2>3
    <3>2. slope(N - u) = (IF F + 2 * (N - u) < 0 THEN 0 ELSE F + 2 * (N - u))
          /\ slope(u - D) = (IF F + 2 * (u - D) < 0 THEN 0 ELSE F + 2 * (u - D))
      BY <1>n, <1>1, <2>r, <2>3
    <3>3. F + 2 * (N - u) <= 0 /\ F + 2 * (u - D) <= 0 /\ Night!NightFactor(t) = 0
      BY <1>n, <1>1, <1>5, <2>3, <3>1, <3>2 DEF Night!Most
    <3>4. until(Dusk, t) = D - u - h
      <4>u. until(Dusk, t) = (Dusk - h - t) % D BY <1>e, Zenon
      <4>1. until(Dusk, t) = (Dusk - h - t) % D /\ Dusk - h - t \in Int BY <1>n, <1>h, <1>t, <4>u
      <4>3. D - u - h \in 0..D - 1 BY <1>n, <1>1, <1>h, <2>3, <3>3
      <4>4. \/ D - u - h = Dusk - h - t \/ D - u - h = Dusk - h - t + D BY <1>n, <1>1, <1>t, <1>h
      <4>5. CASE D - u - h = Dusk - h - t BY <1>w, <4>1, <4>3, <4>5
      <4>6. CASE D - u - h = Dusk - h - t + D BY <1>w, <4>1, <4>3, <4>6
      <4> QED BY <4>4, <4>5, <4>6
    <3>5. v = u + 1 /\ ~(v < N) /\ F + 2 * (N - v) <= 0 /\ F + 2 * (v - D) <= 0
      BY <1>n, <1>h, <1>1, <1>3, <1>5, <2>3, <3>3, <3>4
    <3>6. Night!NightFactor(s) = Night!Most(slope(N - v), slope(v - D)) BY <1>f, <1>e, <2>0, <2>3, <3>5
    <3>7. slope(N - v) = 0 /\ slope(v - D) = 0
      <4>1. N - v \in Int /\ v - D \in Int BY <1>n, <2>0
      <4> QED BY <1>n, <2>0, <2>r, <3>5, <4>1
    <3> QED BY <3>3, <3>6, <3>7 DEF Night!Most
  <2> QED BY <2>1, <2>2, <2>3
<1>7. Night!UntilTransition(s) = Night!UntilTransition(t) - 1
  <2>1. until(Dusk, s) = until(Dusk, t) - 1 /\ until(End, s) = until(End, t) - 1
        /\ until(Dusk, t) \in Int /\ until(End, t) \in Int
    BY <1>n, <1>4, <1>5
  <2>2. Night!UntilTransition(s) = Night!Least(until(Dusk, s), until(End, s))
    <3>1. s \in Int BY <1>n, <1>2
    <3> QED BY <1>g, <1>5, <1>6, <3>1
  <2> QED BY <1>5, <2>1, <2>2 DEF Night!Least
<1> QED BY <1>6, <1>7, <1>e DEF D

\* The target and the fade to it are of temperatures (State::target, step).
LEMMA TargetTypes ==
    ASSUME NightTypes, NEW c, c = None \/ c \in Block, NEW m
    PROVE  /\ Night!TargetNow(c, m) \in Int
           /\ \/ Night!FadeTo(c, m) = None
              \/ Night!FadeTo(c, m) \in Fades /\ Night!FadeTo(c, m).to = Night!TargetNow(c, m)
<1>1. Night!TargetNow(c, m) \in Int
  <2>1. Night!NightFactor(now) \in Int /\ Night!FadeLen \in Nat \ {0}
    <3>1. now \in Int BY NightAssumption DEF NightTypes
    <3> QED BY <3>1, ScheduleTypes
  <2>2. CASE c = None BY <2>2 DEF Night!TargetNow, Night!Scheduled
  <2>3. CASE c # None
    <3>1. c.day \in Int /\ c.night \in Int BY <2>3 DEF Block
    <3>2. ((c.night - c.day) * Night!NightFactor(now)) \in Int BY <2>1, <3>1
    <3>3. Night!Blend(c, Night!NightFactor(now)) \in Int BY <2>1, <3>1, <3>2 DEF Night!Blend
    <3>4. Night!TargetNow(c, m) \in {c.day, c.night, Night!Blend(c, Night!NightFactor(now))}
      <4>1. CASE m = "off" BY <2>3, <4>1 DEF Night!TargetNow, Night!Scheduled
      <4>2. CASE m # "off" BY <2>3, <4>2 DEF Night!TargetNow
      <4> QED BY <4>1, <4>2
    <3> QED BY <3>1, <3>3, <3>4
  <2> QED BY <2>2, <2>3
<1>2. \/ Night!FadeTo(c, m) = None
      \/ Night!FadeTo(c, m) \in Fades /\ Night!FadeTo(c, m).to = Night!TargetNow(c, m)
  <2> DEFINE t == Night!TargetNow(c, m)
             from == IF fade # None THEN fade.to ELSE shown
  <2>1. Night!FadeTo(c, m) =
          IF Night!Far(from, t) THEN IF motion THEN [from |-> shown, to |-> t, p |-> 0] ELSE None
          ELSE IF fade # None THEN [fade EXCEPT !.to = t] ELSE None
    BY DEF Night!FadeTo
  <2>2. t \in Int /\ shown \in Int /\ (fade = None \/ fade \in Fades) BY <1>1 DEF NightTypes
  <2>3. 0 \in 0..FadeSteps - 1 BY NightAssumption
  <2>4. [from |-> shown, to |-> t, p |-> 0] \in Fades BY <2>2, <2>3 DEF Fades
  <2> HIDE DEF t, from
  <2>5. fade # None => [fade EXCEPT !.to = t] \in Fades /\ [fade EXCEPT !.to = t].to = t BY <2>2 DEF Fades
  <2>6. \/ Night!FadeTo(c, m) = None
        \/ Night!FadeTo(c, m) = [from |-> shown, to |-> t, p |-> 0]
        \/ fade # None /\ Night!FadeTo(c, m) = [fade EXCEPT !.to = t]
    <3>1. CASE Night!Far(from, t) /\ fade = None BY <2>1, <3>1
    <3>2. CASE ~Night!Far(from, t) /\ fade = None BY <2>1, <3>2
    <3>3. CASE fade # None BY <2>1, <3>3
    <3> QED BY <3>1, <3>2, <3>3
  <2>7. \/ Night!FadeTo(c, m) = None
        \/ Night!FadeTo(c, m) \in Fades /\ Night!FadeTo(c, m).to = t
    <3> DEFINE f == Night!FadeTo(c, m)
    <3>1. f = None \/ f = [from |-> shown, to |-> t, p |-> 0] \/ (fade # None /\ f = [fade EXCEPT !.to = t])
      BY <2>6
    <3> HIDE DEF f
    <3>2. CASE f = [from |-> shown, to |-> t, p |-> 0] BY <2>4, <3>2 DEF f
    <3>3. CASE fade # None /\ f = [fade EXCEPT !.to = t] BY <2>5, <3>3 DEF f
    <3> QED BY <3>1, <3>2, <3>3 DEF f
  <2> QED BY <2>7 DEF t
<1> QED BY <1>1, <1>2

\* A step towards the target leaves the timer right, and asks for the frames of
\* the outputs whose LUT has to change (kick).
LEMMA KickKeeps ==
    ASSUME NightInv, NEW c, c = None \/ c \in Block, NEW m \in {"auto", "on", "off"},
           NEW q \in Night!Steps, NEW regen \in BOOLEAN, Night!Kick(c, m, q, regen),
           config' = c, nMode' = m, now' = now, nEvents' \in 0..NightEvents,
           regen \/ (config = None <=> c = None), UNCHANGED Night!perOutput
    PROVE  NightInv'
<1>0. NightTypes /\ TimerRuns /\ \A o \in Outputs : OutputKept(o) BY DEF NightInv
<1>k. PICK t \in {Night!TargetNow(c, m)}, f \in {Night!FadeTo(c, m)} :
        /\ f # None => q >= f.p
        /\ nTarget' = t
        /\ fade' = IF f = None \/ q = FadeSteps THEN None ELSE [f EXCEPT !.p = q]
        /\ Night!Show(IF f = None THEN t ELSE f.from + ((f.to - f.from) * q) \div FadeSteps, regen)
        /\ damage' = [o \in Outputs |-> damage[o] \/ Night!WantsCommit(c, fresh', o)]
        /\ wait' = Night!NextStep(c, m, fade')
        /\ jumped' = FALSE
  BY DEF Night!Kick
<1>u. UNCHANGED <<owned, client, refused, held, change, tearing, soft, hw, missed>> BY DEF Night!perOutput
<1>1. t \in Int /\ (f = None \/ (f \in Fades /\ f.to = t)) BY <1>0, TargetTypes
<1>n. q \in 0..FadeSteps /\ FadeSteps \in Nat \ {0} BY NightAssumption DEF Night!Steps
<1>2. shown' \in Int /\ lut' = shown'
  <2> DEFINE k == IF f = None THEN t ELSE f.from + ((f.to - f.from) * q) \div FadeSteps
  <2>1. k \in Int
    <3>1. CASE f = None BY <1>1, <3>1
    <3>2. CASE f # None
      <4>1. f.from \in Int /\ f.to \in Int BY <1>1, <3>2 DEF Fades
      <4>2. (f.to - f.from) * q \in Int BY <1>n, <4>1
      <4>3. ((f.to - f.from) * q) \div FadeSteps \in Int BY <1>n, <4>2
      <4> QED BY <3>2, <4>1, <4>3
    <3> QED BY <3>1, <3>2
  <2>2. Night!Show(k, regen) BY <1>k
  <2> HIDE DEF k
  <2> QED BY <2>1, <2>2 DEF Night!Show
<1>3. /\ fade' = None \/ fade' \in Fades
      /\ fade' = None => shown' = t
  <2>1. CASE f = None BY <1>k, <2>1 DEF Night!Show
  <2>2. CASE f # None /\ q = FadeSteps
    <3>1. f.from \in Int /\ f.to = t BY <1>1, <2>2 DEF Fades
    <3>2. shown' = f.from + ((t - f.from) * FadeSteps) \div FadeSteps BY <1>k, <2>2, <3>1 DEF Night!Show
    <3>3. \A x \in Int, n \in Nat \ {0} : (x * n) \div n = x OBVIOUS
    <3>4. ((t - f.from) * FadeSteps) \div FadeSteps = t - f.from BY <1>1, <1>n, <3>1, <3>3
    <3>5. shown' = t BY <1>1, <3>1, <3>2, <3>4
    <3> QED BY <1>k, <2>2, <3>5
  <2>3. CASE f # None /\ q # FadeSteps
    <3>1. fade' = [f EXCEPT !.p = q] /\ f \in Fades /\ q \in 0..FadeSteps - 1 BY <1>k, <1>1, <1>n, <2>3
    <3>2. fade' \in Fades BY <3>1 DEF Fades
    <3>3. fade' # None BY <1>n, <3>2, NightAssumption DEF Fades
    <3> QED BY <3>2, <3>3
  <2> QED BY <2>1, <2>2, <2>3
<1>4. /\ wait' \in (0..Recheck) \cup {None}
      /\ Night!Scheduled(c, m) => /\ wait' # None
                                  /\ wait' # 0 => fade' = None /\ (wait' = 1 \/ wait' <= Night!UntilTransition(now))
  <2>0. None \notin Int /\ Recheck \in Nat \ {0} BY CameraAssumption, NightAssumption
  <2>1. Night!UntilTransition(now) \in Nat
    <3>1. now \in Int BY <1>0, NightAssumption DEF NightTypes
    <3> QED BY <3>1, ScheduleTypes
  <2>2. CASE fade' # None
    <3>1. wait' = 0
      <4>1. wait' = Night!NextStep(c, m, fade') BY <1>k
      <4> QED BY <2>2, <4>1 DEF Night!NextStep
    <3> QED BY <2>0, <3>1
  <2>3. CASE fade' = None /\ Night!Scheduled(c, m)
    <3>1. wait' = IF Night!UntilTransition(now) = 0 THEN 1 ELSE Night!Least(Night!UntilTransition(now), Recheck)
      <4>1. wait' = Night!NextStep(c, m, fade') BY <1>k
      <4> QED BY <2>3, <4>1 DEF Night!NextStep
    <3> QED BY <2>0, <2>1, <2>3, <3>1 DEF Night!Least
  <2>4. CASE fade' = None /\ ~Night!Scheduled(c, m)
    <3>1. wait' = None
      <4>1. wait' = Night!NextStep(c, m, fade') BY <1>k
      <4> QED BY <2>4, <4>1 DEF Night!NextStep
    <3> QED BY <2>4, <3>1
  <2> QED BY <2>2, <2>3, <2>4
<1>5. /\ fresh' = IF lut' # lut \/ regen THEN [o \in Outputs |-> FALSE] ELSE fresh
      /\ fresh' \in [Outputs -> BOOLEAN]
  <2>1. fresh' = IF lut' # lut \/ regen THEN [o \in Outputs |-> FALSE] ELSE fresh BY <1>k DEF Night!Show
  <2>2. fresh \in [Outputs -> BOOLEAN] /\ [o \in Outputs |-> FALSE] \in [Outputs -> BOOLEAN]
    BY <1>0 DEF NightTypes
  <2> QED BY <2>1, <2>2
<1>6. NightTypes'
  <2>1. {owned, client, refused, held, change, tearing, missed, damage} \subseteq [Outputs -> BOOLEAN]
    BY <1>0 DEF NightTypes
  <2>2. damage' \in [Outputs -> BOOLEAN]
    <3>1. \A o \in Outputs : (damage[o] \/ Night!WantsCommit(c, fresh', o)) \in BOOLEAN OBVIOUS
    <3> QED BY <1>k, <3>1
  <2>3. {fresh', owned', client', refused', held', change', damage', tearing', missed'} \subseteq [Outputs -> BOOLEAN]
    BY <1>u, <1>5, <2>1, <2>2
  <2>4. /\ hw' \in [Outputs -> Int \cup {Ramp}] /\ soft' \in [Outputs -> Int \cup {Ramp}]
        /\ now' \in 0..DayLen - 1
    BY <1>0, <1>u DEF NightTypes
  <2>5. jumped' \in BOOLEAN BY <1>k, Zenon
  <2>6. nTarget' \in Int BY <1>k, <1>1
  <2> QED BY <1>2, <1>3, <1>4, <2>3, <2>4, <2>5, <2>6, Zenon DEF NightTypes
<1>7. TimerRuns'
  <2>1. t = Night!TargetNow(c, m) OBVIOUS
  <2>2. Night!TargetNow(config, nMode)' = t BY <2>1 DEF Night!TargetNow, Night!Scheduled
  <2>3. Night!Scheduled(config, nMode)' = Night!Scheduled(c, m) BY DEF Night!Scheduled
  <2>4. Night!UntilTransition(now)' = Night!UntilTransition(now) OBVIOUS
  <2> QED BY <1>3, <1>4, <2>2, <2>3, <2>4 DEF TimerRuns
<1>8. ASSUME NEW o \in Outputs PROVE OutputKept(o)'
  <2>1. OutputKept(o) BY <1>0
  <2>2. fresh'[o] => fresh[o] /\ lut' = lut /\ ~regen BY <1>5
  <2>3. fresh'[o] => Night!OwnLut' = Night!OwnLut /\ (config = None <=> config' = None)
    BY <2>2 DEF Night!OwnLut
  <2>4. damage'[o] = (damage[o] \/ Night!WantsCommit(c, fresh', o)) BY <1>k
  <2>5. ~damage'[o] => ~Night!WantsCommit(config, fresh, o)'
    BY <1>u, <2>4 DEF Night!WantsCommit
  <2> QED BY <1>u, <2>1, <2>2, <2>3, <2>5 DEF OutputKept
<1> QED BY <1>6, <1>7, <1>8 DEF NightInv

\* What of an output OutputKept reads.
OfOutput(o) == <<hw[o], soft[o], client[o], change[o], held[o], fresh[o], missed[o], refused[o],
                 owned[o], tearing[o], damage[o]>>

\* An output nothing happened to keeps its promise.
LEMMA OthersKept ==
    ASSUME NEW o \in Outputs, OutputKept(o), UNCHANGED OfOutput(o), UNCHANGED <<lut, config>>,
           wait' # 0 => wait # 0
    PROVE  OutputKept(o)'
<1>1. UNCHANGED <<hw[o], soft[o], client[o], change[o], held[o], fresh[o], missed[o], refused[o],
                  owned[o], tearing[o], damage[o]>>
  BY DEF OfOutput
<1>2. Night!OwnLut' = Night!OwnLut BY DEF Night!OwnLut
<1>3. Night!WantsCommit(config, fresh, o)' = Night!WantsCommit(config, fresh, o)
  BY <1>1 DEF Night!WantsCommit
<1> QED BY <1>1, <1>2, <1>3 DEF OutputKept

\* What a frame that does this, with this LUT, leaves (render_and_commit, prepare).
FrameLeaves(o, lands, ok, does, lutIn, done) ==
    /\ UNCHANGED <<now, jumped, motion, config, nMode, shown, nTarget, fade, lut, wait, held, tearing>>
    /\ \A p \in Outputs \ {o} : UNCHANGED OfOutput(p)
    /\ lands \/ does = "send"
    /\ damage'[o] = ~ok /\ change'[o] = FALSE
    /\ client'[o] = (IF does \in {"no", "none"} THEN client[o] ELSE does = "aside")
    /\ refused'[o] = (IF does = "no" THEN refused[o] ELSE does = "send" /\ ~lands)
    /\ fresh'[o] = (fresh[o] \/ done)
    /\ owned'[o] = (IF does = "aside" THEN FALSE
                    ELSE IF does = "send" /\ lands /\ done THEN Night!OwnLut # 0 ELSE owned[o])
    /\ soft'[o] = (IF ok /\ lutIn # None THEN lutIn ELSE soft[o])
    /\ hw'[o] = (IF ok /\ lutIn # None THEN lutIn ELSE hw[o])
    /\ missed'[o] = (IF does \in {"send", "neutral"} THEN ~ok /\ (missed[o] \/ client[o] \/ change[o])
                     ELSE IF does = "aside" THEN FALSE
                     ELSE missed[o] \/ (~ok /\ change[o]))

\* A frame leaves its output so.
LEMMA FrameEffect ==
    ASSUME NightTypes, NEW o \in Outputs, NEW lands \in BOOLEAN, NEW ok \in BOOLEAN, Night!Frame(o, lands, ok),
           NEW does, does = Night!Prepare(o), NEW lutIn, lutIn = Night!Commits(o, does, lands),
           NEW done, done = Night!GenerationDone(o, does, ok \/ ~lands)
    PROVE  FrameLeaves(o, lands, ok, does, lutIn, done) /\ NightTypes'
<1>f. /\ lands \/ does = "send"
      /\ IF ok /\ lands THEN nEvents' = nEvents ELSE Night!Event
      /\ damage' = [damage EXCEPT ![o] = ~ok]
      /\ change' = [change EXCEPT ![o] = FALSE]
      /\ client' = [client EXCEPT ![o] = CASE does \in {"no", "none"} -> client[o] [] OTHER -> does = "aside"]
      /\ refused' = [refused EXCEPT ![o] = IF does = "no" THEN refused[o] ELSE does = "send" /\ ~lands]
      /\ fresh' = [fresh EXCEPT ![o] = fresh[o] \/ done]
      /\ owned' = [owned EXCEPT ![o] = CASE does = "aside" -> FALSE
                                         [] does = "send" /\ lands /\ done -> Night!OwnLut # 0
                                         [] OTHER -> owned[o]]
      /\ soft' = [soft EXCEPT ![o] = IF ok /\ lutIn # None THEN lutIn ELSE soft[o]]
      /\ hw' = [hw EXCEPT ![o] = IF ok /\ lutIn # None THEN lutIn ELSE hw[o]]
      /\ missed' = [missed EXCEPT ![o] =
                       CASE does \in {"send", "neutral"} -> ~ok /\ (missed[o] \/ client[o] \/ change[o])
                         [] does = "aside" -> FALSE
                         [] OTHER -> missed[o] \/ (~ok /\ change[o])]
      /\ UNCHANGED <<now, jumped, motion, config, nMode, shown, nTarget, fade, lut, wait, held, tearing>>
  BY DEF Night!Frame
<1>t. /\ {fresh, owned, client, refused, held, change, damage, tearing, missed} \subseteq [Outputs -> BOOLEAN]
      /\ hw \in [Outputs -> Int \cup {Ramp}] /\ soft \in [Outputs -> Int \cup {Ramp}] /\ lut \in Int
  BY DEF NightTypes
<1> DEFINE Cl == IF does \in {"no", "none"} THEN client[o] ELSE does = "aside"
           Re == IF does = "no" THEN refused[o] ELSE does = "send" /\ ~lands
           Ow == IF does = "aside" THEN FALSE
                 ELSE IF does = "send" /\ lands /\ done THEN Night!OwnLut # 0 ELSE owned[o]
           So == IF ok /\ lutIn # None THEN lutIn ELSE soft[o]
           Hw == IF ok /\ lutIn # None THEN lutIn ELSE hw[o]
           Mi == IF does \in {"send", "neutral"} THEN ~ok /\ (missed[o] \/ client[o] \/ change[o])
                 ELSE IF does = "aside" THEN FALSE
                 ELSE missed[o] \/ (~ok /\ change[o])
<1>b. {Cl, Re, Ow, Mi, ok, ~ok, fresh[o] \/ done, FALSE} \subseteq BOOLEAN
  <2>1. {client[o], refused[o], owned[o], missed[o], change[o], fresh[o]} \subseteq BOOLEAN BY <1>t
  <2>2. done \in BOOLEAN BY DEF Night!GenerationDone
  <2> QED BY <2>1, <2>2
<1>l. lutIn = None \/ lutIn \in Int \cup {Ramp} BY <1>t DEF Night!Commits, Night!OwnLut
<1>h. {So, Hw} \subseteq Int \cup {Ramp} BY <1>l, <1>t
<1>1. /\ client' = [client EXCEPT ![o] = Cl] /\ refused' = [refused EXCEPT ![o] = Re]
      /\ owned' = [owned EXCEPT ![o] = Ow] /\ missed' = [missed EXCEPT ![o] = Mi]
      /\ soft' = [soft EXCEPT ![o] = So] /\ hw' = [hw EXCEPT ![o] = Hw]
  <2>1. (CASE does \in {"no", "none"} -> client[o] [] OTHER -> does = "aside") = Cl OBVIOUS
  <2>2. (CASE does = "aside" -> FALSE
           [] does = "send" /\ lands /\ done -> Night!OwnLut # 0
           [] OTHER -> owned[o]) = Ow
    OBVIOUS
  <2>3. (CASE does \in {"send", "neutral"} -> ~ok /\ (missed[o] \/ client[o] \/ change[o])
           [] does = "aside" -> FALSE
           [] OTHER -> missed[o] \/ (~ok /\ change[o])) = Mi
    OBVIOUS
  <2> QED BY <1>f, <2>1, <2>2, <2>3
<1> HIDE DEF Cl, Re, Ow, Mi, So, Hw
<1>2. /\ client'[o] = Cl /\ refused'[o] = Re /\ owned'[o] = Ow /\ missed'[o] = Mi /\ soft'[o] = So
      /\ hw'[o] = Hw /\ damage'[o] = ~ok /\ change'[o] = FALSE /\ fresh'[o] = (fresh[o] \/ done)
  <2>1. client'[o] = Cl /\ refused'[o] = Re /\ owned'[o] = Ow /\ missed'[o] = Mi BY <1>t, <1>1
  <2>2. soft'[o] = So /\ hw'[o] = Hw BY <1>t, <1>1
  <2>3. damage'[o] = ~ok /\ change'[o] = FALSE /\ fresh'[o] = (fresh[o] \/ done) BY <1>f, <1>t
  <2> QED BY <2>1, <2>2, <2>3
<1>3. \A p \in Outputs \ {o} : UNCHANGED OfOutput(p) BY <1>f, <1>t, <1>1 DEF OfOutput
<1>4. NightTypes'
  <2>1. {fresh', owned', client', refused', held', change', damage', tearing', missed'} \subseteq [Outputs -> BOOLEAN]
    <3>1. /\ client' \in [Outputs -> BOOLEAN] /\ refused' \in [Outputs -> BOOLEAN] /\ owned' \in [Outputs -> BOOLEAN]
          /\ missed' \in [Outputs -> BOOLEAN]
      BY <1>b, <1>t, <1>1
    <3>2. /\ fresh' \in [Outputs -> BOOLEAN] /\ change' \in [Outputs -> BOOLEAN] /\ damage' \in [Outputs -> BOOLEAN]
          /\ held' \in [Outputs -> BOOLEAN] /\ tearing' \in [Outputs -> BOOLEAN]
      BY <1>b, <1>t, <1>f
    <3> QED BY <3>1, <3>2
  <2>2. hw' \in [Outputs -> Int \cup {Ramp}] /\ soft' \in [Outputs -> Int \cup {Ramp}] BY <1>h, <1>t, <1>1
  <2>3. nEvents' \in 0..NightEvents
    BY <1>f, NightAssumption DEF NightTypes, Night!Event
  <2> QED BY <1>f, <2>1, <2>2, <2>3 DEF NightTypes
<1> QED BY <1>f, <1>2, <1>3, <1>4 DEF Cl, Re, Ow, Mi, So, Hw, FrameLeaves

\* A frame keeps what its output is promised, whatever it carries and whether it
\* is committed.
LEMMA FrameKeeps ==
    ASSUME NightInv, NEW o \in Outputs, NEW lands \in BOOLEAN, NEW ok \in BOOLEAN, Night!Frame(o, lands, ok)
    PROVE  NightInv'
<1>0. NightTypes /\ TimerRuns /\ \A p \in Outputs : OutputKept(p) BY DEF NightInv
<1> DEFINE does == Night!Prepare(o)
           lutIn == Night!Commits(o, does, lands)
           done == Night!GenerationDone(o, does, ok \/ ~lands)
<1>d. /\ does = Night!Prepare(o) /\ lutIn = Night!Commits(o, does, lands)
      /\ done = Night!GenerationDone(o, does, ok \/ ~lands)
  OBVIOUS
<1> HIDE DEF does, lutIn, done
<1>1. /\ UNCHANGED <<now, jumped, motion, config, nMode, shown, nTarget, fade, lut, wait, held, tearing>>
      /\ \A p \in Outputs \ {o} : UNCHANGED OfOutput(p)
      /\ lands \/ does = "send"
      /\ damage'[o] = ~ok /\ change'[o] = FALSE
      /\ client'[o] = (IF does \in {"no", "none"} THEN client[o] ELSE does = "aside")
      /\ refused'[o] = (IF does = "no" THEN refused[o] ELSE does = "send" /\ ~lands)
      /\ fresh'[o] = (fresh[o] \/ done)
      /\ owned'[o] = (IF does = "aside" THEN FALSE
                      ELSE IF does = "send" /\ lands /\ done THEN Night!OwnLut # 0 ELSE owned[o])
      /\ soft'[o] = (IF ok /\ lutIn # None THEN lutIn ELSE soft[o])
      /\ hw'[o] = (IF ok /\ lutIn # None THEN lutIn ELSE hw[o])
      /\ missed'[o] = (IF does \in {"send", "neutral"} THEN ~ok /\ (missed[o] \/ client[o] \/ change[o])
                       ELSE IF does = "aside" THEN FALSE
                       ELSE missed[o] \/ (~ok /\ change[o]))
      /\ NightTypes'
  <2>1. FrameLeaves(o, lands, ok, does, lutIn, done) /\ NightTypes' BY <1>0, <1>d, FrameEffect, Zenon
  <2> QED BY <2>1, Zenon DEF FrameLeaves
<1>2. TimerRuns'
  <2>1. Night!TargetNow(config, nMode)' = Night!TargetNow(config, nMode)
        /\ Night!Scheduled(config, nMode)' = Night!Scheduled(config, nMode)
        /\ Night!UntilTransition(now)' = Night!UntilTransition(now)
    BY <1>1 DEF Night!TargetNow, Night!Scheduled
  <2> QED BY <1>0, <1>1, <2>1 DEF TimerRuns
<1>3. ASSUME NEW p \in Outputs \ {o} PROVE OutputKept(p)' BY <1>0, <1>1, OthersKept
<1>4. OutputKept(o)'
  <2>0. OutputKept(o) BY <1>0
  <2>b. {client[o], change[o], held[o], fresh[o], missed[o], refused[o], owned[o], tearing[o]} \subseteq BOOLEAN
    BY <1>0 DEF NightTypes
  <2>o. Night!OwnLut' = Night!OwnLut /\ Night!OwnLut = (IF config = None THEN 0 ELSE lut) BY <1>1 DEF Night!OwnLut
  <2>n. 0 # None /\ Ramp # 0 /\ Night!OwnLut \in Int /\ Night!OwnLut # None
    BY <1>0, <2>o, CameraAssumption, NightAssumption DEF NightTypes
  <2>w. Night!WantsCommit(config, fresh, o)' =
           IF client'[o] THEN ~held[o] ELSE ~fresh'[o] /\ (config # None \/ owned'[o])
    BY <1>1 DEF Night!WantsCommit
  <2>l. lutIn = IF does = "send" /\ lands THEN Night!OwnLut
                ELSE IF ~change[o] THEN None ELSE IF held[o] THEN Ramp ELSE 0
    BY <1>d DEF Night!Commits
  <2>d. done = (does \notin {"no", "send"} \/ (does = "send" /\ (ok \/ ~lands))) BY <1>d DEF Night!GenerationDone
  <2>p. does = IF tearing[o] \/ (fresh[o] /\ ~client[o]) THEN "no"
               ELSE IF (config = None /\ ~owned[o]) \/ o \in NoLut THEN "none"
               ELSE IF held[o] THEN "aside"
               ELSE IF (config = None \/ lut = 0) /\ ~owned[o] /\ soft[o] = 0 THEN "neutral" ELSE "send"
    BY <1>d DEF Night!Prepare
  <2>1. hw'[o] \in {soft'[o], 0} BY <1>1, <2>0 DEF OutputKept
  <2>2. o \in NoLut => ~client'[o] BY <1>1, <2>0, <2>p DEF OutputKept
  <2>3. ASSUME o \notin NoLut, fresh'[o], ~client'[o], ~held'[o], ~refused'[o], ~missed'[o]
        PROVE  hw'[o] = Night!OwnLut' \/ (config' = None /\ ~owned'[o])
    <3>1. CASE does = "no"
      <4>1. UNCHANGED <<client[o], refused[o], owned[o], fresh[o], held[o]>> BY <1>1, <2>d, <3>1, <2>b
      <4>2. ~missed[o] /\ (ok \/ ~change[o]) BY <1>1, <2>3, <3>1
      <4>3. hw[o] = Night!OwnLut \/ (config = None /\ ~owned[o]) BY <2>0, <2>3, <4>1, <4>2 DEF OutputKept
      <4>4. ~change[o] BY <2>0, <2>3, <4>1, <4>2 DEF OutputKept
      <4>5. hw'[o] = hw[o] BY <1>1, <2>l, <3>1, <4>4
      <4> QED BY <1>1, <2>o, <4>1, <4>3, <4>5
    <3>2. CASE does = "none"
      <4>1. config = None /\ ~owned[o] BY <2>3, <2>p, <3>2
      <4> QED BY <1>1, <3>2, <4>1
    <3>3. CASE does = "aside" BY <1>1, <2>3, <3>3
    <3>4. CASE does = "neutral"
      <4>1. soft[o] = 0 /\ (config = None \/ lut = 0) /\ ~held[o] BY <2>p, <3>4
      <4>2. hw[o] = 0 BY <2>0, <4>1 DEF OutputKept
      <4>3. hw'[o] = 0 BY <1>1, <2>l, <3>4, <4>1, <4>2
      <4> QED BY <2>o, <4>1, <4>3
    <3>5. CASE does = "send"
      <4>1. lands BY <1>1, <2>3, <3>5, <2>b
      <4>2. lutIn = Night!OwnLut BY <2>l, <3>5, <4>1
      <4>3. CASE ok BY <1>1, <2>n, <2>o, <4>2, <4>3
      <4>4. CASE ~ok
        <5>1. ~client[o] /\ ~done BY <1>1, <2>3, <2>d, <3>5, <4>1, <4>4
        <5>2. fresh[o] BY <1>1, <2>3, <5>1
        <5> QED BY <2>p, <3>5, <5>1, <5>2
      <4> QED BY <4>3, <4>4
    <3> QED BY <2>p, <3>1, <3>2, <3>3, <3>4, <3>5
  <2>4. ASSUME o \notin NoLut, ~tearing'[o], wait' # 0, ~damage'[o], ~change'[o]
        PROVE  ~Night!WantsCommit(config, fresh, o)' \/ (config' = None /\ ~owned'[o])
    <3>1. ok /\ ~tearing[o] BY <1>1, <2>4
    <3>2. CASE does = "no" BY <1>1, <2>p, <2>w, <3>1, <3>2
    <3>3. CASE does = "none" BY <1>1, <2>p, <2>4, <3>3
    <3>4. CASE does = "aside" BY <1>1, <2>p, <2>w, <3>4
    <3>5. CASE does = "neutral" BY <1>1, <2>d, <2>w, <3>5
    <3>6. CASE does = "send" BY <1>1, <2>d, <2>w, <3>1, <3>6
    <3> QED BY <2>p, <3>2, <3>3, <3>4, <3>5, <3>6
  <2>5. ~change'[o] BY <1>1
  <2> QED BY <2>1, <2>2, <2>3, <2>4, <2>5, Zenon DEF OutputKept
<1> QED BY <1>1, <1>2, <1>3, <1>4 DEF NightInv

\* Every step of the night light keeps all of it.
LEMMA NightNext == ASSUME NightInv, [Night!Next]_(Night!nightVars) PROVE NightInv'
<1>0. NightTypes /\ TimerRuns /\ \A o \in Outputs : OutputKept(o) BY DEF NightInv
<1>e. ASSUME Night!Event PROVE nEvents' \in 0..NightEvents
  BY <1>0, <1>e, NightAssumption DEF Night!Event, NightTypes
<1>n. /\ DayLen \in Nat \ {0} /\ Dusk \in 0..DayLen - 1 /\ End \in 0..DayLen - 1 /\ now \in 0..DayLen - 1
      /\ None \notin Int /\ Recheck \in Nat \ {0}
  BY <1>0, NightAssumption, CameraAssumption DEF NightTypes
<1>c. /\ config = None \/ config \in Block
      /\ Blocks \subseteq Block /\ None \notin Block
      /\ nMode \in {"auto", "on", "off"} /\ nEvents \in 0..NightEvents
  BY <1>0, NightAssumption DEF NightTypes, Block
\* A step that leaves an output as it is and the clock's promise true.
<1>k. ASSUME NightTypes', TimerRuns', UNCHANGED <<lut, config>>, wait' # 0 => wait # 0,
             \A o \in Outputs : UNCHANGED OfOutput(o)
      PROVE  NightInv'
  <2>1. ASSUME NEW o \in Outputs PROVE OutputKept(o)' BY <1>0, <1>k, OthersKept
  <2> QED BY <1>k, <2>1 DEF NightInv
<1>o. ASSUME NightTypes', TimerRuns', UNCHANGED <<lut, config>>, wait' # 0 => wait # 0,
             NEW q \in Outputs, \A o \in Outputs \ {q} : UNCHANGED OfOutput(o), OutputKept(q)'
      PROVE  NightInv'
  <2>1. ASSUME NEW o \in Outputs PROVE OutputKept(o)'
    <3>1. CASE o = q BY <1>o, <3>1
    <3>2. CASE o # q BY <1>0, <1>o, <3>2, OthersKept
    <3> QED BY <3>1, <3>2
  <2> QED BY <1>o, <2>1 DEF NightInv
<1>s. ASSUME UNCHANGED <<now, jumped, config, nMode, shown, fade, wait>> PROVE TimerRuns'
  <2>1. Night!TargetNow(config, nMode)' = Night!TargetNow(config, nMode)
        /\ Night!Scheduled(config, nMode)' = Night!Scheduled(config, nMode)
        /\ Night!UntilTransition(now)' = Night!UntilTransition(now)
    BY <1>s DEF Night!TargetNow, Night!Scheduled
  <2> QED BY <1>0, <1>s, <2>1 DEF TimerRuns
<1>1. CASE UNCHANGED Night!nightVars
  <2>1. NightTypes' BY <1>0, <1>1 DEF Night!nightVars, NightTypes
  <2>2. TimerRuns' BY <1>1, <1>s DEF Night!nightVars
  <2>3. \A o \in Outputs : UNCHANGED OfOutput(o) BY <1>1 DEF Night!nightVars, OfOutput
  <2> QED BY <1>1, <1>k, <2>1, <2>2, <2>3 DEF Night!nightVars
<1>2. CASE Night!OnTimer
  <2>1. PICK q \in Night!Steps : Night!Kick(config, nMode, q, FALSE) BY <1>2 DEF Night!OnTimer
  <2>2. UNCHANGED <<now, motion, config, nMode, nEvents>> /\ UNCHANGED Night!perOutput BY <1>2 DEF Night!OnTimer
  <2>3. nEvents' \in 0..NightEvents BY <1>c, <2>2
  <2> QED BY <1>c, <2>1, <2>2, <2>3, KickKeeps
<1>3. CASE Night!Tick
  <2>1. /\ wait # 0 /\ now' = (now + 1) % DayLen /\ wait' = (IF wait = None THEN None ELSE wait - 1)
        /\ UNCHANGED <<jumped, motion, config, nMode, shown, nTarget, fade, lut, fresh, damage, nEvents>>
        /\ UNCHANGED Night!perOutput
    BY <1>3 DEF Night!Tick
  <2>2. wait \in (0..Recheck) \cup {None} BY <1>0 DEF NightTypes
  <2>3. wait' \in (0..Recheck) \cup {None} /\ (wait' = None <=> wait = None) BY <1>n, <2>1, <2>2
  <2>4. now' \in 0..DayLen - 1 BY <1>n, <2>1
  <2>5. NightTypes' BY <1>0, <2>1, <2>3, <2>4 DEF NightTypes, Night!perOutput
  <2>6. TimerRuns'
    <3>1. Night!Scheduled(config, nMode)' = Night!Scheduled(config, nMode) BY <2>1 DEF Night!Scheduled
    <3>2. SUFFICES ASSUME Night!Scheduled(config, nMode)
                   PROVE  /\ wait' # None
                          /\ ~jumped' /\ wait' # 0 =>
                                /\ shown' = Night!TargetNow(config, nMode)' /\ fade' = None
                                /\ wait' = 1 \/ wait' <= Night!UntilTransition(now')
      BY <3>1 DEF TimerRuns
    <3>3. wait # None BY <1>0, <3>2 DEF TimerRuns
    <3>4. SUFFICES ASSUME ~jumped', wait' # 0
                   PROVE  /\ shown' = Night!TargetNow(config, nMode)' /\ fade' = None
                          /\ wait' <= Night!UntilTransition(now')
      BY <2>3, <3>3
    <3>5. /\ shown = Night!TargetNow(config, nMode) /\ fade = None
          /\ wait <= Night!UntilTransition(now) /\ wait >= 2 /\ wait' = wait - 1
      BY <1>0, <1>n, <2>1, <2>2, <3>2, <3>3, <3>4 DEF TimerRuns
    <3>6. Night!UntilTransition(now) \in Nat
      <4>1. now \in Int BY <1>n
      <4> QED BY <4>1, ScheduleTypes
    <3>7. Night!UntilTransition(now) >= 2 BY <2>2, <3>3, <3>5, <3>6
    <3>8. Night!NightFactor(now') = Night!NightFactor(now)
          /\ Night!UntilTransition(now') = Night!UntilTransition(now) - 1
      BY <1>n, <2>1, <3>7, ClockTicks
    <3>9. Night!TargetNow(config, nMode)' = Night!TargetNow(config, nMode)
      BY <2>1, <3>8 DEF Night!TargetNow, Night!Scheduled
    <3>10. wait' <= Night!UntilTransition(now') BY <2>2, <3>3, <3>5, <3>6, <3>8
    <3> QED BY <2>1, <3>5, <3>9, <3>10
  <2>7. \A o \in Outputs : UNCHANGED OfOutput(o) BY <2>1 DEF OfOutput, Night!perOutput
  <2> QED BY <1>k, <2>1, <2>5, <2>6, <2>7
<1>4. CASE Night!Configure
  <2>1. PICK c \in Blocks \cup {None}, q \in Night!Steps :
          config' = c /\ nMode' = (IF c = None THEN "auto" ELSE c.mode) /\ Night!Kick(c, nMode', q, TRUE)
    BY <1>4 DEF Night!Configure
  <2>2. now' = now /\ UNCHANGED Night!perOutput /\ nEvents' \in 0..NightEvents BY <1>4, <1>e DEF Night!Configure
  <2>3. c = None \/ c \in Block BY <1>c
  <2>4. nMode' \in {"auto", "on", "off"} BY <2>1, <2>3 DEF Block
  <2> QED BY <2>1, <2>2, <2>3, <2>4, KickKeeps
<1>5. CASE Night!IpcMode
  <2>1. PICK m \in {"on", "off", "auto", "toggle"}, q \in Night!Steps :
          nMode' = Night!NewMode(m) /\ Night!Kick(config, nMode', q, FALSE)
    BY <1>5 DEF Night!IpcMode
  <2>2. now' = now /\ config' = config /\ UNCHANGED Night!perOutput /\ nEvents' \in 0..NightEvents
    BY <1>5, <1>e DEF Night!IpcMode
  <2>3. nMode' \in {"auto", "on", "off"} BY <2>1 DEF Night!NewMode
  <2> QED BY <1>c, <2>1, <2>2, <2>3, KickKeeps
<1>6. CASE Night!IpcTemperature
  <2>1. PICK k \in Temperatures, q \in Night!Steps :
          config' = [config EXCEPT !.night = k] /\ Night!Kick(config', nMode, q, FALSE)
    BY <1>6 DEF Night!IpcTemperature
  <2>2. config # None /\ now' = now /\ nMode' = nMode /\ UNCHANGED Night!perOutput /\ nEvents' \in 0..NightEvents
    BY <1>6, <1>e DEF Night!IpcTemperature
  <2>3. config' \in Block
    <3>1. k \in Int BY NightAssumption
    <3> QED BY <1>c, <2>1, <2>2, <3>1 DEF Block
  <2>4. config' # None BY <1>c, <2>3
  <2> QED BY <1>c, <2>1, <2>2, <2>3, <2>4, KickKeeps
<1>7. CASE Night!ClockSet
  <2>1. /\ now' \in {0, Dusk, End} /\ jumped' = TRUE /\ nEvents' \in 0..NightEvents
        /\ UNCHANGED <<motion, config, nMode, shown, nTarget, fade, lut, wait, fresh, damage>>
        /\ UNCHANGED Night!perOutput
    BY <1>7, <1>e DEF Night!ClockSet
  <2>2. now' \in 0..DayLen - 1 BY <1>n, <2>1
  <2>3. jumped' \in BOOLEAN BY <2>1, Zenon
  <2>4. NightTypes' BY <1>0, <2>1, <2>2, <2>3 DEF NightTypes, Night!perOutput
  <2>5. TimerRuns'
    <3>1. Night!Scheduled(config, nMode)' = Night!Scheduled(config, nMode) BY <2>1 DEF Night!Scheduled
    <3> QED BY <1>0, <2>1, <3>1 DEF TimerRuns
  <2>6. \A o \in Outputs : UNCHANGED OfOutput(o) BY <2>1 DEF OfOutput, Night!perOutput
  <2> QED BY <1>k, <2>1, <2>4, <2>5, <2>6
<1>8. CASE Night!Resume
  <2>1. PICK lost \in SUBSET Outputs :
          Night!SessionActive([o \in Outputs |-> IF o \in lost THEN 0 ELSE hw[o]])
    BY <1>8 DEF Night!Resume
  <2>2. /\ fresh' = [o \in Outputs |-> FALSE] /\ wait' = 0
        /\ hw' = [o \in Outputs |-> IF o \in lost THEN 0 ELSE hw[o]]
    BY <2>1 DEF Night!SessionActive
  <2>3. /\ now' \in {now, Dusk, End} /\ jumped' = (jumped \/ now' # now) /\ nEvents' \in 0..NightEvents
        /\ UNCHANGED <<motion, config, nMode, shown, nTarget, fade, lut, damage, owned, client, refused, held,
                       change, tearing, soft, missed>>
    BY <1>8, <1>e DEF Night!Resume
  <2>4. now' \in 0..DayLen - 1 BY <1>n, <2>3
  <2>5. jumped' \in BOOLEAN BY <2>3
  <2>6. NightTypes'
    <3>1. hw' \in [Outputs -> Int \cup {Ramp}] /\ fresh' \in [Outputs -> BOOLEAN]
      BY <1>0, <2>2 DEF NightTypes
    <3>2. wait' \in (0..Recheck) \cup {None} BY <1>n, <2>2
    <3> QED BY <1>0, <2>3, <2>4, <2>5, <3>1, <3>2 DEF NightTypes
  <2>7. TimerRuns' BY <1>n, <2>2 DEF TimerRuns
  <2>8. ASSUME NEW o \in Outputs PROVE OutputKept(o)'
    <3>1. OutputKept(o) BY <1>0
    <3>2. hw'[o] \in {hw[o], 0} /\ ~fresh'[o] /\ wait' = 0 /\ UNCHANGED <<soft, client, change, held, missed>>
      BY <2>2, <2>3
    <3> QED BY <3>1, <3>2 DEF OutputKept
  <2> QED BY <2>6, <2>7, <2>8 DEF NightInv
<1>9. ASSUME NEW o \in Outputs, Night!Modeset(o) PROVE NightInv'
  <2>1. PICK enables \in BOOLEAN : change' = [change EXCEPT ![o] = change[o] \/ enables]
    BY <1>9 DEF Night!Modeset
  <2>2. /\ fresh' = [fresh EXCEPT ![o] = FALSE] /\ hw' = [hw EXCEPT ![o] = 0]
        /\ damage' = [damage EXCEPT ![o] = TRUE] /\ nEvents' \in 0..NightEvents
        /\ UNCHANGED <<now, jumped, motion, config, nMode, shown, nTarget, fade, lut, wait, owned, client, refused,
                       held, tearing, soft, missed>>
    BY <1>9, <1>e DEF Night!Modeset
  <2>t. /\ {fresh, change, damage} \subseteq [Outputs -> BOOLEAN] /\ hw \in [Outputs -> Int \cup {Ramp}]
    BY <1>0 DEF NightTypes
  <2>3. NightTypes'
    <3>1. /\ hw' \in [Outputs -> Int \cup {Ramp}]
          /\ {fresh', change', damage'} \subseteq [Outputs -> BOOLEAN]
      BY <2>1, <2>2, <2>t
    <3> QED BY <1>0, <2>2, <3>1 DEF NightTypes
  <2>4. TimerRuns' BY <1>s, <2>2
  <2>5. \A p \in Outputs \ {o} : UNCHANGED OfOutput(p) BY <2>1, <2>2, <2>t DEF OfOutput
  <2>6. OutputKept(o)'
    <3>1. hw'[o] = 0 /\ ~fresh'[o] /\ damage'[o] BY <2>2, <2>t
    <3>2. OutputKept(o) BY <1>0
    <3> QED BY <2>2, <3>1, <3>2 DEF OutputKept
  <2> QED BY <1>o, <2>2, <2>3, <2>4, <2>5, <2>6
<1>10. ASSUME NEW o \in Outputs, Night!GammaClient(o) PROVE NightInv'
  <2>1. /\ o \notin NoLut /\ nEvents' \in 0..NightEvents
        /\ held' = [held EXCEPT ![o] = ~held[o]] /\ change' = [change EXCEPT ![o] = TRUE]
        /\ missed' = [missed EXCEPT ![o] = missed[o] \/ (held[o] /\ ~client[o])]
        /\ UNCHANGED <<now, jumped, motion, config, nMode, shown, nTarget, fade, lut, wait, fresh, owned, client,
                       refused, damage, tearing, soft, hw>>
    BY <1>10, <1>e DEF Night!GammaClient
  <2>t. {held, change, missed, client, fresh} \subseteq [Outputs -> BOOLEAN] BY <1>0 DEF NightTypes
  <2>2. NightTypes'
    <3>1. {held', change', missed'} \subseteq [Outputs -> BOOLEAN] BY <2>1, <2>t
    <3> QED BY <1>0, <2>1, <3>1 DEF NightTypes
  <2>3. TimerRuns' BY <1>s, <2>1
  <2>4. \A p \in Outputs \ {o} : UNCHANGED OfOutput(p) BY <2>1, <2>t DEF OfOutput
  <2>5. OutputKept(o)'
    <3>1. held'[o] = ~held[o] /\ change'[o] = TRUE /\ missed'[o] = (missed[o] \/ (held[o] /\ ~client[o]))
      BY <2>1, <2>t
    <3>2. OutputKept(o) BY <1>0
    <3>3. /\ hw'[o] \in {soft'[o], 0}
          /\ change'[o] /\ ~held'[o] => ~fresh'[o] \/ client'[o] \/ missed'[o]
      BY <2>1, <2>t, <3>1, <3>2 DEF OutputKept
    <3>4. ASSUME fresh'[o], ~client'[o], ~held'[o], ~refused'[o], ~missed'[o] PROVE FALSE
      BY <2>1, <2>t, <3>1, <3>4
    <3> QED BY <2>1, <3>1, <3>3, <3>4 DEF OutputKept
  <2> QED BY <1>o, <2>1, <2>2, <2>3, <2>4, <2>5
<1>11. ASSUME NEW o \in Outputs, Night!Tear(o) PROVE NightInv'
  <2>1. /\ tearing' = [tearing EXCEPT ![o] = ~tearing[o]] /\ damage' = [damage EXCEPT ![o] = TRUE]
        /\ nEvents' \in 0..NightEvents
        /\ UNCHANGED <<now, jumped, motion, config, nMode, shown, nTarget, fade, lut, wait, fresh, owned, client,
                       refused, held, change, soft, hw, missed>>
    BY <1>11, <1>e DEF Night!Tear
  <2>t. {tearing, damage} \subseteq [Outputs -> BOOLEAN] BY <1>0 DEF NightTypes
  <2>2. NightTypes'
    <3>1. {tearing', damage'} \subseteq [Outputs -> BOOLEAN] BY <2>1, <2>t
    <3> QED BY <1>0, <2>1, <3>1 DEF NightTypes
  <2>3. TimerRuns' BY <1>s, <2>1
  <2>4. \A p \in Outputs \ {o} : UNCHANGED OfOutput(p) BY <2>1, <2>t DEF OfOutput
  <2>5. OutputKept(o)'
    <3>1. damage'[o] BY <2>1, <2>t
    <3>2. OutputKept(o) BY <1>0
    <3>3. Night!OwnLut' = Night!OwnLut BY <2>1 DEF Night!OwnLut
    <3> QED BY <2>1, <3>1, <3>2, <3>3 DEF OutputKept
  <2> QED BY <1>o, <2>1, <2>2, <2>3, <2>4, <2>5
<1>12. ASSUME NEW o \in Outputs, NEW lands \in BOOLEAN, NEW ok \in BOOLEAN, Night!Frame(o, lands, ok) PROVE NightInv'
  BY <1>12, FrameKeeps
<1> QED BY <1>1, <1>2, <1>3, <1>4, <1>5, <1>6, <1>7, <1>8, <1>9, <1>10, <1>11, <1>12 DEF Night!Next

\* What the night light promises follows (night_light.rs:10-44).
LEMMA NightSound == NightInv => Night!TypeOK /\ Night!LutIsRight /\ Night!FollowsTheClock
<1> HAVE NightInv
<1>1. Night!TypeOK BY DEF NightInv, NightTypes, Night!TypeOK, Block, Fades
<1>2. ASSUME NEW o \in Outputs \ NoLut, ~Night!Due(o), wait # 0, ~held[o], ~tearing[o], ~refused[o], ~missed[o]
      PROVE  hw[o] = Night!OwnLut \/ (config = None /\ ~owned[o])
  <2>1. OutputKept(o) /\ ~damage[o] /\ ~change[o] BY <1>2 DEF NightInv, Night!Due
  <2>2. {client[o], fresh[o], owned[o], held[o]} \subseteq BOOLEAN BY DEF NightInv, NightTypes
  <2>3. ~Night!WantsCommit(config, fresh, o) \/ (config = None /\ ~owned[o]) BY <1>2, <2>1 DEF OutputKept
  <2>4. (~client[o] /\ fresh[o]) \/ (config = None /\ ~owned[o]) BY <1>2, <2>2, <2>3 DEF Night!WantsCommit
  <2> QED BY <1>2, <2>1, <2>4 DEF OutputKept
<1>3. Night!FollowsTheClock BY DEF NightInv, TimerRuns, Night!FollowsTheClock
<1> QED BY <1>1, <1>2, <1>3 DEF Night!LutIsRight

\* A client's ramp is written over by nothing but what clears it.
LEMMA RampKept ==
    ASSUME NightInv, [Night!Next]_(Night!nightVars)
    PROVE  [\A o \in Outputs : (held[o] /\ hw'[o] # hw[o]) => hw'[o] \in {Ramp, 0}]_(Night!nightVars)
<1> SUFFICES ASSUME Night!Next, NEW o \in Outputs, held[o], hw'[o] # hw[o] PROVE hw'[o] \in {Ramp, 0}
  BY DEF Night!nightVars
<1>0. NightTypes BY DEF NightInv
<1>1. CASE Night!Resume
  <2>1. PICK lost \in SUBSET Outputs :
          Night!SessionActive([x \in Outputs |-> IF x \in lost THEN 0 ELSE hw[x]])
    BY <1>1 DEF Night!Resume
  <2> QED BY <2>1 DEF Night!SessionActive
<1>2. ASSUME NEW q \in Outputs, Night!Modeset(q) PROVE hw'[o] \in {Ramp, 0}
  <2>1. hw' = [hw EXCEPT ![q] = 0] /\ hw \in [Outputs -> Int \cup {Ramp}] BY <1>0, <1>2 DEF Night!Modeset, NightTypes
  <2> QED BY <2>1
<1>3. ASSUME NEW q \in Outputs, NEW lands \in BOOLEAN, NEW ok \in BOOLEAN, Night!Frame(q, lands, ok)
      PROVE  hw'[o] \in {Ramp, 0}
  <2> DEFINE does == Night!Prepare(q)
             lutIn == Night!Commits(q, does, lands)
             done == Night!GenerationDone(q, does, ok \/ ~lands)
  <2>d. /\ does = Night!Prepare(q) /\ lutIn = Night!Commits(q, does, lands)
        /\ done = Night!GenerationDone(q, does, ok \/ ~lands)
    OBVIOUS
  <2> HIDE DEF does, lutIn, done
  <2>1. FrameLeaves(q, lands, ok, does, lutIn, done) BY <1>0, <1>3, <2>d, FrameEffect, Zenon
  <2>2. q = o
    <3>1. q # o => UNCHANGED OfOutput(o) BY <2>1 DEF FrameLeaves
    <3> QED BY <3>1 DEF OfOutput
  <2>3. does # "send" BY <2>d, <2>2 DEF Night!Prepare
  <2>4. hw'[o] = lutIn /\ lutIn # None BY <2>1, <2>2 DEF FrameLeaves
  <2> QED BY <2>d, <2>2, <2>3, <2>4 DEF Night!Commits
<1>4. CASE hw' = hw BY <1>4
<1> QED BY <1>1, <1>2, <1>3, <1>4 DEF Night!Next, Night!OnTimer, Night!Tick, Night!Configure, Night!IpcMode,
       Night!IpcTemperature, Night!ClockSet, Night!GammaClient, Night!Tear, Night!perOutput

\* A frame drawn for the LUT leaves none to draw for it.
LEMMA FramesAreNeeded ==
    ASSUME NightInv, [Night!Next]_(Night!nightVars)
    PROVE  [\A o \in Outputs : (damage[o] /\ ~damage'[o] /\ ~tearing[o] /\ config # None)
                                  => ~Night!WantsCommit(config, fresh, o)']_(Night!nightVars)
<1> SUFFICES ASSUME Night!Next, NEW o \in Outputs, damage[o], ~damage'[o], ~tearing[o], config # None
             PROVE  ~Night!WantsCommit(config, fresh, o)'
  BY DEF Night!nightVars
<1>0. NightTypes /\ OutputKept(o) BY DEF NightInv
<1>t. damage \in [Outputs -> BOOLEAN] BY <1>0 DEF NightTypes
<1>1. ASSUME NEW q \in Outputs, NEW lands \in BOOLEAN, NEW ok \in BOOLEAN, Night!Frame(q, lands, ok)
      PROVE  ~Night!WantsCommit(config, fresh, o)'
  <2> DEFINE does == Night!Prepare(q)
             lutIn == Night!Commits(q, does, lands)
             done == Night!GenerationDone(q, does, ok \/ ~lands)
  <2>d. /\ does = Night!Prepare(q) /\ lutIn = Night!Commits(q, does, lands)
        /\ done = Night!GenerationDone(q, does, ok \/ ~lands)
    OBVIOUS
  <2> HIDE DEF does, lutIn, done
  <2>1. FrameLeaves(q, lands, ok, does, lutIn, done) BY <1>0, <1>1, <2>d, FrameEffect, Zenon
  <2>2. q = o
    <3>1. q # o => UNCHANGED OfOutput(o) BY <2>1 DEF FrameLeaves
    <3> QED BY <3>1 DEF OfOutput
  <2>3. /\ ok /\ config' = config /\ held' = held
        /\ client'[o] = (IF does \in {"no", "none"} THEN client[o] ELSE does = "aside")
        /\ fresh'[o] = (fresh[o] \/ done)
    BY <2>1, <2>2 DEF FrameLeaves
  <2>4. Night!WantsCommit(config, fresh, o)' =
           IF client'[o] THEN ~held'[o] ELSE ~fresh'[o] /\ (config' # None \/ owned'[o])
    BY DEF Night!WantsCommit
  <2>5. done = (does \notin {"no", "send"} \/ (does = "send" /\ (ok \/ ~lands))) BY <2>d DEF Night!GenerationDone
  <2>6. does = IF fresh[o] /\ ~client[o] THEN "no" ELSE IF o \in NoLut THEN "none"
               ELSE IF held[o] THEN "aside"
               ELSE IF (config = None \/ lut = 0) /\ ~owned[o] /\ soft[o] = 0 THEN "neutral" ELSE "send"
    BY <2>d, <2>2 DEF Night!Prepare
  <2>7. o \in NoLut => ~client[o] BY <1>0 DEF OutputKept
  <2>8. CASE does = "no" BY <2>3, <2>4, <2>6, <2>8
  <2>9. CASE does = "none" BY <2>3, <2>4, <2>5, <2>6, <2>7, <2>9
  <2>10. CASE does = "aside" BY <2>3, <2>4, <2>6, <2>10
  <2>11. CASE does = "neutral" BY <2>3, <2>4, <2>5, <2>11
  <2>12. CASE does = "send" BY <2>3, <2>4, <2>5, <2>12
  <2> QED BY <2>6, <2>8, <2>9, <2>10, <2>11, <2>12
<1>2. ASSUME NEW c, NEW m, NEW q, NEW regen, Night!Kick(c, m, q, regen) PROVE FALSE
  <2>1. damage' = [x \in Outputs |-> damage[x] \/ Night!WantsCommit(c, fresh', x)] BY <1>2 DEF Night!Kick
  <2> QED BY <2>1
<1>3. CASE Night!OnTimer \/ Night!Configure \/ Night!IpcMode \/ Night!IpcTemperature
  BY <1>2, <1>3 DEF Night!OnTimer, Night!Configure, Night!IpcMode, Night!IpcTemperature
<1>4. ASSUME NEW q \in Outputs, Night!Modeset(q) \/ Night!Tear(q) PROVE FALSE
  <2>1. damage' = [damage EXCEPT ![q] = TRUE] BY <1>4 DEF Night!Modeset, Night!Tear
  <2> QED BY <1>t, <2>1
<1>5. CASE damage' = damage BY <1>5
<1> QED BY <1>1, <1>3, <1>4, <1>5 DEF Night!Next, Night!Tick, Night!ClockSet, Night!Resume, Night!GammaClient

--------------------
(* The drag-selection (Selection).                                         *)

\* What Sel!TypeOK leaves out: lists of images, lines to the grid, and what is
\* carried from where.
Reports == [Items -> Int \cup {None}]
Lines == [to : UNION {[J -> Int] : J \in SUBSET Items}, drop : BOOLEAN]
Ops == [kind : {"move", "group", "select"}, win : Windows \cup {None}, x : Int, pan : Int, from : Int,
        tiled : BOOLEAN]
SelTypes ==
    /\ Sel!TypeOK /\ {anchor, band} \subseteq Int \cup {None} /\ (op = None \/ op \in Ops)
    /\ {desk, saved} \subseteq Reports /\ (grid = None \/ grid \in Reports)
    /\ toGrid \in Seq(Lines) /\ toComp \in Seq(Reports)
    /\ \A w \in DOMAIN groupW : groupW[w] \in Int
    /\ \A i \in DOMAIN groupI : groupI[i] \in Int

\* A grabbed window is not also of the group it carries; an image or a band
\* grabs none.
GroupFits == op # None => IF op.kind = "move" THEN op.win \in Windows \ DOMAIN groupW ELSE op.win = None

SelInv == SelTypes /\ GroupFits /\ Sel!SelectionIsLive /\ Sel!TiledIsAligned

\* Nothing is a map of nothing.
LEMMA EmptyMap == DOMAIN <<>> = {} /\ <<>> \in [{} -> Int] /\ [to |-> <<>>, drop |-> TRUE] \in Lines
<1>1. <<>> \in Seq(Int) /\ Len(<<>>) = 0 BY EmptySeq
<1>2. DOMAIN <<>> = 1..0 BY <1>1, LenProperties
<1>3. DOMAIN <<>> = {} BY <1>2
<1>4. <<>> = [x \in DOMAIN <<>> |-> <<>>[x]] BY <1>1, <1>2
<1>5. <<>> \in [{} -> Int] BY <1>3, <1>4
<1> QED BY <1>3, <1>5 DEF Lines

\* A list with a value for each image.
LEMMA NowhereIsReport == Sel!Nowhere \in Reports
BY DEF Sel!Nowhere, Reports

\* The selection starts with what there is.
LEMMA SelInit == Sel!Init => SelInv
<1> HAVE Sel!Init
<1>1. /\ selOverview = TRUE /\ status = [w \in Windows |-> "up"] /\ selAt = Homes
      /\ tiled = [w \in Windows |-> selAt[w] % 2 = 0] /\ selW \subseteq Windows /\ selI \subseteq Items
      /\ anchor = None /\ band = None /\ op = None /\ groupW = <<>> /\ groupI = <<>>
      /\ px \in Spots /\ selPan = 0 /\ grid = Pictures /\ saved = grid /\ desk = grid
      /\ toGrid = <<>> /\ toComp = <<>> /\ torn = FALSE /\ selEvents = 0
  BY DEF Sel!Init
<1>2. Homes \in [Windows -> Int] /\ Pictures \in [Items -> Int] /\ SelEvents \in Nat /\ None \notin Int
  BY SelectionAssumption, CameraAssumption
<1>3. Sel!TypeOK
  <2>1. selOverview \in BOOLEAN /\ torn \in BOOLEAN BY <1>1, Zenon
  <2>2. selEvents \in 0..SelEvents /\ selPan \in Int BY <1>1, <1>2
  <2>3. status \in [Windows -> {"up", "min", "gone"}] /\ tiled \in [Windows -> BOOLEAN] BY <1>1
  <2>4. DOMAIN groupW \subseteq Windows /\ DOMAIN groupI \subseteq Items BY <1>1, EmptyMap
  <2> QED BY <1>1, <1>2, <2>1, <2>2, <2>3, <2>4 DEF Sel!TypeOK
<1>4. Pictures \in Reports BY <1>2 DEF Reports
<1>5. SelTypes
  <2>1. toGrid \in Seq(Lines) /\ toComp \in Seq(Reports) BY <1>1, EmptySeq
  <2>2. /\ \A w \in DOMAIN groupW : groupW[w] \in Int
        /\ \A i \in DOMAIN groupI : groupI[i] \in Int
    BY <1>1, EmptyMap
  <2>3. {desk, saved} \subseteq Reports /\ grid \in Reports BY <1>1, <1>4
  <2> QED BY <1>1, <1>3, <2>1, <2>2, <2>3 DEF SelTypes
<1>6. Sel!SelectionIsLive
  <2>1. \A w \in selW : Sel!Live(w) BY <1>1 DEF Sel!Live
  <2>2. \A i \in selI : desk[i] # None BY <1>1, <1>2
  <2> QED BY <2>1, <2>2 DEF Sel!SelectionIsLive
<1>7. Sel!TiledIsAligned BY <1>1 DEF Sel!TiledIsAligned, Sel!Aligned
<1> QED BY <1>1, <1>5, <1>6, <1>7 DEF SelInv, GroupFits

\* What a grab carries, and from where (PressWindow, PressImage).
LEMMA CarriedFits ==
    ASSUME SelTypes, NEW w
    PROVE  /\ DOMAIN Sel!CarriedW(w) = {v \in selW \ {w} : Sel!Selectable(v)}
           /\ DOMAIN Sel!CarriedW(w) \subseteq Windows
           /\ \A v \in DOMAIN Sel!CarriedW(w) : Sel!CarriedW(w)[v] \in Int
           /\ DOMAIN Sel!CarriedI \subseteq Items
           /\ \A i \in DOMAIN Sel!CarriedI : Sel!CarriedI[i] \in Int
<1>1. /\ selW \subseteq Windows /\ selI \subseteq Items /\ selAt \in [Windows -> Int] /\ desk \in Reports
  BY DEF SelTypes, Sel!TypeOK
<1>2. \A i \in selI : desk[i] # None => desk[i] \in Int BY <1>1 DEF Reports
<1> QED BY <1>1, <1>2 DEF Sel!CarriedW, Sel!CarriedI

\* A line more on its way to the grid (send_selection).
LEMMA SentLine ==
    ASSUME NEW q \in Seq(Lines), NEW f, NEW drop \in BOOLEAN, [to |-> f, drop |-> drop] \in Lines
    PROVE  Sel!Send(q, f, drop) \in Seq(Lines)
BY AppendProperties DEF Sel!Send

\* What a step of the carry does to windows, images and the line (op_update).
LEMMA CarryFits ==
    ASSUME SelInv, op # None, op.kind # "select", NEW x \in Int, NEW p \in Int, NEW s \in Sel!Steps(x, p),
           Sel!CarryWindows(s[1], s[2])
    PROVE  /\ s[1] \in Int
           /\ selAt' \in [Windows -> Int] /\ Sel!Carried(s[1]) \in Reports
           /\ Sel!Told(s[1]) \in Seq(Lines)
           /\ \A i \in Items : desk[i] # None => Sel!Carried(s[1])[i] # None
           /\ \A w \in Windows : w # op.win /\ w \notin Sel!Moves(s[1]) => selAt'[w] = selAt[w]
<1>0. SelTypes /\ GroupFits /\ op \in Ops BY DEF SelInv, SelTypes
<1>t. /\ op.from \in Int /\ op.x \in Int /\ op.pan \in Int /\ op.tiled \in BOOLEAN
      /\ op.kind = "group" \/ op.kind = "move"
  BY <1>0 DEF Ops
<1>n. None \notin Int BY CameraAssumption
<1>1. s[1] \in Int /\ (op.kind = "move" => s[2] \in Int /\ s[1] = s[2] - op.from)
  <2>1. Sel!Delta(x, p) \in Int BY <1>t DEF Sel!Delta
  <2> DEFINE d == Sel!Delta(x, p)
  <2> HIDE DEF d
  <2>2. d \in Int BY <2>1 DEF d
  <2>3. Sel!Snap(op.from + d) \in Int BY <1>t, <2>2 DEF Sel!Snap
  <2>4. CASE op.kind = "group"
    <3>1. PICK g \in Sel!Offsets(op.from, d, op.tiled) : s = <<g, None>> BY <2>4 DEF Sel!Steps, d
    <3>2. g \in Int BY <1>t, <2>2, <2>3, <3>1 DEF Sel!Offsets
    <3> QED BY <2>4, <3>1, <3>2
  <2>5. CASE op.kind = "move"
    <3>1. PICK l \in Sel!Landings(op.from, d, op.tiled) : s = <<l - op.from, l>> BY <2>5 DEF Sel!Steps, d
    <3>2. l \in Int BY <1>t, <2>2, <2>3, <3>1 DEF Sel!Landings
    <3> QED BY <1>t, <3>1, <3>2
  <2> QED BY <1>t, <2>4, <2>5
<1> DEFINE g == s[1]
           l == s[2]
<1>g. g \in Int /\ (op.kind = "move" => l \in Int) BY <1>1
<1>c. selAt' = [w \in Windows |-> IF w = op.win /\ Sel!Live(w) THEN l
                                  ELSE IF w \in Sel!Moves(g) THEN groupW[w] + g ELSE selAt[w]]
  BY DEF Sel!CarryWindows
<1>d. Sel!Carried(g) = [i \in Items |-> IF i \in Sel!Known THEN groupI[i] + g ELSE desk[i]]
  BY DEF Sel!Carried, Sel!CarryTo
<1> HIDE DEF g, l
<1>2. selAt' \in [Windows -> Int]
  <2>1. selAt \in [Windows -> Int] BY <1>0 DEF SelTypes, Sel!TypeOK
  <2>2. \A w \in Windows : w \in Sel!Moves(g) => groupW[w] + g \in Int
    BY <1>0, <1>g DEF SelTypes, Sel!Moves
  <2>3. \A w \in Windows : w = op.win => l \in Int
    BY <1>0, <1>g, <1>t, SelectionAssumption DEF GroupFits
  <2> QED BY <1>c, <2>1, <2>2, <2>3
<1>3. \A i \in Items : i \in Sel!Known => groupI[i] + g \in Int
  BY <1>0, <1>g DEF SelTypes, Sel!Known
<1>4. Sel!Carried(g) \in Reports BY <1>0, <1>d, <1>3 DEF SelTypes, Reports
<1>5. Sel!Told(g) \in Seq(Lines)
  <2> DEFINE f == [i \in Sel!Known |-> Sel!CarryTo(i, g)]
  <2>1. Sel!Known \subseteq Items BY <1>0 DEF SelTypes, Sel!TypeOK, Sel!Known
  <2>2. f \in [Sel!Known -> Int] BY <1>3, <2>1 DEF Sel!CarryTo
  <2>3. [to |-> f, drop |-> FALSE] \in Lines BY <2>1, <2>2 DEF Lines
  <2>4. toGrid \in Seq(Lines) BY <1>0 DEF SelTypes
  <2>5. Sel!Told(g) \in {Sel!Send(toGrid, f, FALSE), toGrid} BY DEF Sel!Told
  <2> HIDE DEF f
  <2>6. Sel!Send(toGrid, f, FALSE) \in Seq(Lines) BY <2>3, <2>4, SentLine
  <2> QED BY <2>4, <2>5, <2>6
<1>6. \A i \in Items : desk[i] # None => Sel!Carried(g)[i] # None
  BY <1>d, <1>3, <1>n
<1>7. \A w \in Windows : w # op.win /\ w \notin Sel!Moves(g) => selAt'[w] = selAt[w] BY <1>c
<1> QED BY <1>g, <1>2, <1>4, <1>5, <1>6, <1>7 DEF g

\* A press keeps it: it grabs what is carried from where it is.
LEMMA SelPresses ==
    ASSUME SelInv, NEW x \in Spots, Sel!PressWindow(x) \/ Sel!PressImage(x) \/ Sel!PressBare(x)
    PROVE  SelInv'
<1>0. SelTypes /\ GroupFits /\ Sel!SelectionIsLive /\ Sel!TiledIsAligned /\ Sel!TypeOK BY DEF SelInv, SelTypes
<1>1. /\ selEvents' \in 0..SelEvents /\ px' = x /\ op = None
      /\ UNCHANGED <<selOverview, status, selAt, tiled, desk, selPan, toGrid, toComp, grid, saved>>
  <2>1. Sel!Event /\ px' = x /\ op = None
        /\ UNCHANGED <<selOverview, status, selAt, tiled, desk, selPan, toGrid, toComp, grid, saved>>
    BY DEF Sel!PressWindow, Sel!PressImage, Sel!PressBare, Sel!wire, Sel!client
  <2> QED BY <1>0, <2>1, SelectionAssumption DEF Sel!Event, Sel!TypeOK
<1>2. /\ UNCHANGED <<selW, selI>> \/ (selW' = {} /\ selI' = {})
      /\ {anchor', band'} \subseteq Int \cup {None}
  <2>1. {anchor, band} \subseteq Int \cup {None} /\ selPan + x \in Int BY <1>0, SelectionAssumption DEF SelTypes, Sel!TypeOK
  <2> QED BY <2>1 DEF Sel!PressWindow, Sel!PressImage, Sel!PressBare, Sel!picked, Sel!Clear
<1>t. selAt \in [Windows -> Int] /\ tiled \in [Windows -> BOOLEAN] /\ x \in Int /\ selPan \in Int
  BY <1>0, SelectionAssumption DEF Sel!TypeOK
<1>3. /\ op' = None \/ op' \in Ops
      /\ GroupFits' /\ torn' \in BOOLEAN
      /\ DOMAIN groupW' \subseteq Windows /\ \A w \in DOMAIN groupW' : groupW'[w] \in Int
      /\ DOMAIN groupI' \subseteq Items /\ \A i \in DOMAIN groupI' : groupI'[i] \in Int
  <2>g. /\ DOMAIN groupI \subseteq Items /\ \A i \in DOMAIN groupI : groupI[i] \in Int
        /\ DOMAIN groupW \subseteq Windows /\ \A w \in DOMAIN groupW : groupW[w] \in Int
        /\ torn \in BOOLEAN
    BY <1>0 DEF SelTypes, Sel!TypeOK
  <2>1. CASE Sel!PressWindow(x)
    <3>1. PICK w \in Sel!Hit(selPan + x) :
            /\ op' = Sel!Op("move", w, x, selAt[w], tiled[w])
            /\ IF w \in selW
               THEN /\ groupW' = Sel!CarriedW(w) /\ groupI' = Sel!CarriedI
                    /\ torn' = (torn \/ (Sel!CarriedI # <<>> /\ Sel!OnWire))
               ELSE groupW' = <<>> /\ groupI' = <<>> /\ UNCHANGED torn
      BY <2>1 DEF Sel!PressWindow
    <3>2. w \in Windows BY DEF Sel!Hit
    <3>3. op' = [kind |-> "move", win |-> w, x |-> x, pan |-> selPan, from |-> selAt[w], tiled |-> tiled[w]]
      BY <3>1 DEF Sel!Op
    <3>4. op' \in Ops BY <1>t, <3>2, <3>3 DEF Ops
    <3>5. CASE w \in selW
      <4>1. groupW' = Sel!CarriedW(w) /\ groupI' = Sel!CarriedI /\ torn' \in BOOLEAN BY <2>g, <3>1, <3>5
      <4>2. w \notin DOMAIN groupW' BY <1>0, <4>1, CarriedFits
      <4>3. GroupFits' BY <3>2, <3>3, <4>2 DEF GroupFits
      <4> QED BY <1>0, <3>4, <4>1, <4>3, CarriedFits
    <3>6. CASE w \notin selW
      <4>1. groupW' = <<>> /\ groupI' = <<>> /\ torn' = torn BY <3>1, <3>6
      <4>2. DOMAIN groupW' = {} /\ DOMAIN groupI' = {} BY <4>1, EmptyMap
      <4>3. GroupFits' BY <3>2, <3>3, <4>2 DEF GroupFits
      <4> QED BY <2>g, <3>4, <4>1, <4>2, <4>3
    <3> QED BY <3>5, <3>6
  <2>2. CASE Sel!PressImage(x)
    <3>1. CASE op' = None /\ UNCHANGED <<groupW, groupI, torn>> BY <2>g, <3>1 DEF GroupFits
    <3>2. CASE ~(op' = None /\ UNCHANGED <<groupW, groupI, torn>>)
      <4> DEFINE anchors == {w \in DOMAIN Sel!CarriedW(None) : tiled[w]}
      <4>1. /\ \/ \E w \in anchors : op' = Sel!Op("group", None, x, selAt[w], TRUE)
               \/ anchors = {} /\ op' = Sel!Op("group", None, x, 0, FALSE)
            /\ groupW' = Sel!CarriedW(None) /\ groupI' = Sel!CarriedI
            /\ torn' = (torn \/ Sel!OnWire)
        <5> DEFINE onOne == \E i \in selI : desk[i] # None /\ Sel!Over(desk[i], selPan + x)
        <5>1. ~onOne => UNCHANGED <<op, groupW, groupI, torn>> BY <2>2 DEF Sel!PressImage
        <5>2. onOne BY <1>1, <3>2, <5>1
        <5> QED BY <2>2, <5>2 DEF Sel!PressImage
      <4>2. anchors \subseteq Windows BY <1>0, CarriedFits
      <4>3. PICK f \in Int, b \in BOOLEAN :
              op' = [kind |-> "group", win |-> None, x |-> x, pan |-> selPan, from |-> f, tiled |-> b]
        <5>1. CASE anchors = {} /\ op' = Sel!Op("group", None, x, 0, FALSE)
          <6>1. op' = [kind |-> "group", win |-> None, x |-> x, pan |-> selPan, from |-> 0, tiled |-> FALSE]
            BY <5>1 DEF Sel!Op
          <6>2. 0 \in Int /\ FALSE \in BOOLEAN OBVIOUS
          <6> QED BY <6>1, <6>2, Zenon
        <5>2. CASE \E w \in anchors : op' = Sel!Op("group", None, x, selAt[w], TRUE)
          <6>1. PICK w \in anchors : op' = Sel!Op("group", None, x, selAt[w], TRUE) BY <5>2
          <6>2. op' = [kind |-> "group", win |-> None, x |-> x, pan |-> selPan, from |-> selAt[w], tiled |-> TRUE]
            BY <6>1 DEF Sel!Op
          <6>3. selAt[w] \in Int /\ TRUE \in BOOLEAN BY <1>t, <4>2
          <6> QED BY <6>2, <6>3, Zenon
        <5> QED BY <4>1, <5>1, <5>2
      <4>4. op' \in Ops BY <1>t, <4>3 DEF Ops
      <4>5. GroupFits' BY <4>3 DEF GroupFits
      <4>6. torn' \in BOOLEAN BY <2>g, <4>1
      <4> HIDE DEF anchors
      <4> QED BY <1>0, <4>1, <4>4, <4>5, <4>6, CarriedFits
    <3> QED BY <3>1, <3>2
  <2>3. CASE Sel!PressBare(x)
    <3>1. groupW' = <<>> /\ groupI' = groupI /\ torn' = torn /\ op' = Sel!Op("select", None, x, 0, FALSE)
      BY <2>3 DEF Sel!PressBare
    <3>2. op' = [kind |-> "select", win |-> None, x |-> x, pan |-> selPan, from |-> 0, tiled |-> FALSE]
      BY <3>1 DEF Sel!Op
    <3>3. op' \in Ops BY <1>t, <3>2 DEF Ops
    <3>4. GroupFits' BY <3>2 DEF GroupFits
    <3> QED BY <2>g, <3>1, <3>3, <3>4, EmptyMap
  <2> QED BY <2>1, <2>2, <2>3
<1>4. Sel!TypeOK' BY <1>0, <1>1, <1>2, <1>3 DEF Sel!TypeOK
<1>5. SelTypes' BY <1>0, <1>1, <1>2, <1>3, <1>4 DEF SelTypes
<1>6. Sel!SelectionIsLive' BY <1>0, <1>1, <1>2 DEF Sel!SelectionIsLive, Sel!Live
<1>7. Sel!TiledIsAligned' BY <1>0, <1>1 DEF Sel!TiledIsAligned, Sel!Live, Sel!Aligned
<1> QED BY <1>3, <1>5, <1>6, <1>7 DEF SelInv

\* What the band touches is up and is on the list (selection_motion).
LEMMA BandTouches ==
    ASSUME SelTypes, NEW a, NEW b, NEW W, W = {w \in Windows : Sel!Selectable(w) /\ Sel!Touches(a, b, selAt[w])},
           NEW I, I = {i \in Items : desk[i] # None /\ Sel!Touches(a, b, desk[i])}
    PROVE  /\ W \subseteq Windows /\ \A w \in W : Sel!Live(w)
           /\ I \subseteq Items /\ \A i \in I : desk[i] # None
BY DEF Sel!Selectable, Sel!Live

\* The pointer's steps and the edge's keep it.
LEMMA SelUpdates ==
    ASSUME SelInv, op # None, NEW x \in Spots, NEW p \in Int, Sel!Event, Sel!Update(x, p)
    PROVE  SelInv'
<1>0. SelTypes /\ GroupFits /\ Sel!SelectionIsLive /\ Sel!TiledIsAligned /\ Sel!TypeOK BY DEF SelInv, SelTypes
<1>1. /\ selEvents' \in 0..SelEvents /\ px' = x /\ selPan' = p
      /\ UNCHANGED <<selOverview, status, anchor, op, groupW, groupI, toComp, grid, saved, torn>>
  BY <1>0, SelectionAssumption DEF Sel!Event, Sel!Update, Sel!TypeOK, Sel!client
<1>g. GroupFits' BY <1>0, <1>1 DEF GroupFits
<1>x. x \in Int BY SelectionAssumption
<1>2. CASE op.kind = "select"
  <2>1. Sel!Stretch(x, p) /\ UNCHANGED <<selAt, tiled, desk, toGrid>> BY <1>2 DEF Sel!Update
  <2>2. /\ band' \in Int \cup {None} /\ selW' \subseteq Windows /\ selI' \subseteq Items
        /\ \A w \in selW' : Sel!Live(w)
        /\ \A i \in selI' : desk[i] # None
    <3>1. CASE Sel!Banded(x)
      <4>1. /\ band' = p + x
            /\ selW' = {w \in Windows : Sel!Selectable(w) /\ Sel!Touches(anchor, p + x, selAt[w])}
            /\ selI' = {i \in Items : desk[i] # None /\ Sel!Touches(anchor, p + x, desk[i])}
        BY <2>1, <3>1 DEF Sel!Stretch
      <4>2. band' \in Int BY <1>x, <4>1
      <4> QED BY <1>0, <4>1, <4>2, BandTouches
    <3>2. CASE ~Sel!Banded(x)
      <4>1. UNCHANGED <<band, selW, selI>> BY <2>1, <3>2 DEF Sel!Stretch
      <4> QED BY <1>0, <4>1 DEF SelTypes, Sel!TypeOK, Sel!SelectionIsLive
    <3> QED BY <3>1, <3>2
  <2>3. Sel!TypeOK' BY <1>0, <1>1, <2>1, <2>2 DEF Sel!TypeOK
  <2>4. SelTypes' BY <1>0, <1>1, <2>1, <2>2, <2>3 DEF SelTypes
  <2>5. Sel!SelectionIsLive' BY <1>1, <2>1, <2>2 DEF Sel!SelectionIsLive, Sel!Live
  <2>6. Sel!TiledIsAligned' BY <1>0, <1>1, <2>1 DEF Sel!TiledIsAligned, Sel!Live, Sel!Aligned
  <2> QED BY <1>g, <2>4, <2>5, <2>6 DEF SelInv
<1>3. CASE op.kind # "select"
  <2>1. PICK s \in Sel!Steps(x, p) :
          /\ Sel!CarryWindows(s[1], s[2]) /\ tiled' = Sel!Untiled(s[1])
          /\ desk' = Sel!Carried(s[1]) /\ toGrid' = Sel!Told(s[1])
    BY <1>3 DEF Sel!Update
  <2>2. UNCHANGED <<selW, selI, band>> BY <1>3 DEF Sel!Update
  <2>3. /\ selAt' \in [Windows -> Int] /\ desk' \in Reports /\ toGrid' \in Seq(Lines)
        /\ \A i \in Items : desk[i] # None => desk'[i] # None
        /\ \A w \in Windows : w # op.win /\ w \notin Sel!Moves(s[1]) => selAt'[w] = selAt[w]
    BY <1>3, <1>x, <2>1, CarryFits
  <2>4. /\ tiled' \in [Windows -> BOOLEAN]
        /\ \A w \in Windows : tiled'[w] => tiled[w] /\ w # op.win /\ w \notin Sel!Moves(s[1])
    <3>1. tiled' = [w \in Windows |-> tiled[w] /\ w \notin Sel!Moves(s[1]) /\ w # op.win] BY <2>1 DEF Sel!Untiled
    <3>2. tiled \in [Windows -> BOOLEAN] BY <1>0 DEF Sel!TypeOK
    <3> QED BY <3>1, <3>2
  <2>5. Sel!TypeOK' BY <1>0, <1>1, <2>2, <2>3, <2>4 DEF Sel!TypeOK
  <2>6. SelTypes' BY <1>0, <1>1, <2>2, <2>3, <2>5 DEF SelTypes
  <2>7. Sel!SelectionIsLive' BY <1>0, <1>1, <2>2, <2>3 DEF Sel!SelectionIsLive, Sel!Live, Sel!TypeOK
  <2>8. Sel!TiledIsAligned' BY <1>0, <1>1, <2>3, <2>4 DEF Sel!TiledIsAligned, Sel!Live
  <2> QED BY <1>g, <2>6, <2>7, <2>8 DEF SelInv
<1> QED BY <1>2, <1>3

\* A release keeps it: what was moved is settled where it landed.
LEMMA SelReleases == ASSUME SelInv, Sel!ReleaseBand \/ Sel!ReleaseMove PROVE SelInv'
<1>0. SelTypes /\ GroupFits /\ Sel!SelectionIsLive /\ Sel!TiledIsAligned /\ Sel!TypeOK BY DEF SelInv, SelTypes
<1>p. px \in Spots /\ px \in Int /\ selPan \in Int BY <1>0, SelectionAssumption DEF Sel!TypeOK
<1>1. /\ selEvents' \in 0..SelEvents /\ op # None /\ op' = None /\ groupW' = <<>> /\ groupI' = <<>>
      /\ UNCHANGED <<status, px, selPan, toComp, grid, saved, torn>>
  <2>1. /\ Sel!Event /\ op # None /\ op' = None /\ groupW' = <<>> /\ groupI' = <<>>
        /\ UNCHANGED <<status, px, selPan, toComp, grid, saved, torn>>
    BY DEF Sel!ReleaseBand, Sel!ReleaseMove, Sel!wire, Sel!client
  <2> QED BY <1>0, <2>1, SelectionAssumption DEF Sel!Event, Sel!TypeOK
<1>g. GroupFits' BY <1>1 DEF GroupFits
<1>e. /\ DOMAIN groupW' = {} /\ DOMAIN groupI' = {} BY <1>1, EmptyMap
<1>o. selOverview \in BOOLEAN /\ (~selOverview) \in BOOLEAN BY <1>0 DEF Sel!TypeOK
<1>2. CASE Sel!ReleaseBand
  <2>1. /\ UNCHANGED <<selAt, tiled, desk, toGrid>> /\ anchor' = None /\ band' = None
        /\ selOverview' = selOverview \/ selOverview' = ~selOverview
    BY <1>2 DEF Sel!ReleaseBand, Sel!wire, Sel!Toggle
  <2>2. /\ selW' \subseteq Windows /\ selI' \subseteq Items
        /\ \A w \in selW' : Sel!Live(w)
        /\ \A i \in selI' : desk[i] # None
    <3>1. CASE Sel!Banded(px)
      <4>1. /\ selW' = {w \in Windows : Sel!Selectable(w) /\ Sel!Touches(anchor, selPan + px, selAt[w])}
            /\ selI' = {i \in Items : desk[i] # None /\ Sel!Touches(anchor, selPan + px, desk[i])}
        BY <1>2, <3>1 DEF Sel!ReleaseBand
      <4> QED BY <1>0, <4>1, BandTouches
    <3>2. CASE ~Sel!Banded(px)
      <4>1. selW' = {} /\ selI' = {} BY <1>2, <3>2 DEF Sel!ReleaseBand
      <4> QED BY <4>1
    <3> QED BY <3>1, <3>2
  <2>3. Sel!TypeOK' BY <1>0, <1>1, <1>e, <1>o, <2>1, <2>2 DEF Sel!TypeOK
  <2>4. SelTypes' BY <1>0, <1>1, <1>e, <2>1, <2>2, <2>3 DEF SelTypes
  <2>5. Sel!SelectionIsLive' BY <1>1, <2>1, <2>2 DEF Sel!SelectionIsLive, Sel!Live
  <2>6. Sel!TiledIsAligned' BY <1>0, <1>1, <2>1 DEF Sel!TiledIsAligned, Sel!Live, Sel!Aligned
  <2> QED BY <1>g, <2>4, <2>5, <2>6 DEF SelInv
<1>3. CASE Sel!ReleaseMove
  <2>0. op.kind # "select" BY <1>3 DEF Sel!ReleaseMove
  <2>1. PICK s \in Sel!Steps(px, selPan) :
          /\ Sel!CarryWindows(s[1], s[2])
          /\ tiled' = [w \in Windows |-> IF Sel!Settles(w, s[1]) THEN Sel!Aligned(selAt'[w])
                                         ELSE Sel!Untiled(s[1])[w]]
          /\ desk' = Sel!Carried(s[1])
          /\ toGrid' = IF \E i \in Sel!Known : Sel!CarryTo(i, s[1]) # groupI[i]
                       THEN Sel!Send(Sel!Told(s[1]), <<>>, TRUE) ELSE Sel!Told(s[1])
    BY <1>3 DEF Sel!ReleaseMove
  <2>2. /\ selAt' \in [Windows -> Int] /\ desk' \in Reports /\ Sel!Told(s[1]) \in Seq(Lines)
        /\ \A i \in Items : desk[i] # None => desk'[i] # None
        /\ \A w \in Windows : w # op.win /\ w \notin Sel!Moves(s[1]) => selAt'[w] = selAt[w]
    BY <1>1, <1>p, <2>0, <2>1, CarryFits
  <2>3. toGrid' \in Seq(Lines)
    <3>1. Sel!Send(Sel!Told(s[1]), <<>>, TRUE) \in Seq(Lines) BY <2>2, SentLine, EmptyMap
    <3> QED BY <2>1, <2>2, <3>1
  <2>4. /\ selOverview' \in BOOLEAN
        /\ UNCHANGED <<selW, selI, anchor, band>> \/ (selW' = {} /\ selI' = {} /\ band' = None /\ anchor' = anchor)
    BY <1>3, <1>o DEF Sel!ReleaseMove, Sel!Toggle, Sel!Clear, Sel!picked
  <2>5. /\ tiled' \in [Windows -> BOOLEAN]
        /\ \A w \in Windows : tiled'[w] => \/ Sel!Aligned(selAt'[w])
                                           \/ tiled[w] /\ w # op.win /\ w \notin Sel!Moves(s[1])
    <3>1. \A w \in Windows : Sel!Untiled(s[1])[w] = (tiled[w] /\ w \notin Sel!Moves(s[1]) /\ w # op.win)
      BY DEF Sel!Untiled
    <3>2. \A w \in Windows : Sel!Aligned(selAt'[w]) \in BOOLEAN BY DEF Sel!Aligned
    <3>3. tiled \in [Windows -> BOOLEAN] BY <1>0 DEF Sel!TypeOK
    <3> QED BY <2>1, <3>1, <3>2, <3>3
  <2>6. Sel!TypeOK'
    <3>1. selW' \subseteq Windows /\ selI' \subseteq Items BY <1>0, <2>4 DEF Sel!TypeOK
    <3> QED BY <1>0, <1>1, <1>e, <2>2, <2>4, <2>5, <3>1 DEF Sel!TypeOK
  <2>7. SelTypes'
    <3>1. {anchor', band'} \subseteq Int \cup {None} BY <1>0, <2>4 DEF SelTypes
    <3> QED BY <1>0, <1>1, <1>e, <2>2, <2>3, <2>6, <3>1 DEF SelTypes
  <2>8. Sel!SelectionIsLive' BY <1>0, <1>1, <2>2, <2>4 DEF Sel!SelectionIsLive, Sel!Live, Sel!TypeOK
  <2>9. Sel!TiledIsAligned'
    <3> SUFFICES ASSUME NEW w \in Windows, Sel!Live(w)', tiled'[w] PROVE Sel!Aligned(selAt'[w])
      BY DEF Sel!TiledIsAligned, Sel!Aligned
    <3>1. Sel!Live(w) BY <1>1 DEF Sel!Live
    <3>2. CASE tiled[w] /\ w # op.win /\ w \notin Sel!Moves(s[1])
      <4>1. selAt'[w] = selAt[w] BY <2>2, <3>2
      <4> QED BY <1>0, <3>1, <3>2, <4>1 DEF Sel!TiledIsAligned
    <3> QED BY <2>5, <3>2
  <2> QED BY <1>g, <2>7, <2>8, <2>9 DEF SelInv
<1> QED BY <1>2, <1>3

\* What the grid's client and the compositor tell each other keeps it.
LEMMA SelWire ==
    ASSUME SelInv,
           (\E i \in Items, p \in ImagePlaces \cup {None} : Sel!Edit(i, p)) \/ Sel!Hears \/ Sel!Dies \/ Sel!Starts \/ Sel!Reported
    PROVE  SelInv'
<1>0. SelTypes /\ GroupFits /\ Sel!SelectionIsLive /\ Sel!TiledIsAligned /\ Sel!TypeOK BY DEF SelInv, SelTypes
<1>1. UNCHANGED <<selOverview, status, selAt, tiled, selW, anchor, band, op, groupW, groupI, px, selPan>>
  BY DEF Sel!Edit, Sel!Hears, Sel!Dies, Sel!Starts, Sel!Reported, Sel!picked, Sel!client
<1>2. selEvents' \in 0..SelEvents /\ torn' \in BOOLEAN
  <2>1. selEvents \in 0..SelEvents /\ SelEvents \in Nat /\ torn \in BOOLEAN BY <1>0, SelectionAssumption DEF Sel!TypeOK
  <2>2. selEvents' = selEvents \/ (selEvents < SelEvents /\ selEvents' = selEvents + 1)
    BY DEF Sel!Edit, Sel!Hears, Sel!Dies, Sel!Starts, Sel!Reported, Sel!Event
  <2>3. \/ torn' = torn \/ torn' = (torn \/ groupI # <<>>)
        \/ \E i \in Items : torn' = (torn \/ i \in DOMAIN groupI \/ toGrid # <<>>)
    BY Zenon DEF Sel!Edit, Sel!Hears, Sel!Dies, Sel!Starts, Sel!Reported
  <2>4. torn' \in BOOLEAN BY <2>1, <2>3, Zenon
  <2>5. selEvents' \in 0..SelEvents BY <2>1, <2>2
  <2> QED BY <2>4, <2>5
<1>t. /\ desk \in Reports /\ saved \in Reports /\ (grid = None \/ grid \in Reports)
      /\ toGrid \in Seq(Lines) /\ toComp \in Seq(Reports) /\ selI \subseteq Items
  BY <1>0 DEF SelTypes, Sel!TypeOK
<1>a. ASSUME NEW r \in Reports PROVE Append(toComp, r) \in Seq(Reports) BY <1>t, <1>a, AppendProperties
<1>3. /\ {desk', saved'} \subseteq Reports /\ (grid' = None \/ grid' \in Reports)
      /\ toGrid' \in Seq(Lines) /\ toComp' \in Seq(Reports)
      /\ selI' \subseteq selI /\ \A i \in selI' : desk'[i] # None
  <2>l. \A i \in selI : desk[i] # None BY <1>0 DEF Sel!SelectionIsLive
  <2>1. ASSUME NEW i \in Items, NEW p \in ImagePlaces \cup {None}, Sel!Edit(i, p)
        PROVE  /\ {desk', saved'} \subseteq Reports /\ (grid' = None \/ grid' \in Reports)
               /\ toGrid' \in Seq(Lines) /\ toComp' \in Seq(Reports)
               /\ selI' \subseteq selI /\ \A j \in selI' : desk'[j] # None
    <3>1. /\ grid # None /\ grid' = [grid EXCEPT ![i] = p] /\ saved' = grid' /\ toComp' = Append(toComp, grid')
          /\ UNCHANGED <<desk, selI, toGrid>>
      BY <2>1 DEF Sel!Edit, Sel!Alive, Sel!picked
    <3>2. p \in Int \cup {None} BY SelectionAssumption
    <3>3. grid' \in Reports BY <1>t, <3>1, <3>2 DEF Reports
    <3> QED BY <1>t, <1>a, <2>l, <3>1, <3>3
  <2>2. CASE Sel!Hears
    <3>1. /\ grid # None /\ toGrid # <<>> /\ toGrid' = Tail(toGrid) /\ UNCHANGED <<desk, selI>>
          /\ IF Head(toGrid).drop
             THEN saved' = grid /\ toComp' = Append(toComp, grid) /\ UNCHANGED grid
             ELSE /\ grid' = [i \in Items |-> IF i \in DOMAIN Head(toGrid).to /\ grid[i] # None
                                              THEN Head(toGrid).to[i] ELSE grid[i]]
                  /\ UNCHANGED <<saved, toComp>>
      BY <2>2 DEF Sel!Hears, Sel!Alive, Sel!picked
    <3>2. Head(toGrid) \in Lines /\ toGrid' \in Seq(Lines) BY <1>t, <3>1, HeadTailProperties
    <3>3. PICK J \in SUBSET Items : Head(toGrid).to \in [J -> Int] BY <3>2 DEF Lines
    <3>4. CASE Head(toGrid).drop BY <1>t, <1>a, <2>l, <3>1, <3>2, <3>4
    <3>5. CASE ~Head(toGrid).drop
      <4>1. grid' \in Reports BY <1>t, <3>1, <3>3, <3>5 DEF Reports
      <4> QED BY <1>t, <2>l, <3>1, <3>2, <3>5, <4>1
    <3> QED BY <3>4, <3>5
  <2>3. CASE Sel!Dies
    <3>1. /\ grid' = None /\ toGrid' = <<>> /\ desk' = Sel!Nowhere /\ UNCHANGED <<toComp, saved>>
          /\ selI' = {i \in selI : ~Sel!Drops(Sel!Nowhere, i)}
      BY <2>3 DEF Sel!Dies
    <3>2. toGrid' \in Seq(Lines) BY <3>1, EmptySeq
    <3> QED BY <1>t, <3>1, <3>2, NowhereIsReport DEF Sel!Drops
  <2>4. CASE Sel!Starts
    <3>1. grid' = saved /\ toComp' = Append(toComp, saved) /\ UNCHANGED <<desk, selI, toGrid, saved>>
      BY <2>4 DEF Sel!Starts, Sel!picked
    <3> QED BY <1>t, <1>a, <2>l, <3>1
  <2>5. CASE Sel!Reported
    <3>1. /\ toComp # <<>> /\ toComp' = Tail(toComp) /\ desk' = Head(toComp)
          /\ selI' = {i \in selI : ~Sel!Drops(Head(toComp), i)} /\ UNCHANGED <<toGrid, grid, saved>>
      BY <2>5 DEF Sel!Reported, Sel!client
    <3>2. Head(toComp) \in Reports /\ toComp' \in Seq(Reports) BY <1>t, <3>1, HeadTailProperties
    <3> QED BY <1>t, <3>1, <3>2 DEF Sel!Drops
  <2> QED BY <2>1, <2>2, <2>3, <2>4, <2>5
<1>4. Sel!TypeOK' BY <1>0, <1>1, <1>2, <1>3, <1>t DEF Sel!TypeOK
<1>5. SelTypes' BY <1>0, <1>1, <1>3, <1>4 DEF SelTypes
<1>6. GroupFits' BY <1>0, <1>1 DEF GroupFits
<1>7. Sel!SelectionIsLive' BY <1>0, <1>1, <1>3 DEF Sel!SelectionIsLive, Sel!Live
<1>8. Sel!TiledIsAligned' BY <1>0, <1>1 DEF Sel!TiledIsAligned, Sel!Live, Sel!Aligned
<1> QED BY <1>5, <1>6, <1>7, <1>8 DEF SelInv

\* Every step of the drag-selection keeps all of it.
LEMMA SelNext == ASSUME SelInv, [Sel!Next]_(Sel!selectionVars) PROVE SelInv'
<1>0. SelTypes /\ GroupFits /\ Sel!SelectionIsLive /\ Sel!TiledIsAligned /\ Sel!TypeOK BY DEF SelInv, SelTypes
<1>1. CASE UNCHANGED Sel!selectionVars
  BY <1>0, <1>1 DEF Sel!selectionVars, SelInv, SelTypes, GroupFits, Sel!TypeOK, Sel!SelectionIsLive,
     Sel!TiledIsAligned, Sel!Live, Sel!Aligned
<1>2. ASSUME NEW x \in Spots, Sel!Motion(x) PROVE SelInv'
  <2>1. op # None /\ Sel!Event /\ Sel!Update(x, selPan) /\ selPan \in Int BY <1>0, <1>2 DEF Sel!Motion, Sel!TypeOK
  <2> QED BY <2>1, SelUpdates
<1>3. ASSUME NEW d \in {-1, 1}, Sel!EdgePan(d) PROVE SelInv'
  <2>1. op # None /\ Sel!Event /\ Sel!Update(px, selPan + d) BY <1>3 DEF Sel!EdgePan
  <2>2. px \in Spots /\ selPan + d \in Int BY <1>0 DEF Sel!TypeOK
  <2> QED BY <2>1, <2>2, SelUpdates
<1>4. CASE Sel!Key
  <2>1. /\ Sel!Event /\ selOverview' = ~selOverview
        /\ UNCHANGED <<selW, selI, anchor, band>> \/ (selW' = {} /\ selI' = {} /\ band' = None /\ anchor' = anchor)
        /\ UNCHANGED <<status, selAt, tiled, desk, op, groupW, groupI, px, selPan, toGrid, toComp, grid, saved, torn>>
    BY <1>4 DEF Sel!Key, Sel!Toggle, Sel!Clear, Sel!picked, Sel!wire, Sel!client
  <2>2. selEvents' \in 0..SelEvents BY <1>0, <2>1, SelectionAssumption DEF Sel!Event, Sel!TypeOK
  <2>3. Sel!TypeOK' BY <1>0, <2>1, <2>2 DEF Sel!TypeOK
  <2>4. SelTypes' BY <1>0, <2>1, <2>3 DEF SelTypes
  <2>5. GroupFits' /\ Sel!SelectionIsLive' /\ Sel!TiledIsAligned'
    BY <1>0, <2>1 DEF GroupFits, Sel!SelectionIsLive, Sel!TiledIsAligned, Sel!Live, Sel!Aligned
  <2> QED BY <2>4, <2>5 DEF SelInv
<1>5. ASSUME NEW w \in Windows, Sel!Minimize(w) PROVE SelInv'
  <2>1. /\ Sel!Live(w) /\ Sel!Event /\ status' = [status EXCEPT ![w] = IF @ = "up" THEN "min" ELSE "up"]
        /\ UNCHANGED <<selOverview, selAt, tiled, desk, selW, selI, anchor, band, op, groupW, groupI, px, selPan,
                       toGrid, toComp, grid, saved, torn>>
    BY <1>5 DEF Sel!Minimize, Sel!picked, Sel!wire, Sel!client
  <2>2. selEvents' \in 0..SelEvents BY <1>0, <2>1, SelectionAssumption DEF Sel!Event, Sel!TypeOK
  <2>3. status' \in [Windows -> {"up", "min", "gone"}] /\ \A v \in Windows : Sel!Live(v)' = Sel!Live(v)
    BY <1>0, <2>1 DEF Sel!Live, Sel!TypeOK
  <2>4. Sel!TypeOK' BY <1>0, <2>1, <2>2, <2>3 DEF Sel!TypeOK
  <2>5. SelTypes' BY <1>0, <2>1, <2>4 DEF SelTypes
  <2>6. Sel!SelectionIsLive' BY <1>0, <2>1, <2>3 DEF Sel!SelectionIsLive, Sel!TypeOK
  <2>7. GroupFits' /\ Sel!TiledIsAligned' BY <1>0, <2>1, <2>3 DEF GroupFits, Sel!TiledIsAligned, Sel!Aligned
  <2> QED BY <2>5, <2>6, <2>7 DEF SelInv
<1>6. ASSUME NEW w \in Windows, Sel!Destroy(w) PROVE SelInv'
  <2>1. /\ Sel!Event /\ status' = [status EXCEPT ![w] = "gone"] /\ selW' = selW \ {w}
        /\ (op' = None /\ torn' = (torn \/ groupI # <<>>)) \/ UNCHANGED <<op, torn>>
        /\ UNCHANGED <<selOverview, selAt, tiled, desk, selI, anchor, band, groupW, groupI, px, selPan,
                       toGrid, toComp, grid, saved>>
    BY <1>6 DEF Sel!Destroy, Sel!wire, Sel!client
  <2>2. selEvents' \in 0..SelEvents BY <1>0, <2>1, SelectionAssumption DEF Sel!Event, Sel!TypeOK
  <2>3. /\ status' \in [Windows -> {"up", "min", "gone"}]
        /\ \A v \in Windows : Sel!Live(v)' = (Sel!Live(v) /\ v # w)
    BY <1>0, <2>1 DEF Sel!Live, Sel!TypeOK
  <2>4. torn' \in BOOLEAN BY <1>0, <2>1 DEF Sel!TypeOK
  <2>5. Sel!TypeOK' BY <1>0, <2>1, <2>2, <2>3, <2>4 DEF Sel!TypeOK
  <2>6. SelTypes' BY <1>0, <2>1, <2>5 DEF SelTypes
  <2>7. Sel!SelectionIsLive' BY <1>0, <2>1, <2>3 DEF Sel!SelectionIsLive, Sel!TypeOK
  <2>8. GroupFits' /\ Sel!TiledIsAligned' BY <1>0, <2>1, <2>3 DEF GroupFits, Sel!TiledIsAligned, Sel!Aligned
  <2> QED BY <2>6, <2>7, <2>8 DEF SelInv
<1> QED BY <1>1, <1>2, <1>3, <1>4, <1>5, <1>6, SelPresses, SelReleases, SelWire DEF Sel!Next

\* Nothing is selected that is gone, and a tiled window rests on the cells.
LEMMA SelSound == SelInv => Sel!TypeOK /\ Sel!SelectionIsLive /\ Sel!TiledIsAligned
BY DEF SelInv, SelTypes

\* Only the release of a move lets a carried group go with its windows as they were.
LEMMA OnlyReleases ==
    ASSUME SelInv, [Sel!Next]_(Sel!selectionVars), Sel!Released, UNCHANGED status
    PROVE  Sel!ReleaseMove
<1>0. SelTypes /\ Sel!TypeOK BY DEF SelInv, SelTypes
<1>1. op # None /\ op' = None /\ op.kind # "select" /\ op' # op BY DEF Sel!Released
<1>2. ~UNCHANGED Sel!selectionVars BY <1>1 DEF Sel!selectionVars
<1>3. ASSUME NEW x \in Spots, Sel!PressWindow(x) \/ Sel!PressImage(x) \/ Sel!PressBare(x) PROVE FALSE
  BY <1>1, <1>3 DEF Sel!PressWindow, Sel!PressImage, Sel!PressBare
<1>4. ASSUME NEW x \in Spots, Sel!Motion(x) PROVE FALSE BY <1>1, <1>4 DEF Sel!Motion, Sel!Update
<1>5. ASSUME NEW d \in {-1, 1}, Sel!EdgePan(d) PROVE FALSE BY <1>1, <1>5 DEF Sel!EdgePan, Sel!Update
<1>6. ~Sel!ReleaseBand BY <1>1 DEF Sel!ReleaseBand
<1>7. ~Sel!Key /\ ~Sel!Hears /\ ~Sel!Dies /\ ~Sel!Starts /\ ~Sel!Reported
  BY <1>1 DEF Sel!Key, Sel!Hears, Sel!Dies, Sel!Starts, Sel!Reported
<1>8. ASSUME NEW w \in Windows, Sel!Minimize(w) PROVE FALSE BY <1>1, <1>8 DEF Sel!Minimize
<1>9. ASSUME NEW w \in Windows, Sel!Destroy(w) PROVE FALSE
  <2>1. status[w] # "gone" /\ status' = [status EXCEPT ![w] = "gone"] BY <1>9 DEF Sel!Destroy, Sel!Live
  <2>2. status'[w] = "gone" BY <1>0, <2>1 DEF Sel!TypeOK
  <2> QED BY <2>1, <2>2
<1>10. ASSUME NEW i \in Items, NEW p \in ImagePlaces \cup {None}, Sel!Edit(i, p) PROVE FALSE BY <1>1, <1>10 DEF Sel!Edit
<1>11. ~\E d \in {-1, 1} : Sel!EdgePan(d) BY <1>5, Zenon
<1> QED BY <1>2, <1>3, <1>4, <1>6, <1>7, <1>8, <1>9, <1>10, <1>11, Zenon DEF Sel!Next

\* What a release does to the windows and images it carried: it moves them by one
\* offset, and judges what it moved by where it landed.
LEMMA ReleaseLands ==
    ASSUME SelInv, Sel!ReleaseMove
    PROVE  \E g \in Int :
             /\ \A w \in DOMAIN groupW : Sel!Selectable(w) => selAt'[w] - groupW[w] = g
             /\ \A i \in Sel!Known : desk'[i] - groupI[i] = g
             /\ op.win # None => selAt'[op.win] - op.from = g
             /\ \A w \in DOMAIN groupW \cup ({op.win} \ {None}) :
                   Sel!Selectable(w) /\ (w = op.win \/ selAt'[w] # groupW[w])
                   => tiled'[w] = Sel!Aligned(selAt'[w])
<1>0. SelTypes /\ GroupFits /\ Sel!TypeOK BY DEF SelInv, SelTypes
<1>1. PICK s \in Sel!Steps(px, selPan) :
        /\ Sel!CarryWindows(s[1], s[2])
        /\ tiled' = [w \in Windows |-> IF Sel!Settles(w, s[1]) THEN Sel!Aligned(selAt'[w]) ELSE Sel!Untiled(s[1])[w]]
        /\ desk' = Sel!Carried(s[1])
  BY DEF Sel!ReleaseMove
<1>2. op # None /\ op.kind # "select" /\ op \in Ops BY <1>0 DEF Sel!ReleaseMove, SelTypes
<1>3. s[1] \in Int /\ (op.win # None => op.win \in Windows /\ Sel!Live(op.win) /\ s[2] - op.from = s[1])
  <2>1. CASE op.kind = "group"
    <3>1. op.win = None BY <1>0, <1>2, <2>1 DEF GroupFits
    <3>2. PICK g \in Sel!Offsets(op.from, Sel!Delta(px, selPan), op.tiled) : s = <<g, None>>
      BY <1>1, <2>1 DEF Sel!Steps
    <3>3. g \in Int
      <4>1. Sel!Delta(px, selPan) \in Int /\ op.from \in Int
        BY <1>0, <1>2, SelectionAssumption DEF Sel!Delta, Sel!TypeOK, Ops
      <4> QED BY <3>2, <4>1 DEF Sel!Offsets, Sel!Snap
    <3> QED BY <3>1, <3>2, <3>3
  <2>2. CASE op.kind # "group"
    <3>1. op.win \in Windows /\ op.kind = "move" BY <1>0, <1>2, <2>2 DEF GroupFits, Ops
    <3>2. Sel!Live(op.win) BY <1>1, <2>2 DEF Sel!Steps
    <3>3. PICK l \in Sel!Landings(op.from, Sel!Delta(px, selPan), op.tiled) : s = <<l - op.from, l>>
      BY <1>1, <2>2, <3>2 DEF Sel!Steps
    <3>4. op.from \in Int /\ l \in Int
      <4>1. Sel!Delta(px, selPan) \in Int /\ op.from \in Int
        BY <1>0, <1>2, SelectionAssumption DEF Sel!Delta, Sel!TypeOK, Ops
      <4> QED BY <3>3, <4>1 DEF Sel!Landings, Sel!Snap
    <3> QED BY <3>1, <3>2, <3>3, <3>4
  <2> QED BY <2>1, <2>2
<1> DEFINE g == s[1]
<1>4. /\ \A w \in Windows : selAt'[w] = IF w = op.win /\ Sel!Live(w) THEN s[2]
                                      ELSE IF w \in Sel!Moves(g) THEN groupW[w] + g ELSE selAt[w]
      /\ \A i \in Items : desk'[i] = IF i \in Sel!Known THEN groupI[i] + g ELSE desk[i]
  BY <1>1 DEF Sel!CarryWindows, Sel!Carried, Sel!CarryTo
<1>5. /\ DOMAIN groupW \subseteq Windows /\ DOMAIN groupI \subseteq Items /\ op.win \notin DOMAIN groupW
      /\ \A w \in DOMAIN groupW : groupW[w] \in Int
      /\ \A i \in DOMAIN groupI : groupI[i] \in Int
  BY <1>0, <1>2, SelectionAssumption DEF GroupFits, SelTypes, Sel!TypeOK
<1>6. ASSUME NEW w \in DOMAIN groupW, Sel!Selectable(w) PROVE selAt'[w] - groupW[w] = g
  <2>1. w \in Windows /\ w # op.win /\ groupW[w] \in Int BY <1>5
  <2>2. CASE w \in Sel!Moves(g) BY <1>3, <1>4, <2>1, <2>2
  <2>3. CASE w \notin Sel!Moves(g)
    <3>1. g = 0 /\ selAt[w] = groupW[w] BY <1>6, <2>3 DEF Sel!Moves
    <3> QED BY <1>4, <2>1, <2>3, <3>1
  <2> QED BY <2>2, <2>3
<1>7. ASSUME NEW i \in Sel!Known PROVE desk'[i] - groupI[i] = g
  <2>1. i \in Items /\ groupI[i] \in Int BY <1>5 DEF Sel!Known
  <2> QED BY <1>3, <1>4, <2>1
<1>8. op.win # None => selAt'[op.win] - op.from = g BY <1>3, <1>4
<1>9. ASSUME NEW w \in DOMAIN groupW \cup ({op.win} \ {None}), Sel!Selectable(w), w = op.win \/ selAt'[w] # groupW[w]
      PROVE  tiled'[w] = Sel!Aligned(selAt'[w])
  <2>1. w \in Windows BY <1>3, <1>5
  <2>2. Sel!Settles(w, g)
    <3>1. CASE w = op.win BY <1>3, <1>5, <1>9, <3>1 DEF Sel!Settles
    <3>2. CASE w # op.win
      <4>1. w \in DOMAIN groupW /\ groupW[w] \in Int BY <1>5, <1>9, <3>2
      <4>2. CASE w \in Sel!Moves(g)
        <5>1. selAt'[w] = groupW[w] + g BY <1>4, <2>1, <3>2, <4>2
        <5>2. g # 0
          <6>1. selAt'[w] # groupW[w] BY <1>9, <3>2
          <6> HIDE DEF g
          <6>2. g = 0 => groupW[w] + g = groupW[w] BY <4>1
          <6> QED BY <5>1, <6>1, <6>2
        <5> QED BY <1>9, <3>2, <4>1, <4>2, <5>2 DEF Sel!Settles
      <4>3. CASE w \notin Sel!Moves(g)
        <5>1. selAt'[w] = selAt[w] BY <1>4, <2>1, <3>2, <4>3
        <5> QED BY <1>9, <3>2, <4>1, <4>3, <5>1 DEF Sel!Settles
      <4> QED BY <4>2, <4>3
    <3> QED BY <3>1, <3>2
  <2> QED BY <1>1, <2>1, <2>2
<1> HIDE DEF g
<1>10. g \in Int BY <1>3 DEF g
<1> QED BY <1>6, <1>7, <1>8, <1>9, <1>10

\* A group lands together, each window of it judged by where it landed
\* (op_end, carry_group_windows, settle_tiling).
LEMMA GroupLands ==
    ASSUME SelInv, [Sel!Next]_(Sel!selectionVars), Sel!Released, UNCHANGED status
    PROVE  /\ Sel!Cardinality({selAt'[w] - groupW[w] : w \in {v \in DOMAIN groupW : Sel!Selectable(v)}}
                          \cup {desk'[i] - groupI[i] : i \in Sel!Known}
                          \cup {selAt'[w] - op.from : w \in {op.win} \ {None}}) <= 1
           /\ \A w \in DOMAIN groupW \cup ({op.win} \ {None}) :
                 Sel!Selectable(w) /\ (w = op.win \/ selAt'[w] # groupW[w])
                 => tiled'[w] = Sel!Aligned(selAt'[w])
<1>1. Sel!ReleaseMove BY OnlyReleases
<1>2. PICK g \in Int :
             /\ \A w \in DOMAIN groupW : Sel!Selectable(w) => selAt'[w] - groupW[w] = g
             /\ \A i \in Sel!Known : desk'[i] - groupI[i] = g
             /\ op.win # None => selAt'[op.win] - op.from = g
             /\ \A w \in DOMAIN groupW \cup ({op.win} \ {None}) :
                   Sel!Selectable(w) /\ (w = op.win \/ selAt'[w] # groupW[w])
                   => tiled'[w] = Sel!Aligned(selAt'[w])
  BY <1>1, ReleaseLands
<1> DEFINE moved == {selAt'[w] - groupW[w] : w \in {v \in DOMAIN groupW : Sel!Selectable(v)}}
                      \cup {desk'[i] - groupI[i] : i \in Sel!Known}
                      \cup {selAt'[w] - op.from : w \in {op.win} \ {None}}
<1>3. moved \subseteq {g} BY <1>2
<1>4. Cardinality({g}) = 1 /\ IsFiniteSet({g}) BY FS_Singleton
<1>5. Cardinality(moved) <= Cardinality({g}) BY <1>3, <1>4, FS_Subset
<1>6. \A S : Sel!Cardinality(S) = Cardinality(S) BY DEF Sel!Cardinality, Cardinality
<1> HIDE DEF moved
<1>7. Sel!Cardinality(moved) <= 1 BY <1>4, <1>5, <1>6
<1> QED BY <1>2, <1>7 DEF moved

--------------------
(* An X11 surface and its objects.                                         *)

\* What the compositor has of a surface, as a handler's record.
Hooks == [mapHeard : Surf!Objects \cup {None}, shownHeard : Surf!Objects \cup {None},
          data : Surf!Objects \cup {None}, tree : Surf!Objects \cup {None},
          registered : SUBSET Surf!Objects, win : [Surf!Objects -> {"none", "Init", "Mapped", "Closing"}],
          linked : SUBSET Surf!Objects, focus : {Nobody, Parent, Other} \cup Surf!Objects,
          keyboard : {Nobody, Parent, Other, This}]
\* A record names the object o, the last of m, and no other: o hears of a paired surface, shows a
\* mapped one, and whoever has the focus is still there.
Names(h, o, window, pair, map) ==
    /\ h.mapHeard = IF pair THEN o ELSE None
    /\ IF map /\ (window \/ sKind # "tray")
       THEN h.tree = o /\ h.data = o /\ h.shownHeard = o
       ELSE h.tree = None /\ h.data = None /\ h.shownHeard = None
    /\ h.registered = IF window THEN {} ELSE {o} \ {None}
WindowsFit(h, o, window, map, m) ==
    /\ \A q \in Surf!Objects : /\ q > m => h.win[q] = "none"
                               /\ q # o => h.win[q] # "Mapped"
    /\ o # None => IF window THEN h.win[o] # "none" /\ (map <=> h.win[o] = "Mapped") ELSE h.win[o] = "none"
    /\ h.focus \in Surf!Objects => h.win[h.focus] # "none" \/ (h.focus = o /\ map)
Fits(h, o, window, pair, map, m) ==
    h \in Hooks /\ Names(h, o, window, pair, map) /\ WindowsFit(h, o, window, map, m)
\* Unless a pass is due, the render list and the focus are settled.
SeatSettled ==
    ~sDirty => /\ linked = {o \in Surf!Objects : sWin[o] = "Mapped"}
               /\ focus \in Surf!Objects => focus = owner /\ sMapped
SurfInv ==
    /\ sKind \in SurfKinds /\ {alive, override, paired, sBuffer, sMapped, managed, sDirty} \subseteq BOOLEAN
    /\ sEvents \in 0..SurfEvents /\ made \in 0..MaxObjects
    /\ owner \in Surf!Objects \cup {None} /\ (owner # None => owner <= made)
    /\ (alive <=> owner # None) /\ (~alive => ~paired /\ ~sBuffer)
    /\ sMapped = (paired /\ sBuffer) /\ listens = owner
    /\ Fits(Surf!Now, owner, managed, paired, sMapped, made) /\ SeatSettled

\* A surface that parts from its wl_surface: what showed it lets go of it.
LEMMA UnmapsFit ==
    ASSUME NEW h, NEW o \in Surf!Objects, NEW window \in BOOLEAN, NEW pair \in BOOLEAN, NEW m \in Nat,
           Fits(h, o, window, pair, TRUE, m)
    PROVE  Fits(IF window THEN Surf!WindowUnmaps(h, o) ELSE Surf!MenuUnmaps(h, o), o, window, pair, FALSE, m)
<1>0. h \in Hooks /\ Names(h, o, window, pair, TRUE) /\ WindowsFit(h, o, window, TRUE, m) BY DEF Fits
<1>1. CASE window
  <2> DEFINE n == Surf!WindowUnmaps(h, o)
  <2>1. h.win[o] = "Mapped" BY <1>0, <1>1, SurfaceAssumption DEF WindowsFit, Surf!Objects
  <2>2. /\ n.data = None /\ n.tree = None /\ n.shownHeard = None /\ n.win = [h.win EXCEPT ![o] = "Closing"]
        /\ n.linked = h.linked \ {o} /\ n.mapHeard = h.mapHeard /\ n.registered = h.registered
        /\ n.focus = h.focus /\ n.keyboard = h.keyboard /\ n \in Hooks
    BY <1>0, <2>1 DEF Surf!WindowUnmaps, Hooks
  <2> HIDE DEF n
  <2>3. \A q \in Surf!Objects : n.win[q] = IF q = o THEN "Closing" ELSE h.win[q] BY <1>0, <2>2 DEF Hooks
  <2>4. WindowsFit(n, o, window, FALSE, m)
    <3>1. \A q \in Surf!Objects : (q > m => n.win[q] = "none") /\ n.win[q] # "Mapped"
      <4> TAKE q \in Surf!Objects
      <4>1. ~(o > m) BY <1>0, <2>1 DEF WindowsFit
      <4> QED BY <1>0, <2>3, <4>1 DEF WindowsFit
    <3>2. n.focus \in Surf!Objects => n.win[n.focus] # "none" BY <1>0, <2>2, <2>3 DEF WindowsFit
    <3> QED BY <1>1, <2>3, <3>1, <3>2 DEF WindowsFit
  <2>5. Names(n, o, window, pair, FALSE) BY <1>0, <1>1, <2>2 DEF Names
  <2>6. Fits(n, o, window, pair, FALSE, m) BY <2>2, <2>4, <2>5 DEF Fits
  <2> QED BY <1>1, <2>6 DEF n
<1>2. CASE ~window
  <2> DEFINE n == Surf!MenuUnmaps(h, o)
  <2>1. /\ n.data = None /\ n.tree = None /\ n.shownHeard = None /\ n.win = h.win
        /\ n.linked = h.linked /\ n.mapHeard = h.mapHeard /\ n.registered = h.registered
        /\ n.focus = (IF h.focus = o THEN Nobody ELSE h.focus) /\ n \in Hooks
    BY <1>0 DEF Surf!MenuUnmaps, Surf!DropSeatFocus, Hooks
  <2> HIDE DEF n
  <2>2. WindowsFit(n, o, window, FALSE, m) BY <1>0, <1>2, <2>1, SurfaceAssumption DEF WindowsFit, Surf!Objects
  <2>3. Names(n, o, window, pair, FALSE) BY <1>0, <1>2, <2>1 DEF Names
  <2>4. Fits(n, o, window, pair, FALSE, m) BY <2>1, <2>2, <2>3 DEF Fits
  <2> QED BY <1>2, <2>4 DEF n
<1> QED BY <1>1, <1>2

\* One that is not mapped parts from it.
LEMMA DissociatesFit ==
    ASSUME NEW h, NEW o, NEW window \in BOOLEAN, NEW pair \in BOOLEAN, NEW m \in Nat,
           Fits(h, o, window, pair, FALSE, m)
    PROVE  Fits(Surf!Dissociate(h), o, window, FALSE, FALSE, m)
<1>0. h \in Hooks /\ Names(h, o, window, pair, FALSE) /\ WindowsFit(h, o, window, FALSE, m) BY DEF Fits
<1> DEFINE n == Surf!Dissociate(h)
<1>1. /\ n.data = h.data /\ n.tree = h.tree /\ n.shownHeard = h.shownHeard /\ n.win = h.win /\ n.linked = h.linked
      /\ n.mapHeard = None /\ n.registered = h.registered /\ n.focus = h.focus /\ n \in Hooks
  BY <1>0 DEF Surf!Dissociate, Hooks
<1> HIDE DEF n
<1>2. WindowsFit(n, o, window, FALSE, m) BY <1>0, <1>1 DEF WindowsFit
<1>3. Names(n, o, window, FALSE, FALSE) BY <1>0, <1>1 DEF Names
<1>4. Fits(n, o, window, FALSE, FALSE, m) BY <1>1, <1>2, <1>3 DEF Fits
<1> QED BY <1>4 DEF n

\* A window that is closed is left to the passes; a menu is struck from the list and the seat.
LEMMA GoneFits ==
    ASSUME NEW h, NEW o \in Surf!Objects, NEW window \in BOOLEAN, NEW other \in BOOLEAN, NEW m \in Nat,
           Fits(h, o, window, FALSE, FALSE, m)
    PROVE  /\ window => Fits(h, None, other, FALSE, FALSE, m)
           /\ ~window => Fits(Surf!DropSeatFocus(Surf!Unregister(h, o), o), None, other, FALSE, FALSE, m)
<1>0. h \in Hooks /\ Names(h, o, window, FALSE, FALSE) /\ WindowsFit(h, o, window, FALSE, m) BY DEF Fits
<1>1. ASSUME window PROVE Fits(h, None, other, FALSE, FALSE, m)
  <2>1. WindowsFit(h, None, other, FALSE, m) BY <1>0, <1>1 DEF WindowsFit
  <2>2. Names(h, None, other, FALSE, FALSE) BY <1>0, <1>1 DEF Names
  <2> QED BY <1>0, <2>1, <2>2 DEF Fits
<1>2. ASSUME ~window PROVE Fits(Surf!DropSeatFocus(Surf!Unregister(h, o), o), None, other, FALSE, FALSE, m)
  <2> DEFINE n == Surf!DropSeatFocus(Surf!Unregister(h, o), o)
  <2>1. /\ n.data = h.data /\ n.tree = h.tree /\ n.shownHeard = h.shownHeard /\ n.win = h.win
        /\ n.linked = h.linked /\ n.mapHeard = h.mapHeard /\ n.registered = h.registered \ {o}
        /\ n.focus = (IF h.focus = o THEN Nobody ELSE h.focus) /\ n \in Hooks
    BY <1>0 DEF Surf!Unregister, Surf!DropSeatFocus, Hooks
  <2> HIDE DEF n
  <2>2. WindowsFit(n, None, other, FALSE, m) BY <1>0, <1>2, <2>1, SurfaceAssumption DEF WindowsFit, Surf!Objects
  <2>3. Names(n, None, other, FALSE, FALSE) BY <1>0, <1>2, <2>1 DEF Names
  <2>4. Fits(n, None, other, FALSE, FALSE, m) BY <2>1, <2>2, <2>3 DEF Fits
  <2> QED BY <2>4 DEF n
<1> QED BY <1>1, <1>2

\* The object that is made for a surface without one, and pairs with it.
LEMMA CreatesFit ==
    ASSUME NEW h, NEW window \in BOOLEAN, NEW other \in BOOLEAN, NEW m \in Nat, m < MaxObjects,
           Fits(h, None, other, FALSE, FALSE, m)
    PROVE  Fits(IF window THEN [h EXCEPT !.win[m + 1] = "Init"] ELSE Surf!Register(h, m + 1),
                m + 1, window, FALSE, FALSE, m + 1)
<1>0. h \in Hooks /\ Names(h, None, other, FALSE, FALSE) /\ WindowsFit(h, None, other, FALSE, m) BY DEF Fits
<1>o. m + 1 \in Surf!Objects /\ m + 1 \in Nat /\ None \notin Surf!Objects BY SurfaceAssumption DEF Surf!Objects
<1>1. CASE window
  <2> DEFINE n == [h EXCEPT !.win[m + 1] = "Init"]
  <2>1. /\ n.data = h.data /\ n.tree = h.tree /\ n.shownHeard = h.shownHeard /\ n.win = [h.win EXCEPT ![m + 1] = "Init"]
        /\ n.linked = h.linked /\ n.mapHeard = h.mapHeard /\ n.registered = h.registered
        /\ n.focus = h.focus /\ n \in Hooks
    BY <1>0 DEF Hooks
  <2> HIDE DEF n
  <2>2. \A q \in Surf!Objects : n.win[q] = IF q = m + 1 THEN "Init" ELSE h.win[q] BY <1>0, <2>1 DEF Hooks
  <2>3. WindowsFit(n, m + 1, window, FALSE, m + 1)
    <3>1. \A q \in Surf!Objects : (q > m => h.win[q] = "none") /\ h.win[q] # "Mapped"
      BY <1>0, SurfaceAssumption DEF WindowsFit, Surf!Objects
    <3>2. \A q \in Surf!Objects : (q > m + 1 => n.win[q] = "none") /\ n.win[q] # "Mapped"
      BY <2>2, <3>1 DEF Surf!Objects
    <3>3. n.win[m + 1] = "Init" BY <1>o, <2>2
    <3>4. n.focus \in Surf!Objects => n.win[n.focus] # "none" BY <1>0, <2>1, <2>2 DEF WindowsFit
    <3> QED BY <1>1, <3>2, <3>3, <3>4 DEF WindowsFit
  <2>4. Names(n, m + 1, window, FALSE, FALSE) BY <1>0, <1>1, <2>1 DEF Names
  <2>5. Fits(n, m + 1, window, FALSE, FALSE, m + 1) BY <2>1, <2>3, <2>4 DEF Fits
  <2> QED BY <1>1, <2>5 DEF n
<1>2. CASE ~window
  <2> DEFINE n == Surf!Register(h, m + 1)
  <2>1. /\ n.data = h.data /\ n.tree = h.tree /\ n.shownHeard = h.shownHeard /\ n.win = h.win
        /\ n.linked = h.linked /\ n.mapHeard = h.mapHeard /\ n.registered = h.registered \cup {m + 1}
        /\ n.focus = h.focus /\ n \in Hooks
    BY <1>0, <1>o DEF Surf!Register, Hooks
  <2> HIDE DEF n
  <2>2. WindowsFit(n, m + 1, window, FALSE, m + 1)
    <3>1. \A q \in Surf!Objects : (q > m => h.win[q] = "none") /\ h.win[q] # "Mapped"
      BY <1>0, SurfaceAssumption DEF WindowsFit, Surf!Objects
    <3>2. \A q \in Surf!Objects : (q > m + 1 => n.win[q] = "none") /\ n.win[q] # "Mapped"
      BY <2>1, <3>1 DEF Surf!Objects
    <3>3. n.win[m + 1] = "none" BY <1>o, <2>1, <3>1
    <3>4. n.focus \in Surf!Objects => n.win[n.focus] # "none" BY <1>0, <2>1 DEF WindowsFit
    <3> QED BY <1>2, <3>2, <3>3, <3>4 DEF WindowsFit
  <2>3. Names(n, m + 1, window, FALSE, FALSE) BY <1>0, <1>2, <1>o, <2>1 DEF Names
  <2>4. Fits(n, m + 1, window, FALSE, FALSE, m + 1) BY <2>1, <2>2, <2>3 DEF Fits
  <2> QED BY <1>2, <2>4 DEF n
<1> QED BY <1>1, <1>2

\* An object hears of the pairing.
LEMMA AssociatesFit ==
    ASSUME NEW h, NEW o \in Surf!Objects, NEW window \in BOOLEAN, NEW m \in Nat,
           Fits(h, o, window, FALSE, FALSE, m)
    PROVE  Fits(Surf!Associate(h, o), o, window, TRUE, FALSE, m)
<1>0. h \in Hooks /\ Names(h, o, window, FALSE, FALSE) /\ WindowsFit(h, o, window, FALSE, m) BY DEF Fits
<1> DEFINE n == Surf!Associate(h, o)
<1>1. /\ n.data = h.data /\ n.tree = h.tree /\ n.shownHeard = h.shownHeard /\ n.win = h.win /\ n.linked = h.linked
      /\ n.mapHeard = o /\ n.registered = h.registered /\ n.focus = h.focus /\ n \in Hooks
  BY <1>0 DEF Surf!Associate, Hooks
<1> HIDE DEF n
<1>2. WindowsFit(n, o, window, FALSE, m) BY <1>0, <1>1 DEF WindowsFit
<1>3. Names(n, o, window, TRUE, FALSE) BY <1>0, <1>1 DEF Names
<1>4. Fits(n, o, window, TRUE, FALSE, m) BY <1>1, <1>2, <1>3 DEF Fits
<1> QED BY <1>4 DEF n

\* A menu that is torn down as it stands is named no more.
LEMMA TornDownFits ==
    ASSUME NEW h, NEW other \in BOOLEAN, NEW m \in Nat, owner \in Surf!Objects, managed \in BOOLEAN, paired \in BOOLEAN,
           sMapped \in BOOLEAN, Fits(h, owner, managed, paired, sMapped, m)
    PROVE  /\ managed => Fits(Surf!TornDown(h), None, other, FALSE, FALSE, m)
           /\ ~managed => Fits(Surf!MenuTornDown(h), None, other, FALSE, FALSE, m)
<1>0. /\ h \in Hooks /\ Names(h, owner, managed, paired, sMapped) /\ WindowsFit(h, owner, managed, sMapped, m)
  BY DEF Fits
<1>1. ASSUME managed PROVE Fits(Surf!TornDown(h), None, other, FALSE, FALSE, m)
  <2> DEFINE g == IF sMapped THEN Surf!WindowUnmaps(h, owner) ELSE h
  <2>1. Fits(g, owner, managed, paired, FALSE, m)
    <3>1. CASE sMapped
      <4>1. Fits(h, owner, managed, paired, TRUE, m) BY <3>1
      <4>2. Fits(IF managed THEN Surf!WindowUnmaps(h, owner) ELSE Surf!MenuUnmaps(h, owner), owner, managed, paired, FALSE, m)
        BY <4>1, UnmapsFit
      <4> QED BY <1>1, <3>1, <4>2
    <3>2. CASE ~sMapped
      <4>1. sMapped = FALSE BY <3>2
      <4> QED BY <4>1
    <3> QED BY <3>1, <3>2
  <2> HIDE DEF g
  <2>2. Fits(Surf!Dissociate(g), owner, managed, FALSE, FALSE, m) BY <2>1, DissociatesFit
  <2>3. Fits(Surf!Dissociate(g), None, other, FALSE, FALSE, m) BY <1>1, <2>2, GoneFits
  <2> QED BY <2>3 DEF g, Surf!TornDown
<1>2. ASSUME ~managed PROVE Fits(Surf!MenuTornDown(h), None, other, FALSE, FALSE, m)
  <2> DEFINE g == IF sMapped THEN [h EXCEPT !.shownHeard = None, !.data = None, !.tree = None] ELSE h
             n == Surf!DropSeatFocus(Surf!Unregister(Surf!Dissociate(g), owner), owner)
  <2>t. sMapped \/ (h.data = None /\ h.tree = None /\ h.shownHeard = None) BY <1>0 DEF Names
  <2>0. /\ g.data = None /\ g.tree = None /\ g.shownHeard = None /\ g \in Hooks /\ g.win = h.win
        /\ g.linked = h.linked /\ g.registered = h.registered /\ g.focus = h.focus
    BY <1>0, <2>t DEF Hooks
  <2> HIDE DEF g
  <2>1. /\ n.data = None /\ n.tree = None /\ n.shownHeard = None /\ n.win = h.win
        /\ n.linked = h.linked /\ n.mapHeard = None /\ n.registered = h.registered \ {owner}
        /\ n.focus = (IF h.focus = owner THEN Nobody ELSE h.focus) /\ n \in Hooks
    BY <2>0 DEF Surf!Dissociate, Surf!Unregister, Surf!DropSeatFocus, Hooks
  <2> HIDE DEF n
  <2>2. WindowsFit(n, None, other, FALSE, m)
    BY <1>0, <1>2, <2>1, SurfaceAssumption DEF WindowsFit, Surf!Objects
  <2>3. Names(n, None, other, FALSE, FALSE) BY <1>0, <1>2, <2>1 DEF Names
  <2>4. Fits(n, None, other, FALSE, FALSE, m) BY <2>1, <2>2, <2>3 DEF Fits
  <2> QED BY <2>4 DEF n, g, Surf!MenuTornDown
<1> QED BY <1>1, <1>2

\* An object that shows its surface is what the surface names; a menu leaves the windows alone.
LEMMA MapsFit ==
    ASSUME NEW h, NEW o \in Surf!Objects, NEW window \in BOOLEAN, NEW m \in Nat,
           Fits(h, o, window, TRUE, FALSE, m), NEW n \in Surf!Maps(h, o, window)
    PROVE  /\ Fits(n, o, window, TRUE, TRUE, m)
           /\ ~window => n.win = h.win /\ n.linked = h.linked /\ n.focus \in {h.focus, o}
<1>0. h \in Hooks /\ Names(h, o, window, TRUE, FALSE) /\ WindowsFit(h, o, window, FALSE, m) BY DEF Fits
<1>1. CASE window
  <2>1. PICK takes \in BOOLEAN : n = Surf!Mapped(o, h, takes) BY <1>1 DEF Surf!Maps, Surf!WindowMaps
  <2>2. /\ n.data = o /\ n.tree = o /\ n.shownHeard = o /\ n.win = [h.win EXCEPT ![o] = "Mapped"]
        /\ n.linked = h.linked /\ n.mapHeard = h.mapHeard /\ n.registered = h.registered
        /\ n.focus = (IF takes THEN o ELSE h.focus) /\ n \in Hooks
    BY <1>0, <2>1 DEF Surf!Mapped, Hooks
  <2>3. \A q \in Surf!Objects : n.win[q] = IF q = o THEN "Mapped" ELSE h.win[q] BY <1>0, <2>2 DEF Hooks
  <2>4. WindowsFit(n, o, window, TRUE, m)
    <3>1. ASSUME NEW q \in Surf!Objects PROVE (q > m => n.win[q] = "none") /\ (q # o => n.win[q] # "Mapped")
      <4>1. ~(o > m) BY <1>0, <1>1, SurfaceAssumption DEF WindowsFit, Surf!Objects
      <4> QED BY <1>0, <2>3, <4>1 DEF WindowsFit
    <3>2. n.focus \in Surf!Objects => n.win[n.focus] # "none" BY <1>0, <2>2, <2>3 DEF WindowsFit
    <3> QED BY <1>1, <2>3, <3>1, <3>2 DEF WindowsFit
  <2>5. Names(n, o, window, TRUE, TRUE) BY <1>0, <1>1, <2>2 DEF Names
  <2>6. Fits(n, o, window, TRUE, TRUE, m) BY <2>2, <2>4, <2>5 DEF Fits
  <2> QED BY <1>1, <2>6
<1>2. CASE ~window
  <2>1. n = Surf!MenuMaps(h, o) BY <1>2 DEF Surf!Maps
  <2>2. /\ IF sKind = "tray" THEN n.data = h.data /\ n.tree = h.tree /\ n.shownHeard = h.shownHeard
           ELSE n.data = o /\ n.tree = o /\ n.shownHeard = o
        /\ n.win = h.win /\ n.linked = h.linked /\ n.mapHeard = h.mapHeard /\ n.registered = h.registered
        /\ n.focus \in {h.focus, o} /\ n \in Hooks
    BY <1>0, <2>1, SurfaceAssumption DEF Surf!MenuMaps, Surf!Desires, Hooks
  <2>3. WindowsFit(n, o, window, TRUE, m) BY <1>0, <1>2, <2>2 DEF WindowsFit
  <2>4. Names(n, o, window, TRUE, TRUE) BY <1>0, <1>2, <2>2 DEF Names
  <2> QED BY <2>2, <2>3, <2>4 DEF Fits
<1> QED BY <1>1, <1>2

\* What the surface begins with.
LEMMA SurfInit == Surf!Init => SurfInv
<1> HAVE Surf!Init
<1>1. /\ sKind \in SurfKinds /\ alive = FALSE /\ override = FALSE /\ paired = FALSE /\ sBuffer = FALSE /\ sMapped = FALSE
      /\ owner = None /\ managed = FALSE /\ made = 0 /\ listens = None
      /\ mapHeard = None /\ shownHeard = None /\ data = None /\ tree = None
      /\ registered = {} /\ sWin = [o \in Surf!Objects |-> "none"] /\ linked = {} /\ sDirty = FALSE
      /\ focus \in {Nobody, Parent, Other} /\ keyboard = focus /\ sEvents = 0
  BY DEF Surf!Init
<1>2. Surf!Now \in Hooks BY <1>1 DEF Surf!Now, Hooks
<1>3. focus \notin Surf!Objects BY <1>1, SurfaceAssumption DEF Surf!Objects
<1>4. Names(Surf!Now, owner, managed, paired, sMapped) BY <1>1 DEF Names, Surf!Now
<1>5. WindowsFit(Surf!Now, owner, managed, sMapped, made) BY <1>1, <1>3 DEF WindowsFit, Surf!Now
<1>6. Fits(Surf!Now, owner, managed, paired, sMapped, made) BY <1>2, <1>4, <1>5 DEF Fits
<1>7. SeatSettled BY <1>1, <1>3 DEF SeatSettled
<1>8. sEvents \in 0..SurfEvents /\ made \in 0..MaxObjects BY <1>1, SurfaceAssumption
<1> QED BY <1>1, <1>6, <1>7, <1>8 DEF SurfInv

\* A handler that leaves the record n keeps all of it if n fits its surface.
LEMMA SurfKeeps ==
    ASSUME SurfInv, UNCHANGED sKind, {alive', override', paired', sBuffer', sMapped', managed', sDirty'} \subseteq BOOLEAN,
           Surf!Happens, made' \in 0..MaxObjects,
           owner' \in Surf!Objects \cup {None}, owner' # None => owner' <= made',
           alive' <=> owner' # None, ~alive' => ~paired' /\ ~sBuffer',
           sMapped' = (paired' /\ sBuffer'), listens' = owner',
           NEW n, Surf!Becomes(n), Fits(n, owner', managed', paired', sMapped', made'),
           ~sDirty' => /\ ~sDirty /\ n.linked = linked /\ n.win = sWin
                       /\ n.focus \in Surf!Objects => n.focus = owner' /\ sMapped'
    PROVE  SurfInv'
<1>1. n \in Hooks BY DEF Fits
<1>2. Surf!Now' = n
  <2>1. n = [mapHeard |-> n.mapHeard, shownHeard |-> n.shownHeard, data |-> n.data, tree |-> n.tree,
             registered |-> n.registered, win |-> n.win, linked |-> n.linked, focus |-> n.focus, keyboard |-> n.keyboard]
    BY <1>1 DEF Hooks
  <2> QED BY <2>1 DEF Surf!Becomes, Surf!Now
<1>3. Fits(Surf!Now, owner, managed, paired, sMapped, made)'
  <2>1. Names(n, owner', managed', paired', sMapped') /\ WindowsFit(n, owner', managed', sMapped', made') BY DEF Fits
  <2>2. Names(Surf!Now, owner, managed, paired, sMapped)' BY <1>2, <2>1 DEF Names
  <2>3. WindowsFit(Surf!Now, owner, managed, sMapped, made)' BY <1>2, <2>1 DEF WindowsFit, Surf!Objects
  <2>4. (Surf!Now \in Hooks)' BY <1>1, <1>2 DEF Hooks, Surf!Objects
  <2> QED BY <2>2, <2>3, <2>4 DEF Fits
<1>4. SeatSettled'
  <2>1. linked' = n.linked /\ sWin' = n.win /\ focus' = n.focus BY DEF Surf!Becomes
  <2> QED BY <2>1 DEF SurfInv, SeatSettled, Surf!Objects
<1>5. sEvents' \in 0..SurfEvents
  <2>1. sEvents \in 0..SurfEvents BY DEF SurfInv
  <2> QED BY <2>1, SurfaceAssumption DEF Surf!Happens
<1>6. sKind' \in SurfKinds BY DEF SurfInv
<1> QED BY <1>3, <1>4, <1>5, <1>6 DEF SurfInv, Surf!Objects

\* The object made for a surface, and paired with it if the surface is.
LEMMA CreateEffect ==
    ASSUME NEW h, NEW window \in BOOLEAN, NEW other \in BOOLEAN, NEW isPaired \in BOOLEAN,
           made \in Nat, made < MaxObjects, sMapped \in BOOLEAN, sBuffer \in BOOLEAN,
           Fits(h, None, other, FALSE, FALSE, made),
           sMapped => isPaired /\ sBuffer,
           Surf!Create(h, window, isPaired)
    PROVE  /\ owner' = made + 1 /\ managed' = window /\ made' = made + 1 /\ listens' = made + 1
           /\ sMapped' = (isPaired /\ sBuffer) /\ made + 1 \in Surf!Objects
           /\ \E n : /\ Surf!Becomes(n) /\ Fits(n, made + 1, window, isPaired, sMapped', made + 1)
                     /\ ~window => /\ n.win = h.win /\ n.linked = h.linked
                                   /\ n.focus \in {h.focus} \cup (IF sMapped' THEN {made + 1} ELSE {})
<1> DEFINE o == made + 1
           g == IF window THEN [h EXCEPT !.win[o] = "Init"] ELSE Surf!Register(h, o)
           a == IF isPaired THEN Surf!Associate(g, o) ELSE g
<1>1. /\ owner' = o /\ managed' = window /\ made' = o /\ listens' = o
      /\ sMapped' = (sMapped \/ (isPaired /\ sBuffer))
      /\ \E n \in IF sMapped' THEN Surf!Maps(a, o, window) ELSE {a} : Surf!Becomes(n)
  BY DEF Surf!Create, Surf!MapNow
<1>2. sMapped' = (isPaired /\ sBuffer) BY <1>1
<1>3. o \in Surf!Objects /\ o \in Nat BY SurfaceAssumption DEF Surf!Objects
<1>4. Fits(g, o, window, FALSE, FALSE, o) BY CreatesFit
<1>5. Fits(a, o, window, isPaired, FALSE, o)
  <2> HIDE DEF g
  <2>1. CASE isPaired
    <3>1. isPaired = TRUE BY <2>1
    <3> HIDE DEF o
    <3>2. Fits(Surf!Associate(g, o), o, window, TRUE, FALSE, o) BY <1>3, <1>4, AssociatesFit
    <3> QED BY <2>1, <3>1, <3>2
  <2>2. CASE ~isPaired
    <3>1. isPaired = FALSE BY <2>2
    <3> QED BY <1>4, <3>1
  <2> QED BY <2>1, <2>2
<1>6. ~window => a.win = h.win /\ a.linked = h.linked /\ a.focus = h.focus
  <2>1. h \in Hooks BY DEF Fits
  <2> QED BY <2>1 DEF Hooks, Surf!Register, Surf!Associate
<1> HIDE DEF o, a
<1>7. PICK n \in IF sMapped' THEN Surf!Maps(a, o, window) ELSE {a} : Surf!Becomes(n) BY <1>1
<1>8. /\ Fits(n, o, window, isPaired, sMapped', o)
      /\ ~window => n.win = h.win /\ n.linked = h.linked /\ n.focus \in {h.focus} \cup (IF sMapped' THEN {o} ELSE {})
  <2>1. CASE sMapped'
    <3>1. isPaired = TRUE /\ sMapped' = TRUE /\ n \in Surf!Maps(a, o, window) BY <1>2, <1>7, <2>1
    <3>2. Fits(a, o, window, TRUE, FALSE, o) BY <1>5, <3>1
    <3>3. /\ Fits(n, o, window, TRUE, TRUE, o)
          /\ ~window => n.win = a.win /\ n.linked = a.linked /\ n.focus \in {a.focus, o}
      BY <1>3, <3>1, <3>2, MapsFit
    <3> QED BY <1>6, <3>1, <3>3
  <2>2. CASE ~sMapped'
    <3>1. sMapped' = FALSE /\ n = a BY <1>2, <1>7, <2>2
    <3> QED BY <1>5, <1>6, <3>1
  <2> QED BY <2>1, <2>2
<1> QED BY <1>1, <1>2, <1>3, <1>7, <1>8 DEF o

\* What a surface's parting leaves.
LEMMA PartedFits ==
    ASSUME SurfInv, owner # None
    PROVE  Fits(Surf!Parted, owner, managed, FALSE, FALSE, made)
<1>0. /\ owner \in Surf!Objects /\ {paired, sMapped, managed} \subseteq BOOLEAN /\ made \in Nat
      /\ Fits(Surf!Now, owner, managed, paired, sMapped, made) /\ (sMapped => paired) /\ owner # None
  BY DEF SurfInv
<1>1. Surf!Now.mapHeard = IF paired THEN owner ELSE None BY <1>0 DEF Fits, Names
<1> DEFINE h == Surf!Unmapped(Surf!Now)
<1>2. Fits(h, owner, managed, paired, FALSE, made)
  <2>1. CASE sMapped
    <3>1. Surf!Now.mapHeard = owner /\ sMapped = TRUE BY <1>0, <1>1, <2>1
    <3>2. Fits(IF managed THEN Surf!WindowUnmaps(Surf!Now, owner) ELSE Surf!MenuUnmaps(Surf!Now, owner),
               owner, managed, paired, FALSE, made)
      BY <1>0, <3>1, UnmapsFit
    <3> QED BY <1>0, <2>1, <3>1, <3>2 DEF Surf!Unmapped
  <2>2. CASE ~sMapped
    <3>1. sMapped = FALSE /\ h = Surf!Now BY <1>0, <2>2 DEF Surf!Unmapped
    <3> QED BY <1>0, <3>1
  <2> QED BY <2>1, <2>2
<1> HIDE DEF h
<1>3. Fits(Surf!Dissociate(h), owner, managed, FALSE, FALSE, made) BY <1>0, <1>2, DissociatesFit
<1> QED BY <1>3 DEF h, Surf!Parted

\* What is known of a surface, whatever its listeners are.
LEMMA SurfFacts ==
    ASSUME SurfInv
    PROVE  /\ {alive, override, paired, sBuffer, sMapped, managed, sDirty} \subseteq BOOLEAN /\ made \in 0..MaxObjects
           /\ owner \in Surf!Objects \cup {None} /\ (alive <=> owner # None) /\ (owner # None => owner <= made)
           /\ (~alive => ~paired /\ ~sBuffer) /\ sKind \in SurfKinds /\ sEvents \in 0..SurfEvents
           /\ sMapped = (paired /\ sBuffer) /\ listens = owner
           /\ Fits(Surf!Now, owner, managed, paired, sMapped, made) /\ SeatSettled
           /\ Surf!Now \in Hooks /\ Names(Surf!Now, owner, managed, paired, sMapped)
           /\ WindowsFit(Surf!Now, owner, managed, sMapped, made)
BY DEF SurfInv, Fits

\* A surface that comes, and one that changes its flag.
LEMMA SurfMakes == ASSUME SurfInv, Surf!NewSurface \/ Surf!Flip PROVE SurfInv'
<1>m. made \in Nat /\ (made < MaxObjects => made + 1 \in 0..MaxObjects) BY SurfFacts, SurfaceAssumption
<1>n. None \notin Surf!Objects BY SurfaceAssumption DEF Surf!Objects
<1>1. CASE Surf!NewSurface
  <2>1. /\ Surf!Happens /\ ~alive /\ made < MaxObjects /\ alive' = TRUE /\ override' \in BOOLEAN
        /\ Surf!Create(Surf!Now, ~override', FALSE) /\ sDirty' = (sDirty \/ ~override')
        /\ UNCHANGED <<sKind, paired, sBuffer>>
    BY <1>1 DEF Surf!NewSurface
  <2>2. owner = None /\ paired = FALSE /\ sBuffer = FALSE /\ sMapped = FALSE BY SurfFacts, <2>1
  <2> DEFINE w == ~override'
  <2>3. w \in BOOLEAN BY <2>1
  <2>4. Fits(Surf!Now, None, managed, FALSE, FALSE, made) BY SurfFacts, <2>2
  <2> HIDE DEF w
  <2>5. Surf!Create(Surf!Now, w, FALSE) BY <2>1 DEF w
  <2>6. /\ owner' = made + 1 /\ managed' = w /\ made' = made + 1 /\ listens' = made + 1
        /\ sMapped' = (FALSE /\ sBuffer) /\ made + 1 \in Surf!Objects
        /\ \E n : /\ Surf!Becomes(n) /\ Fits(n, made + 1, w, FALSE, sMapped', made + 1)
                  /\ ~w => /\ n.win = Surf!Now.win /\ n.linked = Surf!Now.linked
                           /\ n.focus \in {Surf!Now.focus} \cup (IF sMapped' THEN {made + 1} ELSE {})
    <3>1. /\ FALSE \in BOOLEAN /\ managed \in BOOLEAN /\ sMapped \in BOOLEAN /\ sBuffer \in BOOLEAN
          /\ sMapped => FALSE /\ sBuffer
      BY SurfFacts, <2>2
    <3>2. made \in Nat /\ made < MaxObjects BY <1>m, <2>1
    <3> QED BY <2>3, <2>4, <2>5, <3>1, <3>2, CreateEffect, ZenonT(40)
  <2>7. PICK n : /\ Surf!Becomes(n) /\ Fits(n, made + 1, w, FALSE, sMapped', made + 1)
                 /\ ~w => /\ n.win = Surf!Now.win /\ n.linked = Surf!Now.linked
                          /\ n.focus \in {Surf!Now.focus} \cup (IF sMapped' THEN {made + 1} ELSE {})
    BY <2>6
  <2>8. sMapped' = FALSE /\ paired' = FALSE /\ sBuffer' = FALSE BY <2>1, <2>2, <2>6
  <2>9. sDirty' = (sDirty \/ w) BY <2>1 DEF w
  <2>10. ~sDirty' => /\ ~sDirty /\ n.linked = linked /\ n.win = sWin
                     /\ n.focus \in Surf!Objects => n.focus = owner' /\ sMapped'
    BY SurfFacts, <1>n, <2>2, <2>7, <2>8, <2>9 DEF Surf!Now, SeatSettled
  <2>11. Fits(n, owner', managed', paired', sMapped', made') BY <2>6, <2>7, <2>8
  <2>12. {alive', override', paired', sBuffer', sMapped', managed', sDirty'} \subseteq BOOLEAN
    BY SurfFacts, <2>1, <2>3, <2>6, <2>8
  <2>13. owner' # None BY <1>n, <2>6
  <2>14. owner' <= made' /\ made' \in 0..MaxObjects BY <1>m, <2>1, <2>6
  <2> QED BY <2>1, <2>6, <2>7, <2>8, <2>10, <2>11, <2>12, <2>13, <2>14, SurfKeeps
<1>2. CASE Surf!Flip
  <2> DEFINE h == IF managed THEN Surf!TornDown(Surf!Now) ELSE Surf!MenuTornDown(Surf!Now)
             w == ~managed
  <2>1. /\ Surf!Happens /\ alive /\ made < MaxObjects /\ override' = ~override
        /\ Surf!Create(h, w, paired) /\ sDirty' = TRUE
        /\ UNCHANGED <<sKind, alive, paired, sBuffer>>
    BY <1>2 DEF Surf!Flip
  <2>2. owner \in Surf!Objects BY SurfFacts, <2>1
  <2>3. w \in BOOLEAN OBVIOUS
  <2>4. Fits(h, None, FALSE, FALSE, FALSE, made) BY SurfFacts, <1>m, <2>2, TornDownFits
  <2> HIDE DEF w, h
  <2>5. /\ {FALSE, paired, sMapped, sBuffer} \subseteq BOOLEAN /\ (sMapped => paired /\ sBuffer)
        /\ made \in Nat /\ made < MaxObjects
    BY SurfFacts, <1>m, <2>1
  <2>6. /\ owner' = made + 1 /\ managed' = w /\ made' = made + 1 /\ listens' = made + 1
        /\ sMapped' = (paired /\ sBuffer) /\ made + 1 \in Surf!Objects
        /\ \E n : Surf!Becomes(n) /\ Fits(n, made + 1, w, paired, sMapped', made + 1)
    BY <2>1, <2>3, <2>4, <2>5, CreateEffect
  <2>7. PICK n : Surf!Becomes(n) /\ Fits(n, made + 1, w, paired, sMapped', made + 1) BY <2>6
  <2>8. Fits(n, owner', managed', paired', sMapped', made') BY <2>1, <2>6, <2>7
  <2>9. {alive', override', paired', sBuffer', sMapped', managed', sDirty'} \subseteq BOOLEAN
    BY SurfFacts, <2>1, <2>3, <2>6
  <2>10. owner' # None BY <1>n, <2>6
  <2>11. owner' <= made' /\ made' \in 0..MaxObjects BY <1>m, <2>1, <2>6
  <2> QED BY <2>1, <2>6, <2>7, <2>8, <2>9, <2>10, <2>11, SurfKeeps
<1> QED BY <1>1, <1>2

\* A surface that is paired, and one that commits its buffer.
LEMMA SurfShows == ASSUME SurfInv, Surf!CommitBuffer \/ Surf!Pair PROVE SurfInv'
<1>m. made \in Nat BY SurfFacts
<1>n. None \notin Surf!Objects BY SurfaceAssumption DEF Surf!Objects
<1>1. alive /\ owner \in Surf!Objects /\ owner # None /\ Surf!Happens /\ UNCHANGED <<sKind, alive, override, owner, managed, made, listens>>
  BY SurfFacts DEF Surf!CommitBuffer, Surf!Pair, Surf!obj
<1>2. sMapped = FALSE BY SurfFacts DEF Surf!CommitBuffer, Surf!Pair
<1>3. /\ Surf!Now.win = sWin /\ Surf!Now.linked = linked /\ Surf!Now.focus = focus /\ Surf!Now.mapHeard = mapHeard
      /\ mapHeard = IF paired THEN owner ELSE None
  BY SurfFacts DEF Surf!Now, Fits, Names
<1>4. ASSUME NEW a, Fits(a, owner, managed, paired', FALSE, made), sMapped' = (paired' /\ sBuffer'), sMapped' => paired',
             NEW n \in IF sMapped' THEN Surf!Maps(a, owner, managed) ELSE {a}, Surf!Becomes(n),
             a.win = sWin, a.linked = linked, a.focus = focus,
             {paired', sBuffer'} \subseteq BOOLEAN, sDirty' = (sDirty \/ (sMapped' /\ managed))
      PROVE  SurfInv'
  <2>1. /\ Fits(n, owner, managed, paired', sMapped', made)
        /\ ~(sMapped' /\ managed) => n.win = sWin /\ n.linked = linked
                                     /\ n.focus \in {focus} \cup (IF sMapped' THEN {owner} ELSE {})
    <3>1. CASE sMapped'
      <4>1. paired' = TRUE /\ sMapped' = TRUE /\ n \in Surf!Maps(a, owner, managed) BY <1>4, <3>1
      <4>2. Fits(a, owner, managed, TRUE, FALSE, made) BY <1>4, <4>1
      <4>3. managed \in BOOLEAN BY SurfFacts
      <4>4. /\ Fits(n, owner, managed, TRUE, TRUE, made)
            /\ ~managed => n.win = a.win /\ n.linked = a.linked /\ n.focus \in {a.focus, owner}
        BY <1>1, <1>m, <4>1, <4>2, <4>3, MapsFit
      <4> QED BY <1>4, <4>1, <4>4
    <3>2. CASE ~sMapped'
      <4>1. sMapped' = FALSE /\ n = a BY <1>4, <3>2
      <4> QED BY <1>4, <4>1
    <3> QED BY <3>1, <3>2
  <2>2. ~sDirty' => /\ ~sDirty /\ n.linked = linked /\ n.win = sWin
                    /\ n.focus \in Surf!Objects => n.focus = owner' /\ sMapped'
    BY SurfFacts, <1>1, <1>2, <1>4, <2>1 DEF SeatSettled
  <2>3. Fits(n, owner', managed', paired', sMapped', made') BY <1>1, <2>1
  <2>4. {alive', override', paired', sBuffer', sMapped', managed', sDirty'} \subseteq BOOLEAN BY SurfFacts, <1>1, <1>4
  <2>5. /\ UNCHANGED sKind /\ made' \in 0..MaxObjects /\ owner' \in Surf!Objects \cup {None}
        /\ (owner' # None => owner' <= made') /\ (alive' <=> owner' # None) /\ (~alive' => ~paired' /\ ~sBuffer')
        /\ listens' = owner'
    BY SurfFacts, <1>1
  <2> QED BY <1>1, <1>4, <2>2, <2>3, <2>4, <2>5, SurfKeeps
<1>5. CASE Surf!CommitBuffer
  <2>1. /\ sBuffer' = TRUE /\ sMapped' = paired /\ sDirty' = (sDirty \/ (sMapped' /\ managed)) /\ paired' = paired
        /\ IF paired /\ mapHeard # None THEN \E n \in Surf!Maps(Surf!Now, owner, managed) : Surf!Becomes(n)
           ELSE Surf!Becomes(Surf!Now)
    BY <1>5 DEF Surf!CommitBuffer
  <2>2. \E n \in IF sMapped' THEN Surf!Maps(Surf!Now, owner, managed) ELSE {Surf!Now} : Surf!Becomes(n)
    BY <1>1, <1>3, <2>1
  <2>3. Fits(Surf!Now, owner, managed, paired', FALSE, made) BY SurfFacts, <1>2, <2>1
  <2>4. sMapped' = (paired' /\ sBuffer') /\ {paired', sBuffer'} \subseteq BOOLEAN BY SurfFacts, <2>1
  <2> QED BY <1>3, <1>4, <2>1, <2>2, <2>3, <2>4
<1>6. CASE Surf!Pair
  <2> DEFINE a == Surf!Associate(Surf!Now, owner)
  <2>1. /\ ~paired /\ paired' = TRUE /\ sMapped' = sBuffer /\ sBuffer' = sBuffer /\ sDirty' = (sDirty \/ (sMapped' /\ managed))
        /\ \E n \in IF sMapped' THEN Surf!Maps(a, owner, managed) ELSE {a} : Surf!Becomes(n)
    BY <1>6 DEF Surf!Pair, Surf!MapNow
  <2>2. paired = FALSE /\ managed \in BOOLEAN BY SurfFacts, <2>1
  <2>3. Fits(a, owner, managed, TRUE, FALSE, made) BY SurfFacts, <1>1, <1>2, <1>m, <2>2, AssociatesFit
  <2>4. a.win = sWin /\ a.linked = linked /\ a.focus = focus BY DEF Surf!Associate, Surf!Now
  <2> HIDE DEF a
  <2>5. sMapped' = (paired' /\ sBuffer') /\ {paired', sBuffer'} \subseteq BOOLEAN BY SurfFacts, <2>1
  <2>6. Fits(a, owner, managed, paired', FALSE, made) BY <2>1, <2>3
  <2> QED BY <1>4, <2>1, <2>4, <2>5, <2>6
<1> QED BY <1>5, <1>6

\* A surface that is unpaired, and one that is destroyed.
LEMMA SurfParts == ASSUME SurfInv, Surf!Unpair \/ Surf!DestroySurface PROVE SurfInv'
<1>m. made \in Nat BY SurfFacts
<1>1. alive /\ owner \in Surf!Objects /\ owner # None /\ Surf!Happens BY SurfFacts DEF Surf!Unpair, Surf!DestroySurface
<1>2. Fits(Surf!Parted, owner, managed, FALSE, FALSE, made) BY <1>1, PartedFits
<1>3. CASE Surf!Unpair
  <2>1. /\ Surf!Becomes(Surf!Parted) /\ paired' = FALSE /\ sBuffer' = FALSE /\ sMapped' = FALSE /\ sDirty' = (sDirty \/ sMapped)
        /\ UNCHANGED <<sKind, alive, override, owner, managed, made, listens>>
    BY <1>3 DEF Surf!Unpair, Surf!obj
  <2>2. ~sDirty' => /\ ~sDirty /\ Surf!Parted.linked = linked /\ Surf!Parted.win = sWin
                    /\ Surf!Parted.focus \in Surf!Objects => Surf!Parted.focus = owner' /\ sMapped'
    <3> HAVE ~sDirty'
    <3>1. ~sDirty /\ ~sMapped BY <2>1
    <3>2. Surf!Parted.linked = linked /\ Surf!Parted.win = sWin /\ Surf!Parted.focus = focus
      BY <3>1 DEF Surf!Parted, Surf!Unmapped, Surf!Dissociate, Surf!Now
    <3> QED BY SurfFacts, <3>1, <3>2 DEF SeatSettled
  <2>3. Fits(Surf!Parted, owner', managed', paired', sMapped', made') BY <1>2, <2>1
  <2>4. {alive', override', paired', sBuffer', sMapped', managed', sDirty'} \subseteq BOOLEAN BY SurfFacts, <2>1
  <2>5. /\ UNCHANGED sKind /\ made' \in 0..MaxObjects /\ owner' \in Surf!Objects \cup {None}
        /\ (owner' # None => owner' <= made') /\ (alive' <=> owner' # None) /\ (~alive' => ~paired' /\ ~sBuffer')
        /\ listens' = owner' /\ sMapped' = (paired' /\ sBuffer')
    BY SurfFacts, <2>1
  <2> QED BY <1>1, <2>1, <2>2, <2>3, <2>4, <2>5, SurfKeeps
<1>4. CASE Surf!DestroySurface
  <2> DEFINE n == IF managed THEN Surf!Parted ELSE Surf!DropSeatFocus(Surf!Unregister(Surf!Parted, owner), owner)
  <2>1. /\ Surf!Becomes(n) /\ alive' = FALSE /\ paired' = FALSE /\ sBuffer' = FALSE /\ sMapped' = FALSE
        /\ owner' = None /\ listens' = None /\ sDirty' = TRUE
        /\ UNCHANGED <<sKind, override, managed, made>>
    BY <1>4 DEF Surf!DestroySurface, Surf!Destroyed
  <2>2. Fits(n, None, managed, FALSE, FALSE, made)
    <3>1. managed \in BOOLEAN BY SurfFacts
    <3> QED BY <1>1, <1>2, <1>m, <3>1, GoneFits
  <2> HIDE DEF n
  <2>3. Fits(n, owner', managed', paired', sMapped', made') BY <2>1, <2>2
  <2>4. {alive', override', paired', sBuffer', sMapped', managed', sDirty'} \subseteq BOOLEAN BY SurfFacts, <2>1
  <2>5. /\ UNCHANGED sKind /\ made' \in 0..MaxObjects /\ owner' \in Surf!Objects \cup {None}
        /\ (owner' # None => owner' <= made') /\ (alive' <=> owner' # None) /\ (~alive' => ~paired' /\ ~sBuffer')
        /\ listens' = owner' /\ sMapped' = (paired' /\ sBuffer')
    BY SurfFacts, <2>1
  <2> QED BY <1>1, <2>1, <2>3, <2>4, <2>5, SurfKeeps
<1> QED BY <1>3, <1>4

\* Every step of a surface keeps all of it.
LEMMA SurfNext == ASSUME SurfInv, [Surf!Next]_(Surf!vars) PROVE SurfInv'
<1>h. /\ sWin \in [Surf!Objects -> {"none", "Init", "Mapped", "Closing"}] /\ linked \subseteq Surf!Objects
      /\ focus \in {Nobody, Parent, Other} \cup Surf!Objects /\ keyboard \in {Nobody, Parent, Other, This}
      /\ {mapHeard, shownHeard, data, tree} \subseteq Surf!Objects \cup {None} /\ registered \subseteq Surf!Objects
  BY SurfFacts DEF Surf!Now, Hooks
<1>w. /\ \A q \in Surf!Objects : (q > made => sWin[q] = "none") /\ (q # owner => sWin[q] # "Mapped")
      /\ owner # None => IF managed THEN sWin[owner] # "none" /\ (sMapped <=> sWin[owner] = "Mapped") ELSE sWin[owner] = "none"
      /\ focus \in Surf!Objects => sWin[focus] # "none" \/ (focus = owner /\ sMapped)
  BY SurfFacts DEF WindowsFit, Surf!Now
<1>1. CASE UNCHANGED Surf!vars
  <2>1. /\ UNCHANGED <<sKind, alive, override, paired, sBuffer, sMapped, owner, managed, made, listens, sWin, linked, sDirty, sEvents>>
        /\ Surf!Now' = Surf!Now /\ UNCHANGED focus
    BY <1>1 DEF Surf!vars, Surf!xvars, Surf!obj, Surf!hooks, Surf!wm, Surf!seat, Surf!Now
  <2> QED BY SurfFacts, <2>1 DEF SurfInv, Fits, Names, WindowsFit, SeatSettled, Surf!Objects, Hooks
<1>2. CASE Surf!Pass
  <2>1. /\ sDirty /\ sDirty' = FALSE
        /\ sWin' = [o \in Surf!Objects |-> IF o \in Surf!Ended THEN "none" ELSE IF sWin[o] = "Closing" THEN "Init" ELSE sWin[o]]
        /\ linked' = {o \in Surf!Objects : sWin'[o] = "Mapped"}
        /\ IF Surf!FocusGone THEN \E f \in {Nobody, Parent, Other} : focus' = f /\ keyboard' = f ELSE UNCHANGED <<focus, keyboard>>
        /\ UNCHANGED <<sKind, alive, override, paired, sBuffer, sMapped, owner, managed, made, listens, mapHeard, shownHeard,
                       data, tree, registered, sEvents>>
    BY <1>2 DEF Surf!Pass, Surf!xvars, Surf!obj, Surf!hooks, Surf!seat
  <2>2. \A q \in Surf!Objects :
          /\ sWin'[q] = IF sWin[q] \in {"Init", "Closing"} /\ q # owner THEN "none"
                        ELSE IF sWin[q] = "Closing" THEN "Init" ELSE sWin[q]
          /\ sWin'[q] \in {"none", "Init", "Mapped", "Closing"}
    BY <1>h, <2>1 DEF Surf!Ended
  <2>3. focus' \in Surf!Objects => focus' = owner /\ sMapped
    <3> HAVE focus' \in Surf!Objects
    <3>1. ~Surf!FocusGone /\ focus' = focus BY <2>1, SurfaceAssumption DEF Surf!Objects
    <3>2. sWin[focus] \notin {"Init", "Closing"} BY <3>1 DEF Surf!FocusGone
    <3>3. sWin[focus] \in {"none", "Init", "Mapped", "Closing"} BY <1>h, <3>1
    <3>4. sWin[focus] = "Mapped" => focus = owner BY <1>w, <3>1
    <3>5. focus = owner => owner # None BY <3>1, SurfaceAssumption DEF Surf!Objects
    <3> QED BY <1>w, <3>1, <3>2, <3>3, <3>4, <3>5
  <2>4. focus' \in {Nobody, Parent, Other} \cup Surf!Objects /\ keyboard' \in {Nobody, Parent, Other, This} BY <1>h, <2>1
  <2>5. sWin' \in [Surf!Objects -> {"none", "Init", "Mapped", "Closing"}] BY <2>1, <2>2
  <2>6. (Surf!Now \in Hooks)' BY <1>h, <2>1, <2>4, <2>5 DEF Surf!Now, Hooks, Surf!Objects
  <2>7. Names(Surf!Now, owner, managed, paired, sMapped)' BY SurfFacts, <2>1 DEF Names, Surf!Now
  <2>8. WindowsFit(Surf!Now, owner, managed, sMapped, made)'
    <3>1. \A q \in Surf!Objects : (q > made => sWin'[q] = "none") /\ (q # owner => sWin'[q] # "Mapped")
      BY <1>w, <2>2
    <3>2. owner # None => IF managed THEN sWin'[owner] # "none" /\ (sMapped <=> sWin'[owner] = "Mapped") ELSE sWin'[owner] = "none"
      BY SurfFacts, <1>w, <2>2
    <3> QED BY <2>1, <2>3, <3>1, <3>2 DEF WindowsFit, Surf!Now, Surf!Objects
  <2>9. SeatSettled' BY <2>1, <2>3 DEF SeatSettled, Surf!Objects
  <2> QED BY SurfFacts, <2>1, <2>6, <2>7, <2>8, <2>9 DEF SurfInv, Fits, Surf!Objects
<1>3. CASE Surf!FocusElsewhere
  <2>1. /\ Surf!Happens /\ focus' \in {Nobody, Parent, Other} /\ keyboard' = focus'
        /\ UNCHANGED <<sKind, alive, override, paired, sBuffer, sMapped, owner, managed, made, listens, mapHeard, shownHeard,
                       data, tree, registered, sWin, linked, sDirty>>
    BY <1>3 DEF Surf!FocusElsewhere, Surf!xvars, Surf!obj, Surf!hooks, Surf!wm
  <2>2. focus' \notin Surf!Objects BY <2>1, SurfaceAssumption DEF Surf!Objects
  <2>3. sEvents' \in 0..SurfEvents BY SurfFacts, <2>1, SurfaceAssumption DEF Surf!Happens
  <2>4. (Surf!Now \in Hooks)' BY <1>h, <2>1 DEF Surf!Now, Hooks, Surf!Objects
  <2>5. Names(Surf!Now, owner, managed, paired, sMapped)' BY SurfFacts, <2>1 DEF Names, Surf!Now
  <2>6. WindowsFit(Surf!Now, owner, managed, sMapped, made)' BY <1>w, <2>1, <2>2 DEF WindowsFit, Surf!Now, Surf!Objects
  <2>7. SeatSettled' BY SurfFacts, <2>1, <2>2 DEF SeatSettled, Surf!Objects
  <2> QED BY SurfFacts, <2>1, <2>3, <2>4, <2>5, <2>6, <2>7 DEF SurfInv, Fits, Surf!Objects
<1> QED BY <1>1, <1>2, <1>3, SurfMakes, SurfShows, SurfParts DEF Surf!Next

\* Nothing names an object freed, what is mapped is shown, and a window without its
\* X11 half is closing.
LEMMA SurfSound == SurfInv => Surf!TypeOK /\ Surf!SurfaceIsSound
<1> HAVE SurfInv
<1>1. /\ sWin \in [Surf!Objects -> {"none", "Init", "Mapped", "Closing"}] /\ linked \subseteq Surf!Objects
      /\ {mapHeard, shownHeard, data, tree} \subseteq Surf!Objects \cup {None} /\ registered \subseteq Surf!Objects
  BY SurfFacts DEF Surf!Now, Hooks
<1>2. /\ \A q \in Surf!Objects : q # owner => sWin[q] # "Mapped"
      /\ owner # None => IF managed THEN sWin[owner] # "none" /\ (sMapped <=> sWin[owner] = "Mapped") ELSE sWin[owner] = "none"
      /\ focus \in Surf!Objects => sWin[focus] # "none" \/ (focus = owner /\ sMapped)
  BY SurfFacts DEF WindowsFit, Surf!Now
<1>3. /\ mapHeard = IF paired THEN owner ELSE None
      /\ IF sMapped /\ (managed \/ sKind # "tray") THEN tree = owner /\ data = owner /\ shownHeard = owner
         ELSE tree = None /\ data = None /\ shownHeard = None
      /\ registered = IF managed THEN {} ELSE {owner} \ {None}
  BY SurfFacts DEF Names, Surf!Now
<1>4. Surf!TypeOK BY SurfFacts, <1>1 DEF Surf!TypeOK
<1>5. Surf!NothingFreedIsNamed BY SurfFacts, <1>2, <1>3 DEF Surf!NothingFreedIsNamed
<1>6. Surf!MappedIsShown BY SurfFacts, <1>2, <1>3 DEF Surf!MappedIsShown, SeatSettled
<1>7. Surf!OrphansClose BY <1>2 DEF Surf!OrphansClose
<1> QED BY <1>4, <1>5, <1>6, <1>7 DEF Surf!SurfaceIsSound

--------------------
(* The minimum an X11 program reveals.                                     *)

\* The floor a program has, in logical pixels.
Floor == Mini!FromX11(floor)
MiniTypes ==
    /\ Mini!TypeOK /\ mEvents \in 0..MinEvents
    /\ floor \in Nat /\ floors \subseteq Nat /\ floor \in floors /\ \A f \in floors : f >= floor
    /\ (sent = None \/ sent \in Nat) /\ (resizing => sent \in Nat)
    /\ (refusal = None \/ refusal \in Nat \X Nat)
    /\ (~open => hint = 0 /\ refusal = None /\ asked = <<>> /\ ~resizing)
\* One with a floor asks for floors it has had.
FloorsHold ==
    ~rounds => /\ \A i \in 1..Len(asked) : asked[i] \in floors
               /\ refusal # None => refusal[2] >= Floor
\* Heard in time it asks, in a drag, for the floor it has, refuses twice or is held to it.
Settles ==
    /\ Len(asked) > 0 => asked[Len(asked)] = floor
    /\ resizing => \A i \in 1..Len(asked) : asked[i] = floor
    /\ resizing \/ asked = <<>> => hint = 0 \/ hint = Floor
    /\ resizing /\ hint > 0 => sent >= hint \/ refusal = <<sent, hint>>
    /\ asked = <<>> => hint <= Mini!FromX11(size)
    /\ fights <= 2
    /\ (refusal # None /\ refusal[2] = Floor) <=> fights >= 1
    /\ hint = 0 => fights <= 1
    /\ hint > 0 /\ fights >= 1 => hint = Floor /\ fights = 2
InTimeSettles == Mini!HeardInTime /\ open => Settles
\* A minimum of m device pixels is a floor the program has had.
HadFloor(m) == m # 0 => \E f \in floors \ {0} : Mini!FromX11(f) = Mini!FromX11(m)
MinimaFit == ~rounds => HadFloor(hint * Scale) /\ HadFloor(stored)
MiniInv == MiniTypes /\ FloorsHold /\ InTimeSettles /\ MinimaFit

\* What a division leaves is less than the divisor.
LEMMA Division ==
    ASSUME NEW x \in Nat, NEW d \in Nat \ {0}
    PROVE  x \div d \in Nat /\ d * (x \div d) <= x /\ x < d * (x \div d) + d
OBVIOUS

\* A logical size is itself in device pixels and back; the order of sizes is kept.
LEMMA LogicalSizes ==
    /\ \A v \in Nat : Mini!FromX11(v) \in Nat /\ v * Scale \in Nat /\ Mini!FromX11(v * Scale) = v
    /\ \A a, b \in Nat : a <= b => Mini!FromX11(a) <= Mini!FromX11(b)
<1>s. Scale \in Nat \ {0} /\ 2 * Scale \in Nat \ {0} BY MinimumAssumption
<1>1. ASSUME NEW v \in Nat
      PROVE  /\ Mini!FromX11(v) \in Nat /\ 2 * v + Scale \in Nat
             /\ (2 * Scale) * Mini!FromX11(v) <= 2 * v + Scale /\ 2 * v + Scale < (2 * Scale) * Mini!FromX11(v) + 2 * Scale
  <2>1. 2 * v + Scale \in Nat BY <1>s
  <2> QED BY <1>s, <2>1, Division DEF Mini!FromX11
<1>2. ASSUME NEW v \in Nat PROVE v * Scale \in Nat /\ Mini!FromX11(v * Scale) = v
  <2>1. v * Scale \in Nat BY <1>s
  <2> DEFINE q == Mini!FromX11(v * Scale)
  <2>2. q \in Nat /\ (2 * Scale) * q <= 2 * (v * Scale) + Scale /\ 2 * (v * Scale) + Scale < (2 * Scale) * q + 2 * Scale
    BY <1>1, <2>1
  <2> HIDE DEF q
  <2>3. ASSUME q > v PROVE FALSE
    <3>1. Scale * q >= Scale * (v + 1) BY <1>s, <2>2, <2>3
    <3> QED BY <1>s, <2>2, <3>1
  <2>4. ASSUME q < v PROVE FALSE
    <3>1. Scale * (q + 1) <= Scale * v BY <1>s, <2>2, <2>4
    <3> QED BY <1>s, <2>2, <3>1
  <2>5. q = v BY <2>2, <2>3, <2>4
  <2> QED BY <2>1, <2>5 DEF q
<1>3. ASSUME NEW a \in Nat, NEW b \in Nat, a <= b PROVE Mini!FromX11(a) <= Mini!FromX11(b)
  <2> DEFINE p == Mini!FromX11(a)
             q == Mini!FromX11(b)
  <2>1. p \in Nat /\ (2 * Scale) * p <= 2 * a + Scale /\ q \in Nat /\ 2 * b + Scale < (2 * Scale) * q + 2 * Scale
    BY <1>1
  <2> HIDE DEF p, q
  <2>2. ASSUME p > q PROVE FALSE
    <3>1. Scale * (q + 1) <= Scale * p BY <1>s, <2>1, <2>2
    <3> QED BY <1>s, <1>3, <2>1, <3>1
  <2>3. p <= q BY <2>1, <2>2
  <2> QED BY <2>3 DEF p, q
<1> QED BY <1>1, <1>2, <1>3

\* What the minimum begins with.
LEMMA MiniInit == Mini!Init => MiniInv
<1> HAVE Mini!Init
<1>1. /\ rounds \in BOOLEAN /\ floor \in (IF rounds THEN {0} ELSE Floors) /\ floors = {floor}
      /\ open = FALSE /\ size = 0 /\ asked = <<>> /\ sent = None /\ hint = 0 /\ refusal = None
      /\ resizing = FALSE /\ stored = 0 /\ fights = 0 /\ mixed = FALSE /\ mEvents = 0
  BY DEF Mini!Init
<1>2. floor \in Nat /\ mEvents \in 0..MinEvents /\ <<>> \in Seq(Nat) /\ Len(<<>>) = 0 BY <1>1, MinimumAssumption
<1>3. MiniTypes
  <2>1. Mini!TypeOK BY <1>1, <1>2 DEF Mini!TypeOK
  <2> QED BY <1>1, <1>2, <2>1 DEF MiniTypes
<1>4. FloorsHold /\ InTimeSettles BY <1>1, <1>2 DEF FloorsHold, InTimeSettles
<1>5. MinimaFit BY <1>1, MinimumAssumption DEF HadFloor, MinimaFit
<1> QED BY <1>3, <1>4, <1>5 DEF MiniInv

\* All that is known of the minimum.
LEMMA MiniFacts ==
    ASSUME MiniInv
    PROVE  /\ rounds \in BOOLEAN /\ open \in BOOLEAN /\ resizing \in BOOLEAN /\ mixed \in BOOLEAN
           /\ size \in Nat /\ hint \in Nat /\ stored \in Nat /\ fights \in Nat /\ mEvents \in 0..MinEvents
           /\ (refusal = None \/ (refusal \in Nat \X Nat /\ refusal[2] > refusal[1]))
           /\ floor \in Nat /\ floors \subseteq Nat /\ floor \in floors /\ \A f \in floors : f >= floor
           /\ asked \in Seq(Nat) /\ (sent = None \/ sent \in Nat) /\ (resizing => sent \in Nat)
           /\ (~open => hint = 0 /\ refusal = None /\ asked = <<>> /\ ~resizing)
           /\ Floor \in Nat /\ FloorsHold /\ InTimeSettles /\ None \notin Nat /\ None \notin Nat \X Nat
           /\ ~rounds => /\ HadFloor(hint * Scale) /\ HadFloor(stored)
                         /\ hint > 0 => hint >= Floor
                         /\ floors = {floor} => hint = 0 \/ hint = Floor
<1>1. /\ Mini!TypeOK /\ MiniTypes /\ floor \in Nat /\ floors \subseteq Nat /\ floor \in floors
      /\ hint \in Nat /\ hint * Scale \in Nat /\ Mini!FromX11(hint * Scale) = hint /\ \A f \in floors : f >= floor
  BY LogicalSizes DEF MiniInv, MiniTypes, Mini!TypeOK
<1>2. ~rounds => HadFloor(hint * Scale) /\ HadFloor(stored) BY DEF MiniInv, MinimaFit
<1>3. ASSUME ~rounds, hint > 0 PROVE hint >= Floor /\ (floors = {floor} => hint = Floor)
  <2>1. hint * Scale # 0 BY <1>1, <1>3, MinimumAssumption
  <2>2. PICK f \in floors : Mini!FromX11(f) = hint BY <1>1, <1>2, <1>3, <2>1 DEF HadFloor
  <2>3. f \in Nat /\ f >= floor BY <1>1, <2>2
  <2> QED BY <1>1, <2>2, <2>3, LogicalSizes DEF Floor
<1>4. Floor \in Nat BY <1>1, LogicalSizes DEF Floor
<1>5. None \notin Nat /\ None \notin Nat \X Nat BY CameraAssumption, MinimumAssumption
<1> QED BY <1>1, <1>2, <1>3, <1>4, <1>5 DEF MiniInv, MiniTypes, Mini!TypeOK

\* What is left of the requests when the first is heard.
LEMMA HeardOne ==
    ASSUME asked \in Seq(Nat), asked # <<>>
    PROVE  /\ Tail(asked) \in Seq(Nat) /\ Head(asked) \in Nat /\ Head(asked) = asked[1]
           /\ Len(asked) \in Nat /\ Len(asked) > 0 /\ Len(Tail(asked)) = Len(asked) - 1
           /\ \A i \in 1..Len(Tail(asked)) : Tail(asked)[i] = asked[i + 1]
           /\ Tail(asked) = <<>> => Len(asked) = 1
<1>1. /\ Head(asked) = asked[1] /\ Tail(asked) \in Seq(Nat) /\ Len(Tail(asked)) = Len(asked) - 1
      /\ \A i \in 1..Len(Tail(asked)) : Tail(asked)[i] = asked[i + 1]
  BY HeadTailProperties
<1>2. Head(asked) \in Nat /\ Len(asked) \in Nat /\ Len(asked) > 0 OBVIOUS
<1>3. Tail(asked) = <<>> => Len(Tail(asked)) = 0 BY <1>1, EmptySeq
<1>4. Tail(asked) = <<>> => Len(asked) = 1 BY <1>1, <1>2, <1>3
<1> QED BY <1>1, <1>2, <1>4

\* One more is the last.
LEMMA AskedMore ==
    ASSUME asked \in Seq(Nat), NEW f \in Nat
    PROVE  /\ Append(asked, f) \in Seq(Nat) /\ Len(asked) \in Nat
           /\ Len(Append(asked, f)) = Len(asked) + 1 /\ Append(asked, f) # <<>>
           /\ \A i \in 1..Len(asked) : Append(asked, f)[i] = asked[i]
           /\ Append(asked, f)[Len(asked) + 1] = f
OBVIOUS

\* What the user does beside the drags, and the program's later start.
LEMMA MiniQuiet ==
    ASSUME MiniInv,
           \/ Mini!Close \/ Mini!EndDrag \/ Mini!ProgramUpdated \/ Mini!Forget \/ Mini!ForgetEntry
           \/ UNCHANGED Mini!vars
    PROVE  MiniInv'
<1>z. 0 * Scale = 0 /\ Mini!FromX11(0) \in Nat /\ <<>> \in Seq(Nat) /\ Len(<<>>) = 0 BY LogicalSizes, MinimumAssumption
<1>1. CASE Mini!Close
  <2>1. /\ mEvents < MinEvents /\ mEvents' = mEvents + 1 /\ open' = FALSE /\ resizing' = FALSE /\ asked' = <<>>
        /\ hint' = 0 /\ refusal' = None /\ sent' = None /\ UNCHANGED <<rounds, floor, floors, size, stored, fights, mixed>>
    BY <1>1 DEF Mini!Close, Mini!Happens, Mini!program
  <2>2. mEvents' \in 0..MinEvents BY MiniFacts, <2>1, MinimumAssumption
  <2>3. MiniTypes' BY MiniFacts, <1>z, <2>1, <2>2 DEF MiniTypes, Mini!TypeOK
  <2>4. FloorsHold' /\ InTimeSettles' BY MiniFacts, <1>z, <2>1 DEF FloorsHold, InTimeSettles
  <2>5. MinimaFit' BY MiniFacts, <1>z, <2>1 DEF HadFloor, MinimaFit
  <2> QED BY <2>3, <2>4, <2>5 DEF MiniInv
<1>2. CASE Mini!EndDrag \/ Mini!ForgetEntry \/ UNCHANGED Mini!vars
  <2>1. /\ mEvents' = mEvents \/ (mEvents < MinEvents /\ mEvents' = mEvents + 1)
        /\ resizing' \in {resizing, FALSE} /\ stored' \in {stored, 0}
        /\ UNCHANGED <<rounds, floor, floors, open, size, asked, sent, hint, refusal, fights, mixed>>
    BY <1>2 DEF Mini!EndDrag, Mini!ForgetEntry, Mini!Happens, Mini!Store, Mini!vars, Mini!program
  <2>2. mEvents' \in 0..MinEvents BY MiniFacts, <2>1, MinimumAssumption
  <2>a. resizing \in BOOLEAN /\ stored \in Nat BY MiniFacts
  <2>b. resizing' \in BOOLEAN /\ (resizing' => resizing)
    <3>1. CASE resizing' = FALSE BY <3>1
    <3>2. CASE resizing' = resizing BY <2>a, <3>2
    <3> QED BY <2>1, <3>1, <3>2
  <2>t. stored' \in Nat BY <2>1, <2>a
  <2>3. MiniTypes' BY MiniFacts, <2>1, <2>2, <2>b, <2>t DEF MiniTypes, Mini!TypeOK
  <2>4. FloorsHold' BY MiniFacts, <2>1 DEF FloorsHold, Floor
  <2>5. InTimeSettles' BY MiniFacts, <2>1, <2>b DEF InTimeSettles, Settles, Floor, Mini!HeardInTime
  <2>6. MinimaFit' BY MiniFacts, <2>1 DEF HadFloor, MinimaFit
  <2> QED BY <2>3, <2>4, <2>5, <2>6 DEF MiniInv
<1>3. CASE Mini!ProgramUpdated
  <2>1. PICK f \in Floors : f < floor /\ floor' = f /\ floors' = floors \cup {f}
    BY <1>3 DEF Mini!ProgramUpdated
  <2>2. /\ mEvents < MinEvents /\ mEvents' = mEvents + 1 /\ ~open /\ ~rounds
        /\ UNCHANGED <<rounds, open, size, asked, sent, hint, refusal, resizing, stored, fights, mixed>>
    BY <1>3 DEF Mini!ProgramUpdated, Mini!Happens
  <2>3. mEvents' \in 0..MinEvents /\ f \in Nat BY MiniFacts, <2>1, <2>2, MinimumAssumption
  <2>4. MiniTypes' BY MiniFacts, <2>1, <2>2, <2>3 DEF MiniTypes, Mini!TypeOK
  <2>5. FloorsHold' /\ InTimeSettles' BY MiniFacts, <1>z, <2>2 DEF FloorsHold, InTimeSettles
  <2>6. MinimaFit' BY MiniFacts, <2>1, <2>2 DEF HadFloor, MinimaFit
  <2> QED BY <2>4, <2>5, <2>6 DEF MiniInv
<1>4. CASE Mini!Forget
  <2>1. /\ mEvents < MinEvents /\ mEvents' = mEvents + 1 /\ stored' = 0 /\ hint' = 0 /\ refusal' = None /\ fights' = 0
        /\ UNCHANGED <<rounds, floor, floors, open, size, asked, sent, resizing, mixed>>
    BY <1>4 DEF Mini!Forget, Mini!Happens, Mini!Store, Mini!program
  <2>2. mEvents' \in 0..MinEvents BY MiniFacts, <2>1, MinimumAssumption
  <2>s. Mini!FromX11(size) \in Nat BY MiniFacts, LogicalSizes
  <2>3. MiniTypes' BY MiniFacts, <2>1, <2>2 DEF MiniTypes, Mini!TypeOK
  <2>4. FloorsHold' BY MiniFacts, <2>1 DEF FloorsHold, Floor
  <2>5. InTimeSettles' BY MiniFacts, <2>1, <2>s DEF InTimeSettles, Settles, Floor, Mini!HeardInTime
  <2>6. MinimaFit' BY <1>z, <2>1 DEF HadFloor, MinimaFit
  <2> QED BY <2>3, <2>4, <2>5, <2>6 DEF MiniInv
<1> QED BY <1>1, <1>2, <1>3, <1>4

\* A new window is held to what an earlier one taught, or to what it takes.
LEMMA MiniMaps == ASSUME MiniInv, Mini!Map PROVE MiniInv'
<1> DEFINE min == IF stored > 0 /\ size' < stored THEN size' ELSE stored
<1>1. /\ mEvents < MinEvents /\ mEvents' = mEvents + 1 /\ ~open /\ open' = TRUE
      /\ size' = (IF rounds THEN Rounding ELSE floor)
      /\ stored' = min /\ hint' = (IF stored' > 0 THEN Mini!FromX11(stored') ELSE 0)
      /\ refusal' = None /\ sent' = Mini!FromX11(size') /\ asked' = <<>> /\ fights' = 0 /\ mixed' = FALSE
      /\ UNCHANGED <<rounds, floor, floors, resizing>>
  BY DEF Mini!Map, Mini!Happens, Mini!Store, Mini!LoweredMin, Mini!program
<1>2. size' \in Nat /\ min \in Nat /\ mEvents' \in 0..MinEvents /\ (min > 0 => min <= size' /\ stored > 0)
      /\ <<>> \in Seq(Nat) /\ Len(<<>>) = 0
  BY MiniFacts, <1>1, MinimumAssumption
<1>3. /\ Mini!FromX11(min) \in Nat /\ Mini!FromX11(min) * Scale \in Nat /\ Mini!FromX11(size') \in Nat
      /\ Mini!FromX11(Mini!FromX11(min) * Scale) = Mini!FromX11(min)
      /\ (min > 0 => Mini!FromX11(min) <= Mini!FromX11(size'))
      /\ 0 * Scale = 0
  BY <1>2, LogicalSizes, MinimumAssumption
<1>4. min > 0 /\ ~rounds => \E f \in floors \ {0} : Mini!FromX11(f) = Mini!FromX11(min)
  <2> HAVE min > 0 /\ ~rounds
  <2>1. CASE min = stored BY MiniFacts, <2>1 DEF HadFloor
  <2>2. CASE min # stored BY MiniFacts, <1>1, <2>2
  <2> QED BY <2>1, <2>2
<1> HIDE DEF min
<1>5. hint' \in Nat /\ hint' <= Mini!FromX11(size') BY <1>1, <1>2, <1>3
<1>6. ~rounds /\ hint' > 0 => hint' = Floor
  <2> HAVE ~rounds /\ hint' > 0
  <2>1. PICK f \in floors : Mini!FromX11(f) = hint' BY <1>1, <1>2, <1>4
  <2>2. f \in Nat /\ floor <= f /\ floor \in Nat /\ size' = floor BY MiniFacts, <1>1
  <2>3. Mini!FromX11(floor) <= Mini!FromX11(f) BY <2>2, LogicalSizes
  <2>4. Floor <= hint' /\ hint' <= Floor BY <1>5, <2>1, <2>2, <2>3 DEF Floor
  <2> QED BY MiniFacts, <1>5, <2>4
<1>7. MiniTypes' BY MiniFacts, <1>1, <1>2, <1>3, <1>5 DEF MiniTypes, Mini!TypeOK
<1>8. FloorsHold' BY <1>1, <1>2 DEF FloorsHold
<1>9. InTimeSettles'
  <2> SUFFICES ASSUME ~rounds PROVE Settles' BY <1>1 DEF InTimeSettles, Mini!HeardInTime
  <2> QED BY MiniFacts, <1>1, <1>2, <1>5, <1>6 DEF Settles, Floor
<1>10. MinimaFit'
  <2>1. ~rounds => \A m \in {hint' * Scale, stored'} \ {0} : \E f \in floors \ {0} : Mini!FromX11(f) = Mini!FromX11(m)
    BY <1>1, <1>2, <1>3, <1>4
  <2> QED BY <1>1, <2>1 DEF HadFloor, MinimaFit
<1> QED BY <1>7, <1>8, <1>9, <1>10 DEF MiniInv

\* What a program makes of a size is one, its floor if it has one.
LEMMA TakenSize ==
    ASSUME MiniInv, NEW got \in Nat
    PROVE  Mini!Taken(got) \in Nat /\ (~rounds /\ Mini!Taken(got) # got => Mini!Taken(got) = floor)
<1>1. CASE ~rounds BY MiniFacts, <1>1 DEF Mini!Taken, Mini!AtLeast
<1>2. CASE rounds
  <2>1. Rounding \in Nat \ {0} BY MinimumAssumption
  <2>2. got + Rounding - 1 \in Nat BY <2>1
  <2>3. (got + Rounding - 1) \div Rounding \in Nat BY <2>1, <2>2, Division
  <2>4. Rounding * ((got + Rounding - 1) \div Rounding) \in Nat BY <2>1, <2>3
  <2> QED BY <1>2, <2>4 DEF Mini!Taken
<1> QED BY <1>1, <1>2

\* A drag asks for no less than the minimum, and is answered with a floor or rounded.
LEMMA MiniDrags == ASSUME MiniInv, Mini!Drag PROVE MiniInv'
<1>1. PICK w \in Drags :
         /\ sent' = Mini!AtLeast(w, hint)
         /\ size' = sent' * Scale
         /\ asked' = IF Mini!Taken(sent' * Scale) # sent' * Scale THEN Append(asked, Mini!Taken(sent' * Scale)) ELSE asked
  BY DEF Mini!Drag, Mini!ToX11
<1>2. /\ mEvents < MinEvents /\ mEvents' = mEvents + 1 /\ open = TRUE /\ resizing' = TRUE
      /\ mixed' = (mixed \/ (~resizing /\ asked # <<>>))
      /\ UNCHANGED <<rounds, floor, floors, open, hint, refusal, stored, fights>>
  <2>1. open \in BOOLEAN BY MiniFacts
  <2> QED BY <2>1 DEF Mini!Drag, Mini!Happens, Mini!program
<1>3. w \in Nat /\ sent' \in Nat /\ sent' >= hint
  BY MiniFacts, <1>1, MinimumAssumption DEF Mini!AtLeast
<1> DEFINE got == sent' * Scale
           t == Mini!Taken(got)
<1>4. got \in Nat /\ Mini!FromX11(got) = sent' BY <1>3, LogicalSizes
<1>5. /\ t \in Nat /\ (~rounds /\ t # got => t = floor)
      /\ size' = got /\ asked' = IF t # got THEN Append(asked, t) ELSE asked
  BY <1>1, <1>4, TakenSize
<1> HIDE DEF t, got
<1>6. /\ asked' \in Seq(Nat) /\ Len(asked) \in Nat /\ Len(asked') \in Nat
      /\ \A i \in 1..Len(asked') : (asked'[i] = asked[i] /\ i \in 1..Len(asked)) \/ (t # got /\ asked'[i] = t)
      /\ asked' = <<>> => asked = <<>>
  <2>1. asked \in Seq(Nat) /\ Len(asked) \in Nat BY MiniFacts, LenProperties
  <2>2. CASE t = got BY <1>5, <2>1, <2>2
  <2>3. CASE t # got
    <3>1. asked' = Append(asked, t) BY <1>5, <2>3
    <3> QED BY <1>5, <2>1, <2>3, <3>1, AskedMore
  <2> QED BY <2>2, <2>3
<1>7. mEvents' \in 0..MinEvents /\ mixed' \in BOOLEAN BY MiniFacts, <1>2, MinimumAssumption
<1>8. MiniTypes' BY MiniFacts, <1>2, <1>3, <1>4, <1>5, <1>6, <1>7 DEF MiniTypes, Mini!TypeOK
<1>9. FloorsHold' BY MiniFacts, <1>2, <1>5, <1>6 DEF FloorsHold, Floor
<1>10. InTimeSettles'
  <2> SUFFICES ASSUME Mini!HeardInTime' PROVE Settles' BY DEF InTimeSettles
  <2>1. Settles /\ ~rounds BY MiniFacts, <1>2 DEF InTimeSettles, Mini!HeardInTime
  <2>2. resizing \/ asked = <<>> \/ floors = {floor} BY <1>2 DEF Mini!HeardInTime
  <2>3. \A i \in 1..Len(asked) : asked[i] = floor
    <3>1. CASE asked = <<>> BY MiniFacts, <3>1, EmptySeq
    <3>2. CASE asked # <<>> BY MiniFacts, <2>1, <2>2, <3>2 DEF Settles, FloorsHold
    <3> QED BY <3>1, <3>2
  <2>4. \A i \in 1..Len(asked') : asked'[i] = floor BY <1>5, <1>6, <2>1, <2>3
  <2>5. hint = 0 \/ hint = Floor BY MiniFacts, <2>1, <2>2 DEF Settles
  <2>6. hint <= Mini!FromX11(size') BY <1>3, <1>4, <1>5
  <2>7. Len(asked') > 0 => asked'[Len(asked')] = floor BY <1>6, <2>4
  <2> QED BY <1>2, <1>3, <2>1, <2>4, <2>5, <2>6, <2>7 DEF Settles, Floor
<1>11. MinimaFit' BY MiniFacts, <1>2 DEF HadFloor, MinimaFit
<1> QED BY <1>8, <1>9, <1>10, <1>11 DEF MiniInv

\* A program that comes to take less asks for that.
LEMMA MiniShrinks == ASSUME MiniInv, Mini!ProgramShrinks PROVE MiniInv'
<1>1. PICK f \in Floors : /\ f < floor /\ floor' = f /\ floors' = floors \cup {f} /\ asked' = Append(asked, f)
                          /\ fights' = IF Mini!FromX11(f) < Mini!FromX11(floor) THEN 0 ELSE fights
  BY DEF Mini!ProgramShrinks
<1>2. /\ mEvents < MinEvents /\ mEvents' = mEvents + 1 /\ open /\ ~rounds /\ ~resizing
      /\ UNCHANGED <<rounds, open, size, sent, hint, refusal, resizing, stored, mixed>>
  BY DEF Mini!ProgramShrinks, Mini!Happens
<1>3. f \in Nat BY MinimumAssumption
<1>e. mEvents' \in 0..MinEvents BY MiniFacts, <1>2, MinimumAssumption
<1>4. Floor' \in Nat /\ Floor' <= Floor /\ fights' = (IF Floor' < Floor THEN 0 ELSE fights)
  BY MiniFacts, <1>1, <1>3, LogicalSizes DEF Floor
<1>s. asked \in Seq(Nat) BY MiniFacts
<1>5. /\ asked' \in Seq(Nat) /\ Len(asked) \in Nat /\ Len(asked') = Len(asked) + 1 /\ asked' # <<>>
      /\ \A i \in 1..Len(asked) : asked'[i] = asked[i]
      /\ asked'[Len(asked')] = f
  BY <1>1, <1>3, <1>s, AskedMore
<1>t. fights' \in Nat /\ \A g \in floors' : g >= floor' BY MiniFacts, <1>1, <1>3, <1>4
<1>6. MiniTypes' BY MiniFacts, <1>1, <1>2, <1>3, <1>5, <1>e, <1>t DEF MiniTypes, Mini!TypeOK
<1>7. FloorsHold'
  <2>1. \A i \in 1..Len(asked') : asked'[i] \in floors'
    <3> TAKE i \in 1..Len(asked')
    <3>1. i \in 1..Len(asked) \/ i = Len(asked') BY <1>5
    <3> QED BY MiniFacts, <1>1, <1>2, <1>5, <3>1 DEF FloorsHold
  <2>2. refusal # None => refusal[2] >= Floor' BY MiniFacts, <1>2, <1>4 DEF FloorsHold
  <2> QED BY <1>2, <2>1, <2>2 DEF FloorsHold
<1>8. InTimeSettles'
  <2> SUFFICES ASSUME Mini!HeardInTime' PROVE Settles' BY DEF InTimeSettles
  <2>1. floors' # {floor'} BY MiniFacts, <1>1
  <2>2. Settles /\ FloorsHold BY MiniFacts, <1>2, <2>1 DEF InTimeSettles, Mini!HeardInTime
  <2>3. refusal # None => refusal[2] \in Nat BY MiniFacts
  <2>4. /\ fights' <= 2
        /\ (refusal # None /\ refusal[2] = Floor') <=> fights' >= 1
        /\ hint = 0 => fights' <= 1
        /\ hint > 0 /\ fights' >= 1 => hint = Floor' /\ fights' = 2
    <3>1. CASE Floor' = Floor BY MiniFacts, <1>2, <1>4, <2>2, <3>1 DEF Settles
    <3>2. CASE Floor' < Floor BY MiniFacts, <1>2, <1>4, <2>2, <2>3, <3>2 DEF FloorsHold
    <3> QED BY MiniFacts, <1>4, <3>1, <3>2
  <2> QED BY <1>1, <1>2, <1>5, <2>4 DEF Settles
<1>9. MinimaFit' BY MiniFacts, <1>1, <1>2 DEF HadFloor, MinimaFit
<1> QED BY <1>6, <1>7, <1>8, <1>9 DEF MiniInv

\* A request outside a drag lowers the minimum, the second refusal in one teaches it.
LEMMA MiniAnswers == ASSUME MiniInv, Mini!HandleRequest PROVE MiniInv'
<1> DEFINE first == Head(asked)
           req == Mini!FromX11(first)
           min == IF resizing THEN Mini!LearnedMin(req) ELSE Mini!Lowers(req)
<1>1. /\ asked # <<>>
      /\ refusal' = (IF resizing /\ req > sent THEN <<sent, req>> ELSE refusal)
      /\ fights' = (IF refusal' # refusal THEN fights + 1 ELSE fights)
      /\ hint' = (IF min = None THEN hint ELSE min)
      /\ stored' = (IF min = None THEN stored ELSE min * Scale)
      /\ size' = first /\ asked' = Tail(asked)
      /\ UNCHANGED <<rounds, floor, floors, open, sent, resizing, mixed, mEvents>>
  BY DEF Mini!HandleRequest, Mini!Store, Mini!program, Mini!ToX11
<1>2. /\ first \in Nat /\ first = asked[1] /\ Len(asked) \in Nat /\ Len(asked) > 0 /\ asked' \in Seq(Nat)
      /\ Len(asked') = Len(asked) - 1 /\ \A i \in 1..Len(asked') : asked'[i] = asked[i + 1]
      /\ asked' = <<>> => Len(asked) = 1
  BY MiniFacts, <1>1, HeardOne
<1>3. req \in Nat /\ open /\ (resizing => sent \in Nat) BY MiniFacts, <1>1, <1>2, LogicalSizes
<1>4. ~rounds => first \in floors /\ req >= Floor
  <2> HAVE ~rounds
  <2>1. first \in floors /\ first >= floor BY MiniFacts, <1>2 DEF FloorsHold
  <2> QED BY MiniFacts, <1>2, <2>1, LogicalSizes DEF Floor
<1>5. /\ resizing => min = IF req > sent /\ refusal # None /\ refusal[2] = req /\ refusal[1] # sent /\ req > hint
                           THEN req ELSE None
      /\ ~resizing => min = IF hint > 0 /\ req < hint THEN req ELSE None
  BY DEF Mini!LearnedMin, Mini!Lowers, Mini!IsFloor
<1>l. size' = first /\ req = Mini!FromX11(first) BY <1>1
<1>a. Floor' = Floor BY <1>1 DEF Floor
<1> HIDE DEF req, min, first
<1>6. min = None \/ min = req BY <1>5
<1>7. min # None => min \in Nat /\ min * Scale \in Nat /\ Mini!FromX11(min * Scale) = min /\ min = req
  BY <1>3, <1>6, LogicalSizes
<1>8. hint' \in Nat /\ stored' \in Nat /\ fights' \in Nat BY MiniFacts, <1>1, <1>7
<1>9. /\ refusal' = None \/ (refusal' \in Nat \X Nat /\ refusal'[2] > refusal'[1])
      /\ resizing /\ req > sent => refusal' # None /\ refusal'[1] = sent /\ refusal'[2] = req
  <2>1. CASE resizing /\ req > sent
    <3>1. refusal' = <<sent, req>> BY <1>1, <2>1
    <3> QED BY MiniFacts, <1>3, <2>1, <3>1
  <2>2. CASE ~(resizing /\ req > sent)
    <3>1. refusal' = refusal BY <1>1, <2>2
    <3> QED BY MiniFacts, <2>2, <3>1
  <2> QED BY <2>1, <2>2
<1>10. MiniTypes' BY MiniFacts, <1>1, <1>2, <1>3, <1>8, <1>9, <1>l DEF MiniTypes, Mini!TypeOK
<1>11. FloorsHold'
  <2> SUFFICES ASSUME ~rounds PROVE FloorsHold' BY <1>1 DEF FloorsHold
  <2>1. \A i \in 1..Len(asked') : asked'[i] \in floors
    <3> TAKE i \in 1..Len(asked')
    <3>1. i + 1 \in 1..Len(asked) /\ asked'[i] = asked[i + 1] BY <1>2
    <3> QED BY MiniFacts, <3>1 DEF FloorsHold
  <2>2. refusal' # None => refusal'[2] >= Floor
    <3>1. CASE resizing /\ req > sent BY <1>4, <1>9, <3>1
    <3>2. CASE ~(resizing /\ req > sent) BY MiniFacts, <1>1, <3>2 DEF FloorsHold
    <3> QED BY <3>1, <3>2
  <2> QED BY <1>1, <1>a, <2>1, <2>2 DEF FloorsHold
<1>12. InTimeSettles'
  <2> SUFFICES ASSUME Mini!HeardInTime' PROVE Settles' BY DEF InTimeSettles
  <2>0. ~rounds /\ Settles BY MiniFacts, <1>1, <1>3 DEF InTimeSettles, Mini!HeardInTime
  <2>1. Len(asked') > 0 => asked'[Len(asked')] = floor
    <3> HAVE Len(asked') > 0
    <3>1. Len(asked') \in 1..Len(asked') /\ Len(asked') + 1 = Len(asked) BY <1>2
    <3>2. asked'[Len(asked')] = asked[Len(asked)] BY <1>2, <3>1
    <3> QED BY <1>2, <2>0, <3>2 DEF Settles
  <2>2. CASE ~resizing
    <3>1. refusal' = refusal /\ fights' = fights /\ hint' = IF hint > 0 /\ req < hint THEN req ELSE hint
      BY MiniFacts, <1>1, <1>3, <1>5, <2>2
    <3>2. hint' <= req BY MiniFacts, <1>3, <3>1
    <3>3. asked' = <<>> => hint' = 0 \/ hint' = Floor
      <4> HAVE asked' = <<>>
      <4>1. first = floor /\ req = Floor BY <1>2, <1>l, <2>0 DEF Settles, Floor
      <4> QED BY MiniFacts, <2>0, <3>1, <4>1
    <3>4. fights >= 1 => hint' = hint BY MiniFacts, <1>3, <1>4, <2>0, <3>1 DEF Settles
    <3>5. hint' = 0 => fights <= 1 BY MiniFacts, <1>3, <2>0, <3>1, <3>4 DEF Settles
    <3> QED BY MiniFacts, <1>1, <1>8, <1>a, <1>l, <2>0, <2>1, <2>2, <3>1, <3>2, <3>3, <3>4, <3>5 DEF Settles
  <2>3. CASE resizing
    <3>1. first = floor /\ req = Floor /\ \A i \in 1..Len(asked') : asked'[i] = floor
      <4>1. \A i \in 1..Len(asked) : asked[i] = floor BY <2>0, <2>3 DEF Settles
      <4>2. first = floor BY <1>2, <4>1
      <4> QED BY <1>2, <1>l, <4>1, <4>2 DEF Floor
    <3>h. /\ hint = 0 \/ hint = Floor
          /\ hint > 0 => sent >= hint \/ refusal = <<sent, hint>>
          /\ fights <= 2 /\ (hint = 0 => fights <= 1)
          /\ ((refusal # None /\ refusal[2] = Floor) <=> fights >= 1)
          /\ (hint > 0 /\ fights >= 1 => hint = Floor /\ fights = 2)
      BY <2>0, <2>3 DEF Settles
    <3>2. CASE ~(req > sent)
      <4>1. refusal' = refusal /\ fights' = fights /\ hint' = hint BY <1>1, <1>5, <2>3, <3>2
      <4>2. hint <= Mini!FromX11(size') BY MiniFacts, <1>l, <3>1, <3>h
      <4> QED BY <1>1, <1>a, <2>1, <3>1, <3>h, <4>1, <4>2 DEF Settles
    <3>3. CASE req > sent /\ hint > 0
      <4>1. refusal = <<sent, hint>> /\ hint = req BY MiniFacts, <1>3, <2>3, <3>1, <3>3, <3>h
      <4>2. refusal' = refusal /\ fights' = fights /\ hint' = hint BY MiniFacts, <1>1, <1>3, <1>5, <2>3, <3>3, <4>1
      <4>3. hint <= Mini!FromX11(size') BY MiniFacts, <1>l, <3>1, <3>h
      <4> QED BY <1>1, <1>a, <2>1, <3>1, <3>h, <4>2, <4>3 DEF Settles
    <3>4. CASE req > sent /\ hint = 0
      <4>1. refusal' = <<sent, req>> /\ sent \in Nat BY <1>1, <1>3, <2>3, <3>4
      <4>2. refusal' # None /\ refusal'[2] = Floor BY <1>9, <2>3, <3>1, <3>4
      <4>3. fights = 0 \/ fights = 1 BY MiniFacts, <3>4, <3>h
      <4>4. CASE fights = 1 /\ refusal[1] # sent
        <5>1. refusal' # refusal BY <1>9, <2>3, <3>4, <4>4
        <5>2. min = req BY <1>3, <1>5, <2>3, <3>1, <3>4, <3>h, <4>1, <4>4
        <5>3. hint' = Floor /\ fights' = 2 /\ Floor > 0 BY <1>1, <1>3, <1>7, MiniFacts, <3>1, <3>4, <4>1, <4>4, <5>1, <5>2
        <5>4. hint' <= Mini!FromX11(size') BY MiniFacts, <1>l, <3>1, <5>3
        <5>5. refusal' = <<sent', hint'>> BY <1>1, <3>1, <4>1, <5>3
        <5> QED BY <1>1, <1>a, <2>1, <3>1, <4>2, <5>3, <5>4, <5>5 DEF Settles
      <4>5. CASE ~(fights = 1 /\ refusal[1] # sent)
        <5>1. min = None BY <1>5, <2>3, <3>1, <3>h, <4>3, <4>5
        <5>2. hint' = 0 BY <1>1, <3>4, <5>1
        <5>3. fights' = 1
          <6>1. CASE fights = 0
            <7>1. refusal' # refusal BY <3>h, <4>2, <6>1
            <7> QED BY <1>1, <6>1, <7>1
          <6>2. CASE fights = 1
            <7>1. refusal # None /\ refusal[2] = req /\ refusal[1] = sent BY <3>1, <3>h, <4>5, <6>2
            <7>2. refusal' = refusal BY MiniFacts, <4>1, <7>1
            <7> QED BY <1>1, <6>2, <7>2
          <6> QED BY <4>3, <6>1, <6>2
        <5>4. 0 <= Mini!FromX11(size') BY MiniFacts, <1>l, <3>1
        <5> QED BY <1>1, <1>a, <2>1, <3>1, <4>2, <5>2, <5>3, <5>4 DEF Settles
      <4> QED BY <4>4, <4>5
    <3> QED BY MiniFacts, <3>2, <3>3, <3>4
  <2> QED BY <2>2, <2>3
<1>13. MinimaFit'
  <2> SUFFICES ASSUME ~rounds PROVE MinimaFit' BY <1>1 DEF MinimaFit
  <2>1. CASE min = None
    <3>1. hint' = hint /\ stored' = stored BY <1>1, <2>1
    <3> QED BY <1>1, MiniFacts, <3>1 DEF HadFloor, MinimaFit
  <2>2. CASE min # None
    <3>1. hint' = min /\ stored' = min * Scale BY <1>1, <2>2
    <3>2. min * Scale \in Nat /\ Mini!FromX11(min * Scale) = Mini!FromX11(first) BY <1>7, <1>l, <2>2
    <3>3. min * Scale # 0 => first # 0
      <4>1. first = 0 => Mini!FromX11(0 * Scale) = 0 /\ 0 * Scale = 0 BY LogicalSizes, MinimumAssumption
      <4>2. first = 0 => min = 0 BY <1>7, <1>l, <2>2, <4>1
      <4> QED BY <4>1, <4>2
    <3>4. \A m \in {hint' * Scale, stored'} \ {0} : \E f \in floors \ {0} : Mini!FromX11(f) = Mini!FromX11(m)
      BY <1>4, <3>1, <3>2, <3>3
    <3> QED BY <1>1, <3>4 DEF HadFloor, MinimaFit
  <2> QED BY <2>1, <2>2
<1> QED BY <1>10, <1>11, <1>12, <1>13 DEF MiniInv

\* Every step keeps all of it.
LEMMA MiniNext == ASSUME MiniInv, [Mini!Next]_(Mini!vars) PROVE MiniInv'
BY MiniQuiet, MiniMaps, MiniDrags, MiniShrinks, MiniAnswers DEF Mini!Next

\* A minimum is a floor the program has had, and heard in time what two refusals teach.
LEMMA MiniSound == MiniInv => Mini!TypeOK /\ Mini!MinimumIsSound
<1> HAVE MiniInv
<1>1. /\ Mini!TypeOK /\ InTimeSettles /\ MinimaFit /\ fights \in Nat /\ hint \in Nat
  BY DEF MiniInv, MiniTypes, Mini!TypeOK
<1>2. Mini!NeverHeldAbove BY <1>1 DEF Mini!NeverHeldAbove, InTimeSettles, Settles
<1>3. Mini!TwoRefusalsTeach BY <1>1 DEF Mini!TwoRefusalsTeach, InTimeSettles, Settles
<1>4. Mini!MinimumIsAFloor BY <1>1 DEF Mini!MinimumIsAFloor, MinimaFit, HadFloor, Mini!ToX11
<1> QED BY <1>1, <1>2, <1>3, <1>4 DEF Mini!MinimumIsSound

--------------------
(* A window and its modes.                                                 *)

Boxes == [at : Int, size : Int]
Wins == [mode : {"floating", "tiled", "fullscreen"}, locked : BOOLEAN,
         pre : {None} \cup [mode : {"floating", "tiled"}, locked : BOOLEAN], box : Boxes,
         tiled : BOOLEAN, flo : Boxes, was : BOOLEAN, home : Boxes, back : Int \cup {None},
         last : Int \cup {None}, desk : BOOLEAN]
\* A box is the place a window was given, or the cells of it.
LivesAt(b, p) == b \in {p, Modes!Cells(p)}
\* The window w, given the place p, has it as its box, or as its home while it covers the screen,
\* and as its floating geometry while it is tiled.
Kept(w, p) ==
    /\ IF w.was THEN LivesAt(w.home, p) ELSE LivesAt(w.box, p)
    /\ w.tiled => LivesAt(w.flo, p)
    /\ Modes!Full(w) /\ w.pre # None /\ w.pre.mode = "tiled" => LivesAt(w.flo, p)
    /\ w.was /\ w.mode = "tiled" => w.tiled
\* The camera shows a fullscreen window that nothing is above, unless a pass is due.
Covers ==
    ~wDirty /\ wTarget = None /\ up /\ Modes!Full(wWin) /\ wWin.was /\ ~wOverview /\ ~yields
    => wWin.box.at = wPan /\ ~wWin.desk
\* A window that reopens at a spot is on its way there, or the camera is.
Reopens ==
    spot # None => /\ up /\ ~wOverview /\ ~yields /\ spot \in Int
                   /\ IF wWin.back # None THEN wWin.back = spot /\ wTarget = None
                      ELSE wTarget = spot \/ (wTarget = None /\ wPan = spot)
ModesInv ==
    /\ wWin \in Wins /\ place \in Boxes /\ wPan \in Int /\ wTarget \in Int \cup {None}
    /\ {wOverview, yields, up, wDirty, filling, spoiled} \subseteq BOOLEAN /\ wEvents \in 0..ModeEvents
    /\ filling => wWin.was
    /\ wWin.back # None => ~wWin.was
    /\ up /\ Modes!Full(wWin) /\ ~wWin.was => wDirty
    /\ spoiled \/ Kept(wWin, place)
    /\ Covers /\ Reopens

\* The cells of a box are a box whose cells are itself.
LEMMA CellsFit == \A b \in Boxes : Modes!Cells(b) \in Boxes /\ Modes!Cells(Modes!Cells(b)) = Modes!Cells(b)
<1>1. \A x \in Int : ((x + 1) \div 2) * 2 \in Int /\ ((((x + 1) \div 2) * 2 + 1) \div 2) * 2 = ((x + 1) \div 2) * 2
  OBVIOUS
<1> SUFFICES ASSUME NEW b \in Boxes
             PROVE  Modes!Cells(b) \in Boxes /\ Modes!Cells(Modes!Cells(b)) = Modes!Cells(b)
  OBVIOUS
<1>2. b.at \in Int /\ b.size \in Int BY DEF Boxes
<1> DEFINE c == Modes!Cells(b)
<1>3. c = [at |-> ((b.at + 1) \div 2) * 2, size |-> ((b.size + 1) \div 2) * 2] BY DEF Modes!Cells
<1>4. c.at = ((b.at + 1) \div 2) * 2 /\ c.size = ((b.size + 1) \div 2) * 2 BY <1>3
<1>5. ((c.at + 1) \div 2) * 2 = c.at /\ ((c.size + 1) \div 2) * 2 = c.size BY <1>1, <1>2, <1>4
<1>6. c \in Boxes BY <1>1, <1>2, <1>3 DEF Boxes
<1> HIDE DEF c
<1>7. Modes!Cells(c) = [at |-> c.at, size |-> c.size] BY <1>5 DEF Modes!Cells
<1>8. c = [at |-> c.at, size |-> c.size] BY <1>6 DEF Boxes
<1> QED BY <1>6, <1>7, <1>8 DEF c

\* A window is what its fields say.
Whole(a) ==
    a = [mode |-> a.mode, locked |-> a.locked, pre |-> a.pre, box |-> a.box, tiled |-> a.tiled, flo |-> a.flo,
         was |-> a.was, home |-> a.home, back |-> a.back, last |-> a.last, desk |-> a.desk]

\* Arranged, a window keeps its home, and what it has of its place.
LEMMA ArrangedFits ==
    ASSUME NEW w \in Wins, NEW p \in Boxes
    PROVE  /\ Modes!Arrange(w) \in Wins
           /\ Modes!Arrange(w).was = w.was /\ Modes!Arrange(w).back = w.back
           /\ Modes!Full(Modes!Arrange(w)) => Modes!Full(w)
           /\ Kept(w, p) => Kept(Modes!Arrange(w), p)
<1> DEFINE a == Modes!Arrange(w)
           m == Modes!Resolved(w)
<1>t. /\ w.mode \in {"floating", "tiled", "fullscreen"} /\ w.box \in Boxes /\ w.flo \in Boxes
      /\ {w.tiled, w.was, w.locked, w.desk} \subseteq BOOLEAN
  BY DEF Wins
<1>1. m = w.mode \/ m = "floating" BY DEF Modes!Resolved
<1> DEFINE g == [w EXCEPT !.mode = m, !.tiled = (m = "tiled")]
<1>2. a = IF m = "tiled" /\ ~w.tiled THEN [g EXCEPT !.flo = w.box, !.box = Modes!Cells(w.box)]
          ELSE IF m = "tiled" /\ w.tiled THEN [g EXCEPT !.box = Modes!Cells(w.box)]
          ELSE IF m = "floating" /\ w.tiled THEN [g EXCEPT !.box = w.flo] ELSE g
  BY DEF Modes!Arrange
<1> HIDE DEF m, a
<1>3. /\ a.mode = m /\ a.tiled = (m = "tiled") /\ a.was = w.was /\ a.back = w.back /\ a.home = w.home
      /\ a.last = w.last /\ a.pre = w.pre /\ a.desk = w.desk /\ a.locked = w.locked
      /\ a.flo = (IF m = "tiled" /\ ~w.tiled THEN w.box ELSE w.flo)
      /\ a.box = (IF m = "tiled" THEN Modes!Cells(w.box) ELSE IF m = "floating" /\ w.tiled THEN w.flo ELSE w.box)
      /\ Whole(a)
  BY <1>1, <1>2, <1>t DEF Wins, Whole
<1>4. a \in Wins
  <2>1. a.box \in Boxes /\ a.flo \in Boxes BY <1>3, <1>t, CellsFit
  <2>2. a.mode \in {"floating", "tiled", "fullscreen"} /\ a.tiled \in BOOLEAN BY <1>1, <1>3, <1>t
  <2> QED BY <1>3, <2>1, <2>2 DEF Wins, Whole
<1>5. Modes!Full(a) => Modes!Full(w) BY <1>1, <1>3 DEF Modes!Full
<1>6. ASSUME Kept(w, p) PROVE Kept(a, p)
  <2>1. ~w.was => LivesAt(a.box, p)
    <3> HAVE ~w.was
    <3>1. LivesAt(w.box, p) /\ (w.tiled => LivesAt(w.flo, p)) BY <1>6 DEF Kept
    <3>2. LivesAt(Modes!Cells(w.box), p) BY <3>1, CellsFit DEF LivesAt
    <3> QED BY <1>3, <3>1, <3>2
  <2>2. a.tiled => LivesAt(a.flo, p)
    <3> HAVE a.tiled
    <3>1. m = "tiled" /\ w.mode = "tiled" BY <1>1, <1>3
    <3>2. CASE w.tiled BY <1>3, <1>6, <3>1, <3>2 DEF Kept
    <3>3. CASE ~w.tiled
      <4>1. ~w.was BY <1>6, <3>1, <3>3 DEF Kept
      <4> QED BY <1>3, <1>6, <3>1, <3>3, <4>1 DEF Kept
    <3> QED BY <3>2, <3>3
  <2>3. Modes!Full(a) => Modes!Full(w) /\ a.flo = w.flo BY <1>1, <1>3 DEF Modes!Full
  <2> QED BY <1>3, <1>6, <2>1, <2>2, <2>3 DEF Kept
<1> QED BY <1>3, <1>4, <1>5, <1>6 DEF a

\* Placed, a fullscreen window is at the camera or on its spot, any other where it was.
LEMMA PlacedFits ==
    ASSUME NEW w \in Wins, NEW p \in Boxes, NEW c \in Int, NEW t \in Int \cup {None}
    PROVE  /\ Modes!Place(w, c, t) \in Wins
           /\ Modes!Place(w, c, t).was = w.was /\ Modes!Place(w, c, t).back = w.back
           /\ Modes!Full(Modes!Place(w, c, t)) <=> Modes!Full(w)
           /\ Kept(w, p) => Kept(Modes!Place(w, c, t), p)
           /\ Modes!Full(w) /\ w.was /\ t = None /\ ~wOverview /\ ~yields
              => Modes!Place(w, c, t).box.at = c /\ ~Modes!Place(w, c, t).desk
           /\ ~(Modes!Full(w) /\ w.was) => ~Modes!Place(w, c, t).desk
<1> DEFINE a == Modes!Place(w, c, t)
<1>t. w.box \in Boxes /\ w.was \in BOOLEAN BY DEF Wins
<1>1. w.box.at \in Int /\ None \notin Int BY <1>t, CameraAssumption DEF Boxes
<1>2. \E d \in BOOLEAN, b \in Boxes :
        /\ a.mode = w.mode /\ a.tiled = w.tiled /\ a.was = w.was /\ a.back = w.back /\ a.home = w.home
        /\ a.last = w.last /\ a.pre = w.pre /\ a.desk = d /\ a.locked = w.locked /\ a.flo = w.flo /\ a.box = b
        /\ Whole(a)
        /\ ~(Modes!Full(w) /\ w.was) => b = w.box /\ d = FALSE
        /\ Modes!Full(w) /\ w.was /\ t = None /\ ~wOverview /\ ~yields => b.at = c /\ d = FALSE
  <2>1. CASE ~(Modes!Full(w) /\ w.was) \/ t = w.box.at \/ wOverview \/ yields
    <3>1. PICK d \in BOOLEAN : a = [w EXCEPT !.desk = d] /\ (~(Modes!Full(w) /\ w.was) => d = FALSE)
      BY <2>1 DEF Modes!Place
    <3>2. /\ a.mode = w.mode /\ a.tiled = w.tiled /\ a.was = w.was /\ a.back = w.back /\ a.home = w.home
          /\ a.last = w.last /\ a.pre = w.pre /\ a.desk = d /\ a.locked = w.locked /\ a.flo = w.flo /\ a.box = w.box
          /\ Whole(a)
      BY <3>1 DEF Wins, Whole
    <3>3. ~(Modes!Full(w) /\ w.was /\ t = None /\ ~wOverview /\ ~yields) BY <1>1, <2>1
    <3> QED BY <1>t, <3>1, <3>2, <3>3
  <2>2. CASE ~(~(Modes!Full(w) /\ w.was) \/ t = w.box.at \/ wOverview \/ yields)
    <3>1. a = [w EXCEPT !.desk = FALSE, !.box.at = c] BY <2>2 DEF Modes!Place
    <3> DEFINE b == [at |-> c, size |-> w.box.size]
    <3>2. b \in Boxes /\ b.at = c BY <1>t DEF Boxes
    <3>3. [w.box EXCEPT !.at = c] = b BY <1>t DEF Boxes
    <3>4. /\ a.mode = w.mode /\ a.tiled = w.tiled /\ a.was = w.was /\ a.back = w.back /\ a.home = w.home
          /\ a.last = w.last /\ a.pre = w.pre /\ a.desk = FALSE /\ a.locked = w.locked /\ a.flo = w.flo
          /\ a.box = [w.box EXCEPT !.at = c]
          /\ Whole(a)
      BY <3>1 DEF Wins, Whole
    <3>5. a.box = b BY <3>3, <3>4
    <3> HIDE DEF a, b
    <3> QED BY <2>2, <3>2, <3>4, <3>5
  <2> QED BY <2>1, <2>2
<1> HIDE DEF a
<1>3. PICK d \in BOOLEAN, b \in Boxes :
        /\ a.mode = w.mode /\ a.tiled = w.tiled /\ a.was = w.was /\ a.back = w.back /\ a.home = w.home
        /\ a.last = w.last /\ a.pre = w.pre /\ a.desk = d /\ a.locked = w.locked /\ a.flo = w.flo /\ a.box = b
        /\ Whole(a)
        /\ ~(Modes!Full(w) /\ w.was) => b = w.box /\ d = FALSE
        /\ Modes!Full(w) /\ w.was /\ t = None /\ ~wOverview /\ ~yields => b.at = c /\ d = FALSE
  BY <1>2
<1>4. a \in Wins BY <1>3 DEF Wins, Whole
<1>5. Modes!Full(a) <=> Modes!Full(w) BY <1>3 DEF Modes!Full
<1>6. Kept(w, p) => Kept(a, p) BY <1>3, <1>5, <1>t DEF Kept
<1> QED BY <1>3, <1>4, <1>5, <1>6 DEF a

\* A pass ends with the window at home or on the screen: its home is what it leaves for that.
LEMMA FinishedFits ==
    ASSUME NEW w \in Wins, NEW p \in Boxes, wPan \in Int
    PROVE  /\ Modes!Finish(w) \in Wins
           /\ Modes!Full(Modes!Finish(w)) <=> Modes!Full(w)
           /\ Kept(w, p) => Kept(Modes!Finish(w), p)
           /\ Modes!Enters(w) => /\ Modes!Finish(w).was /\ Modes!Finish(w).back = None /\ Modes!Finish(w).desk = w.desk
                                 /\ Modes!Finish(w).box.at = (IF w.back # None THEN w.back ELSE wPan)
           /\ Modes!Leaves(w) => ~Modes!Finish(w).was /\ Modes!Finish(w).back = w.back
           /\ ~Modes!Enters(w) /\ ~Modes!Leaves(w) => Modes!Finish(w) = w
<1> DEFINE a == Modes!Finish(w)
           e == IF w.back # None THEN w.back ELSE wPan
<1>t. /\ w.box \in Boxes /\ w.home \in Boxes /\ {w.was, w.tiled} \subseteq BOOLEAN
      /\ w.back \in Int \cup {None}
  BY DEF Wins
<1>1. ASSUME Modes!Enters(w)
      PROVE  /\ a \in Wins /\ (Modes!Full(a) <=> Modes!Full(w)) /\ (Kept(w, p) => Kept(a, p))
             /\ a.was /\ a.back = None /\ a.box.at = e /\ a.desk = w.desk
  <2>1. Modes!Full(w) /\ ~w.was BY <1>1 DEF Modes!Enters
  <2>2. a = [w EXCEPT !.home = w.box, !.was = TRUE, !.back = None, !.box.at = e]
    BY <1>1 DEF Modes!Finish, Modes!HomeOf, Modes!EntersAt
  <2> DEFINE b == [at |-> e, size |-> w.box.size]
  <2>3. e \in Int BY <1>t
  <2> HIDE DEF e
  <2>4. b \in Boxes /\ b.at = e BY <1>t, <2>3 DEF Boxes
  <2>5. [w.box EXCEPT !.at = e] = b BY <1>t DEF Boxes
  <2>6. /\ a.mode = w.mode /\ a.tiled = w.tiled /\ a.was = TRUE /\ a.back = None /\ a.home = w.box
        /\ a.last = w.last /\ a.pre = w.pre /\ a.desk = w.desk /\ a.locked = w.locked /\ a.flo = w.flo
        /\ a.box = [w.box EXCEPT !.at = e]
        /\ Whole(a)
    BY <2>2 DEF Wins, Whole
  <2>7. a.box = b BY <2>5, <2>6
  <2> HIDE DEF a, b
  <2>8. a \in Wins BY <1>t, <2>4, <2>6, <2>7 DEF Wins, Whole
  <2>9. Modes!Full(a) <=> Modes!Full(w) BY <2>6 DEF Modes!Full
  <2>10. ASSUME Kept(w, p) PROVE Kept(a, p)
    <3>1. LivesAt(w.box, p) /\ (w.tiled => LivesAt(w.flo, p)) BY <2>1, <2>10 DEF Kept
    <3>2. w.mode # "tiled" BY <2>1 DEF Modes!Full
    <3> QED BY <2>6, <2>9, <2>10, <3>1, <3>2 DEF Kept
  <2> QED BY <2>4, <2>6, <2>7, <2>8, <2>9, <2>10
<1>2. ASSUME ~Modes!Enters(w), Modes!Leaves(w)
      PROVE  /\ a \in Wins /\ (Modes!Full(a) <=> Modes!Full(w)) /\ (Kept(w, p) => Kept(a, p))
             /\ ~a.was /\ a.back = w.back
  <2>1. w.was BY <1>2 DEF Modes!Leaves
  <2>2. a = [w EXCEPT !.last = w.box.at, !.box = w.home, !.was = FALSE] BY <1>2 DEF Modes!Finish
  <2>3. /\ a.mode = w.mode /\ a.tiled = w.tiled /\ a.was = FALSE /\ a.back = w.back /\ a.home = w.home
        /\ a.last = w.box.at /\ a.pre = w.pre /\ a.desk = w.desk /\ a.locked = w.locked /\ a.flo = w.flo
        /\ a.box = w.home
        /\ Whole(a)
    BY <2>2 DEF Wins, Whole
  <2> HIDE DEF a
  <2>4. w.box.at \in Int BY <1>t DEF Boxes
  <2>5. a \in Wins BY <1>t, <2>3, <2>4 DEF Wins, Whole
  <2>6. Modes!Full(a) <=> Modes!Full(w) BY <2>3 DEF Modes!Full
  <2>7. ASSUME Kept(w, p) PROVE Kept(a, p)
    <3>1. LivesAt(w.home, p) BY <2>1, <2>7 DEF Kept
    <3> QED BY <2>3, <2>6, <2>7, <3>1 DEF Kept
  <2> QED BY <2>3, <2>5, <2>6, <2>7
<1>3. Modes!Enters(w) => ~Modes!Leaves(w) BY DEF Modes!Enters, Modes!Leaves
<1>4. ~Modes!Enters(w) /\ ~Modes!Leaves(w) => a = w BY DEF Modes!Finish
<1> HIDE DEF a
<1> QED BY <1>1, <1>2, <1>3, <1>4 DEF a

\* Born or born again, a window is at its place.
LEMMA FreshFits ==
    ASSUME NEW w, NEW m \in {"floating", "tiled", "fullscreen"}, NEW b \in Boxes,
           NEW r \in Int \cup {None}, \E l \in BOOLEAN : w = Modes!Fresh(m, l, b, r)
    PROVE  w \in Wins /\ Kept(w, b) /\ ~w.was /\ w.back = r /\ w.mode = m
<1>l. PICK l \in BOOLEAN : w = Modes!Fresh(m, l, b, r) OBVIOUS
<1>1. w = [mode |-> m, locked |-> l, pre |-> None, box |-> b, tiled |-> FALSE, flo |-> [at |-> 0, size |-> 0],
           was |-> FALSE, home |-> [at |-> 0, size |-> 0], back |-> r, last |-> None, desk |-> FALSE]
  BY <1>l DEF Modes!Fresh, Modes!Zeros
<1>2. [at |-> 0, size |-> 0] \in Boxes BY DEF Boxes
<1>3. /\ w.mode = m /\ w.pre = None /\ w.box = b /\ w.tiled = FALSE /\ w.was = FALSE /\ w.back = r
  BY <1>1
<1>4. w \in Wins BY <1>1, <1>2 DEF Wins
<1>5. Kept(w, b) BY <1>3 DEF Kept, LivesAt
<1> QED BY <1>3, <1>4, <1>5

\* A desk starts with its window at home.
LEMMA ModesInit == ASSUME Modes!Init PROVE ModesInv
<1>1. Home \in Boxes /\ ModeEvents \in Nat /\ Pans \subseteq Int BY ModesAssumption DEF Boxes
<1>2. /\ wWin = Modes!Fresh("floating", FALSE, Home, None) /\ wPan \in Pans /\ wTarget = None
      /\ wOverview = FALSE /\ yields = FALSE /\ up = TRUE /\ wDirty = TRUE /\ filling = FALSE
      /\ place = Home /\ spot = None /\ spoiled = FALSE /\ wEvents = 0
  BY DEF Modes!Init
<1>3. "floating" \in {"floating", "tiled", "fullscreen"} /\ FALSE \in BOOLEAN /\ None \in Int \cup {None} OBVIOUS
<1>4. wWin \in Wins /\ Kept(wWin, Home) /\ ~wWin.was /\ wWin.back = None /\ wWin.mode = "floating"
  <2>1. PICK f \in BOOLEAN : f = FALSE OBVIOUS
  <2>2. \E l \in BOOLEAN : wWin = Modes!Fresh("floating", l, Home, None) BY <1>2, <2>1
  <2> QED BY <1>1, <1>3, <2>2, FreshFits
<1>5. ~Modes!Full(wWin) BY <1>4 DEF Modes!Full
<1>6. spoiled \/ Kept(wWin, place) BY <1>2, <1>4
<1>7. Covers /\ Reopens BY <1>2 DEF Covers, Reopens
<1>8. wTarget \in Int \cup {None} /\ wPan \in Int /\ wEvents \in 0..ModeEvents BY <1>1, <1>2
<1> QED BY <1>1, <1>2, <1>4, <1>5, <1>6, <1>7, <1>8 DEF ModesInv

\* What a pass makes of the window, and with it of the camera's way, keeps the invariant.
LEMMA ModesPass == ASSUME ModesInv, Modes!Pass PROVE ModesInv'
<1> DEFINE w == IF up THEN Modes!Place(Modes!Arrange(wWin), wPan, wTarget) ELSE wWin
           a == Modes!Finish(w)
<1>t. /\ wWin \in Wins /\ place \in Boxes /\ wPan \in Int /\ wTarget \in Int \cup {None}
      /\ {wOverview, yields, up, wDirty, filling, spoiled} \subseteq BOOLEAN /\ wEvents \in 0..ModeEvents
      /\ (wWin.back # None => ~wWin.was) /\ (spoiled \/ Kept(wWin, place)) /\ Reopens
  BY DEF ModesInv
<1>a. /\ wWin' = a /\ wTarget' = Modes!Target(w) /\ filling' = Modes!Enters(w) /\ wDirty' = Modes!Leaves(w)
      /\ wPan' = wPan /\ wOverview' = wOverview /\ yields' = yields /\ up' = up /\ place' = place
      /\ spot' = spot /\ spoiled' = spoiled /\ wEvents' = wEvents
  BY DEF Modes!Pass
<1>1. /\ w \in Wins /\ w.was = wWin.was /\ w.back = wWin.back /\ (Kept(wWin, place) => Kept(w, place))
      /\ (up /\ Modes!Full(w) /\ w.was /\ wTarget = None /\ ~wOverview /\ ~yields => w.box.at = wPan /\ ~w.desk)
      /\ (up /\ ~w.was => ~w.desk)
  <2>1. CASE up
    <3> DEFINE g == Modes!Arrange(wWin)
    <3>1. /\ g \in Wins /\ g.was = wWin.was /\ g.back = wWin.back /\ (Kept(wWin, place) => Kept(g, place))
      BY <1>t, ArrangedFits
    <3> HIDE DEF g
    <3>2. w = Modes!Place(g, wPan, wTarget) BY <2>1 DEF g
    <3> DEFINE h == Modes!Place(g, wPan, wTarget)
    <3>3. /\ h \in Wins /\ h.was = g.was /\ h.back = g.back /\ (Modes!Full(h) <=> Modes!Full(g))
          /\ (Kept(g, place) => Kept(h, place))
          /\ (Modes!Full(g) /\ g.was /\ wTarget = None /\ ~wOverview /\ ~yields => h.box.at = wPan /\ ~h.desk)
          /\ (~(Modes!Full(g) /\ g.was) => ~h.desk)
      BY <1>t, <3>1, PlacedFits
    <3>4. w = h BY <3>2
    <3> HIDE DEF w, h
    <3>5. /\ h \in Wins /\ h.was = wWin.was /\ h.back = wWin.back /\ (Kept(wWin, place) => Kept(h, place))
          /\ (up /\ Modes!Full(h) /\ h.was /\ wTarget = None /\ ~wOverview /\ ~yields => h.box.at = wPan /\ ~h.desk)
          /\ (up /\ ~h.was => ~h.desk)
      BY <3>1, <3>3
    <3> QED BY <3>4, <3>5
  <2>2. CASE ~up BY <1>t, <2>2
  <2> QED BY <1>t, <2>1, <2>2
<1> HIDE DEF w
<1>2. /\ a \in Wins /\ (Modes!Full(a) <=> Modes!Full(w)) /\ (Kept(w, place) => Kept(a, place))
      /\ (Modes!Enters(w) => /\ a.was /\ a.back = None /\ a.desk = w.desk
                             /\ a.box.at = (IF w.back # None THEN w.back ELSE wPan))
      /\ (Modes!Leaves(w) => ~a.was /\ a.back = w.back)
      /\ (~Modes!Enters(w) /\ ~Modes!Leaves(w) => a = w)
  BY <1>t, <1>1, FinishedFits
<1> HIDE DEF a
<1>3. /\ (Modes!Enters(w) <=> Modes!Full(w) /\ up /\ ~w.was)
      /\ (Modes!Leaves(w) <=> ~(Modes!Full(w) /\ up) /\ w.was)
  BY DEF Modes!Enters, Modes!Leaves
<1>b. {w.was, a.was, w.desk, a.desk} \subseteq BOOLEAN /\ w.back \in Int \cup {None} BY <1>1, <1>2 DEF Wins
<1>4. wTarget' = IF Modes!Enters(w) /\ w.back # None /\ ~wOverview /\ ~yields /\ wPan # w.back
                 THEN w.back ELSE wTarget
  BY <1>a DEF Modes!Target
<1>5. wTarget' \in Int \cup {None} BY <1>t, <1>b, <1>4
<1>6. {filling', wDirty'} \subseteq BOOLEAN BY <1>a DEF Modes!Enters, Modes!Leaves
<1>7. filling' => a.was BY <1>a, <1>2
<1>8. a.back # None => ~a.was BY <1>t, <1>1, <1>2
<1>9. up /\ Modes!Full(a) /\ ~a.was => wDirty' BY <1>a, <1>1, <1>2, <1>3
<1>10. spoiled \/ Kept(a, place) BY <1>t, <1>1, <1>2
<1>11. ~wDirty' /\ wTarget' = None /\ up /\ Modes!Full(a) /\ a.was /\ ~wOverview /\ ~yields => a.box.at = wPan /\ ~a.desk
  <2> HAVE ~wDirty' /\ wTarget' = None /\ up /\ Modes!Full(a) /\ a.was /\ ~wOverview /\ ~yields
  <2>1. Modes!Full(w) /\ ~Modes!Leaves(w) BY <1>a, <1>2
  <2>2. CASE Modes!Enters(w)
    <3>1. w.back = None \/ wPan = w.back BY <1>4, <1>b, <2>2, CameraAssumption
    <3>2. a.box.at = wPan BY <1>2, <2>2, <3>1
    <3>3. ~w.desk /\ a.desk = w.desk BY <1>1, <1>2, <1>3, <2>2
    <3>4. ~a.desk BY <3>3
    <3> QED BY <3>2, <3>4
  <2>3. CASE ~Modes!Enters(w)
    <3>1. a = w /\ w.was /\ wTarget = None BY <1>2, <1>3, <1>4, <2>1, <2>3
    <3> QED BY <1>1, <2>1, <3>1
  <2> QED BY <2>2, <2>3
<1>12. spot # None => /\ up /\ ~wOverview /\ ~yields /\ spot \in Int
                      /\ IF a.back # None THEN a.back = spot /\ wTarget' = None
                         ELSE wTarget' = spot \/ (wTarget' = None /\ wPan = spot)
  <2> HAVE spot # None
  <2>1. /\ up /\ ~wOverview /\ ~yields /\ spot \in Int
        /\ IF w.back # None THEN w.back = spot /\ wTarget = None
           ELSE wTarget = spot \/ (wTarget = None /\ wPan = spot)
    BY <1>t, <1>1 DEF Reopens
  <2>2. CASE Modes!Enters(w) BY <1>2, <1>4, <2>1, <2>2
  <2>3. CASE ~Modes!Enters(w)
    <3>1. a.back = w.back /\ wTarget' = wTarget BY <1>2, <1>4, <2>3
    <3> QED BY <2>1, <3>1
  <2> QED BY <2>2, <2>3
<1>13. Covers' BY <1>a, <1>11 DEF Covers, Modes!Full
<1>14. Reopens' BY <1>a, <1>12 DEF Reopens
<1>15. (up /\ Modes!Full(wWin) /\ ~wWin.was => wDirty)' BY <1>a, <1>9 DEF Modes!Full
<1>16. (spoiled \/ Kept(wWin, place))' BY <1>a, <1>10 DEF Kept, LivesAt, Modes!Full, Modes!Cells
<1>17. {wOverview, yields, up, wDirty, filling, spoiled}' \subseteq BOOLEAN BY <1>a, <1>t, <1>6
<1> QED BY <1>a, <1>t, <1>2, <1>5, <1>7, <1>8, <1>13, <1>14, <1>15, <1>16, <1>17 DEF ModesInv, Wins, Boxes

\* The answer to a fullscreen configure changes a size on the screen and no home.
LEMMA ModesAnswer == ASSUME ModesInv, Modes!Answer PROVE ModesInv'
<1>t. /\ wWin \in Wins /\ place \in Boxes /\ wPan \in Int /\ wTarget \in Int \cup {None}
      /\ {wOverview, yields, up, wDirty, filling, spoiled} \subseteq BOOLEAN /\ wEvents \in 0..ModeEvents
      /\ wWin.was /\ (wWin.back # None => ~wWin.was) /\ (up /\ Modes!Full(wWin) /\ ~wWin.was => wDirty)
      /\ (spoiled \/ Kept(wWin, place)) /\ Covers /\ Reopens
  BY DEF ModesInv, Modes!Answer
<1>a. /\ wWin' = [wWin EXCEPT !.box.size = OutputSize] /\ filling' = FALSE
      /\ wTarget' = wTarget /\ wDirty' = wDirty /\ wPan' = wPan /\ wOverview' = wOverview /\ yields' = yields
      /\ up' = up /\ place' = place /\ spot' = spot /\ spoiled' = spoiled /\ wEvents' = wEvents
  BY DEF Modes!Answer, Modes!scene
<1> DEFINE a == wWin'
           b == [at |-> wWin.box.at, size |-> OutputSize]
<1>1. wWin.box \in Boxes BY <1>t DEF Wins
<1>2. b \in Boxes /\ b.at = wWin.box.at BY <1>1, ModesAssumption DEF Boxes
<1>3. [wWin.box EXCEPT !.size = OutputSize] = b BY <1>1 DEF Boxes
<1>4. /\ a.mode = wWin.mode /\ a.tiled = wWin.tiled /\ a.was = wWin.was /\ a.back = wWin.back /\ a.home = wWin.home
      /\ a.last = wWin.last /\ a.pre = wWin.pre /\ a.desk = wWin.desk /\ a.locked = wWin.locked /\ a.flo = wWin.flo
      /\ a.box = [wWin.box EXCEPT !.size = OutputSize]
      /\ Whole(a)
  BY <1>t, <1>a DEF Wins, Whole
<1>5. a.box = b BY <1>3, <1>4
<1> HIDE DEF b
<1>6. a \in Wins BY <1>t, <1>2, <1>4, <1>5 DEF Wins, Whole
<1>7. Kept(wWin, place) => Kept(a, place) BY <1>t, <1>4 DEF Kept, Modes!Full
<1>8. Covers' BY <1>a, <1>t, <1>2, <1>4, <1>5 DEF Covers, Modes!Full
<1>9. Reopens' BY <1>a, <1>t, <1>4 DEF Reopens
<1>10. (spoiled \/ Kept(wWin, place))' BY <1>a, <1>t, <1>7 DEF Kept, LivesAt, Modes!Full, Modes!Cells
<1>11. (up /\ Modes!Full(wWin) /\ ~wWin.was => wDirty)' BY <1>t, <1>4
<1>12. (wWin.back # None => ~wWin.was)' BY <1>t, <1>4
<1>13. {wOverview, yields, up, wDirty, filling, spoiled}' \subseteq BOOLEAN BY <1>a, <1>t
<1>14. (filling => wWin.was)' BY <1>a
<1> QED BY <1>a, <1>t, <1>6, <1>8, <1>9, <1>10, <1>11, <1>12, <1>13, <1>14 DEF ModesInv, Wins, Boxes

\* A window that only the camera moved for is laid out where the camera is.
LEMMA ModesRelays ==
    ASSUME ModesInv, NEW c \in Int, NEW t \in Int \cup {None}, Modes!Relays(c, t),
           wPan' = c, wTarget' = t, Reopens', wEvents' \in 0..ModeEvents,
           UNCHANGED <<wOverview, yields, up, filling, place, spoiled>>
    PROVE  ModesInv'
<1> DEFINE a == IF up /\ ~filling THEN Modes!Place(Modes!Arrange(wWin), c, t) ELSE wWin
<1>t. /\ wWin \in Wins /\ place \in Boxes
      /\ {wOverview, yields, up, wDirty, filling, spoiled} \subseteq BOOLEAN
      /\ (wWin.back # None => ~wWin.was) /\ (up /\ Modes!Full(wWin) /\ ~wWin.was => wDirty)
      /\ (filling => wWin.was) /\ (spoiled \/ Kept(wWin, place))
  BY DEF ModesInv
<1>a. wWin' = a /\ wDirty' = (wDirty \/ filling) BY DEF Modes!Relays
<1>1. /\ a \in Wins /\ a.was = wWin.was /\ a.back = wWin.back /\ (Kept(wWin, place) => Kept(a, place))
      /\ (Modes!Full(a) => Modes!Full(wWin))
      /\ (up /\ ~filling /\ Modes!Full(a) /\ a.was /\ t = None /\ ~wOverview /\ ~yields => a.box.at = c /\ ~a.desk)
  <2>1. CASE up /\ ~filling
    <3> DEFINE g == Modes!Arrange(wWin)
    <3>1. /\ g \in Wins /\ g.was = wWin.was /\ g.back = wWin.back /\ (Kept(wWin, place) => Kept(g, place))
          /\ (Modes!Full(g) => Modes!Full(wWin))
      BY <1>t, ArrangedFits
    <3> HIDE DEF g
    <3> DEFINE h == Modes!Place(g, c, t)
    <3>2. a = h BY <2>1 DEF g
    <3>3. /\ h \in Wins /\ h.was = g.was /\ h.back = g.back /\ (Modes!Full(h) <=> Modes!Full(g))
          /\ (Kept(g, place) => Kept(h, place))
          /\ (Modes!Full(g) /\ g.was /\ t = None /\ ~wOverview /\ ~yields => h.box.at = c /\ ~h.desk)
      BY <1>t, <3>1, PlacedFits
    <3> HIDE DEF a, h
    <3>4. /\ h \in Wins /\ h.was = wWin.was /\ h.back = wWin.back /\ (Kept(wWin, place) => Kept(h, place))
          /\ (Modes!Full(h) => Modes!Full(wWin))
          /\ (up /\ ~filling /\ Modes!Full(h) /\ h.was /\ t = None /\ ~wOverview /\ ~yields => h.box.at = c /\ ~h.desk)
      BY <3>1, <3>3
    <3> QED BY <3>2, <3>4
  <2>2. CASE ~(up /\ ~filling) BY <1>t, <2>2
  <2> QED BY <2>1, <2>2
<1> HIDE DEF a
<1>2. Covers'
  <2> SUFFICES ASSUME ~wDirty', t = None, up, Modes!Full(a), a.was, ~wOverview, ~yields
               PROVE  a.box.at = c /\ ~a.desk
    BY <1>a DEF Covers, Modes!Full
  <2>1. ~filling BY <1>a, <1>t
  <2> QED BY <1>1, <2>1
<1>3. (spoiled \/ Kept(wWin, place))' BY <1>a, <1>t, <1>1 DEF Kept, LivesAt, Modes!Full, Modes!Cells
<1>4. (up /\ Modes!Full(wWin) /\ ~wWin.was => wDirty)' BY <1>a, <1>t, <1>1 DEF Modes!Full
<1>5. {wOverview, yields, up, wDirty, filling, spoiled}' \subseteq BOOLEAN
  <2>1. wDirty' \in BOOLEAN BY <1>a, <1>t
  <2> QED BY <1>t, <2>1
<1>6. (filling => wWin.was)' /\ (wWin.back # None => ~wWin.was)' BY <1>a, <1>t, <1>1
<1> QED BY <1>a, <1>t, <1>1, <1>2, <1>3, <1>4, <1>5, <1>6 DEF ModesInv, Wins, Boxes

\* The camera eases on.
LEMMA ModesEase == ASSUME ModesInv, Modes!Ease PROVE ModesInv'
<1>t. wPan \in Int /\ wTarget \in Int \cup {None} /\ wEvents \in 0..ModeEvents /\ Reopens BY DEF ModesInv
<1>a. /\ wTarget # None
      /\ wPan' = IF wPan < wTarget THEN wPan + 1 ELSE IF wPan > wTarget THEN wPan - 1 ELSE wPan
      /\ wTarget' = IF wPan' = wTarget THEN None ELSE wTarget
      /\ Modes!Relays(wPan', wTarget')
      /\ UNCHANGED <<wOverview, yields, up, filling, place, spot, spoiled, wEvents>>
  BY DEF Modes!Ease
<1>1. wPan' \in Int /\ wTarget' \in Int \cup {None} BY <1>t, <1>a
<1>2. wWin'.back = wWin.back
  <2>1. wWin \in Wins BY DEF ModesInv
  <2>2. wWin' = IF up /\ ~filling THEN Modes!Place(Modes!Arrange(wWin), wPan', wTarget') ELSE wWin
    BY <1>a DEF Modes!Relays
  <2> DEFINE g == Modes!Arrange(wWin)
             h == Modes!Place(g, wPan', wTarget')
  <2>3. g \in Wins /\ g.back = wWin.back
    <3>1. place \in Boxes BY DEF ModesInv
    <3> QED BY <2>1, <3>1, ArrangedFits
  <2>4. wWin' = h \/ wWin' = wWin BY <2>2
  <2> HIDE DEF g
  <2>5. h.back = g.back
    <3>1. place \in Boxes BY DEF ModesInv
    <3> QED BY <1>1, <2>3, <3>1, PlacedFits
  <2> HIDE DEF h
  <2> QED BY <2>3, <2>4, <2>5
<1>3. Reopens'
  <2> SUFFICES ASSUME spot # None
               PROVE  /\ up /\ ~wOverview /\ ~yields /\ spot \in Int
                      /\ IF wWin'.back # None THEN wWin'.back = spot /\ wTarget' = None
                         ELSE wTarget' = spot \/ (wTarget' = None /\ wPan' = spot)
    BY <1>a DEF Reopens
  <2>1. wWin.back = None /\ wTarget = spot BY <1>t, <1>a DEF Reopens
  <2> QED BY <1>t, <1>a, <1>2, <2>1 DEF Reopens
<1>4. wEvents' \in 0..ModeEvents BY <1>t, <1>a
<1> DEFINE c == wPan'
           t == wTarget'
<1>5. /\ c \in Int /\ t \in Int \cup {None} /\ Modes!Relays(c, t) /\ wPan' = c /\ wTarget' = t
      /\ UNCHANGED <<wOverview, yields, up, filling, place, spoiled>>
  BY <1>1, <1>a
<1> HIDE DEF c, t
<1> QED BY <1>3, <1>4, <1>5, ModesRelays

\* The user pans.
LEMMA ModesUserPan == ASSUME ModesInv, NEW c \in Pans, Modes!UserPan(c) PROVE ModesInv'
<1>1. /\ Modes!Relays(c, None) /\ wPan' = c /\ wTarget' = None /\ spot' = None
      /\ UNCHANGED <<wOverview, yields, up, filling, place, spoiled>>
      /\ wEvents < ModeEvents /\ wEvents' = wEvents + 1
  BY DEF Modes!UserPan, Modes!Event
<1>2. wEvents' \in 0..ModeEvents
  <2>1. wEvents \in 0..ModeEvents /\ ModeEvents \in Nat BY ModesAssumption DEF ModesInv
  <2> QED BY <1>1, <2>1
<1>3. c \in Int /\ None \in Int \cup {None} BY ModesAssumption
<1>4. Reopens' BY <1>1 DEF Reopens
<1> QED BY <1>1, <1>2, <1>3, <1>4, ModesRelays

\* What leaves the window as it is, and only asks for a pass, keeps its home.
LEMMA ModesQuiet ==
    ASSUME ModesInv, UNCHANGED <<wWin, wPan, filling, place, spoiled>>, spot' = None,
           wTarget' \in Int \cup {None}, {wOverview, yields, up, wDirty}' \subseteq BOOLEAN,
           wDirty => wDirty', wDirty' \/ (up' = up /\ ~Modes!Full(wWin)), wEvents' \in 0..ModeEvents
    PROVE  ModesInv'
<1>t. /\ wWin \in Wins /\ place \in Boxes /\ wPan \in Int /\ {filling, spoiled} \subseteq BOOLEAN
      /\ (wWin.back # None => ~wWin.was) /\ (up /\ Modes!Full(wWin) /\ ~wWin.was => wDirty)
      /\ (filling => wWin.was) /\ (spoiled \/ Kept(wWin, place))
  BY DEF ModesInv
<1>1. Covers' BY <1>t DEF Covers, Modes!Full
<1>2. Reopens' BY DEF Reopens
<1>3. (spoiled \/ Kept(wWin, place))' BY <1>t DEF Kept, LivesAt, Modes!Full, Modes!Cells
<1>4. (up /\ Modes!Full(wWin) /\ ~wWin.was => wDirty)' BY <1>t DEF Modes!Full
<1>5. {wOverview, yields, up, wDirty, filling, spoiled}' \subseteq BOOLEAN BY <1>t
<1> QED BY <1>t, <1>1, <1>2, <1>3, <1>4, <1>5 DEF ModesInv, Wins, Boxes

\* One more event is within the bound.
LEMMA ModesEvent == ASSUME ModesInv, Modes!Event PROVE wEvents' \in 0..ModeEvents
<1>1. wEvents \in 0..ModeEvents /\ ModeEvents \in Nat BY ModesAssumption DEF ModesInv
<1>2. wEvents < ModeEvents /\ wEvents' = wEvents + 1 BY DEF Modes!Event
<1> QED BY <1>1, <1>2

\* The focus, the overview and the output change around the window.
LEMMA ModesScene ==
    ASSUME ModesInv, Modes!Refocus \/ Modes!Overview \/ Modes!OutputChanges PROVE ModesInv'
<1>t. /\ wWin \in Wins /\ wTarget \in Int \cup {None} /\ {wOverview, yields, up, wDirty} \subseteq BOOLEAN
  BY DEF ModesInv
<1>b. wWin.box.at \in Int BY <1>t DEF Wins, Boxes
<1>1. wEvents' \in 0..ModeEvents
  BY ModesEvent DEF Modes!Refocus, Modes!Overview, Modes!OutputChanges
<1>2. CASE Modes!Refocus
  <2>1. /\ UNCHANGED <<wWin, wPan, filling, place, spoiled, wOverview, up>> /\ spot' = None /\ wDirty' = TRUE
        /\ yields' = ~yields
        /\ wTarget' = IF yields /\ Modes!Full(wWin) /\ wWin.was /\ ~wOverview /\ wPan # wWin.box.at
                      THEN wWin.box.at ELSE IF yields THEN wTarget ELSE None
    BY <1>2 DEF Modes!Refocus
  <2>2. wTarget' \in Int \cup {None} BY <1>t, <1>b, <2>1
  <2>3. {wOverview, yields, up, wDirty}' \subseteq BOOLEAN BY <1>t, <2>1
  <2> QED BY <1>1, <2>1, <2>2, <2>3, ModesQuiet
<1>3. CASE Modes!Overview
  <2>1. /\ UNCHANGED <<wWin, wPan, filling, place, spoiled, yields, up>> /\ spot' = None /\ wTarget' = None
        /\ wOverview' = ~wOverview /\ wDirty' = (wDirty \/ Modes!Full(wWin))
    BY <1>3 DEF Modes!Overview
  <2>2. wTarget' \in Int \cup {None} BY <2>1
  <2>3. {wOverview, yields, up, wDirty}' \subseteq BOOLEAN
    <3>1. wDirty' \in BOOLEAN BY <2>1
    <3> QED BY <1>t, <2>1, <3>1
  <2>4. (wDirty => wDirty') /\ (wDirty' \/ (up' = up /\ ~Modes!Full(wWin))) BY <1>t, <2>1
  <2> QED BY <1>1, <2>1, <2>2, <2>3, <2>4, ModesQuiet
<1>4. CASE Modes!OutputChanges
  <2>1. /\ UNCHANGED <<wWin, wPan, wTarget, filling, place, spoiled, yields, wOverview>> /\ spot' = None
        /\ up' = ~up /\ wDirty' = TRUE
    BY <1>4 DEF Modes!OutputChanges
  <2>2. wTarget' \in Int \cup {None} BY <1>t, <2>1
  <2>3. {wOverview, yields, up, wDirty}' \subseteq BOOLEAN BY <1>t, <2>1
  <2> QED BY <1>1, <2>1, <2>2, <2>3, ModesQuiet
<1> QED BY <1>2, <1>3, <1>4

\* A request changes fields and no geometry: a pass is to act on it.
LEMMA Requested ==
    ASSUME ModesInv, NEW w \in Wins, Modes!Request(w), w.was = wWin.was, w.back = wWin.back,
           spoiled' \in BOOLEAN, spoiled' \/ Kept(w, place), wEvents' \in 0..ModeEvents
    PROVE  ModesInv'
<1>t. /\ wWin \in Wins /\ place \in Boxes /\ wPan \in Int /\ wTarget \in Int \cup {None}
      /\ {wOverview, yields, up, filling} \subseteq BOOLEAN
      /\ (wWin.back # None => ~wWin.was) /\ (filling => wWin.was) /\ Reopens
  BY DEF ModesInv
<1>a. /\ wWin' = w /\ wDirty' = TRUE /\ spot' = (IF Modes!Full(w) THEN spot ELSE None)
      /\ UNCHANGED <<wPan, wTarget, wOverview, yields, up, filling, place>>
  BY DEF Modes!Request, Modes!scene
<1>1. Covers' BY <1>a DEF Covers
<1>2. Reopens'
  <2>1. spot' = None \/ spot' = spot BY <1>a
  <2> QED BY <1>t, <1>a, <2>1 DEF Reopens
<1>3. (spoiled \/ Kept(wWin, place))' BY <1>a DEF Kept, LivesAt, Modes!Full, Modes!Cells
<1>4. {wOverview, yields, up, wDirty, filling, spoiled}' \subseteq BOOLEAN BY <1>a, <1>t
<1>5. (up /\ Modes!Full(wWin) /\ ~wWin.was => wDirty)' BY <1>a
<1>6. (filling => wWin.was)' /\ (wWin.back # None => ~wWin.was)' BY <1>a, <1>t
<1> QED BY <1>a, <1>t, <1>1, <1>2, <1>3, <1>4, <1>5, <1>6 DEF ModesInv, Wins, Boxes

\* In another mode, a window keeps its home, but where the request spoils its floating geometry.
LEMMA ModedFits ==
    ASSUME NEW w \in Wins, NEW m \in {"floating", "tiled", "fullscreen"}, NEW l \in BOOLEAN, NEW p \in Boxes
    PROVE  /\ Modes!WithMode(w, m, l) \in Wins /\ Modes!WithMode(w, m, l).was = w.was
           /\ Modes!WithMode(w, m, l).back = w.back
           /\ /\ Kept(w, p) /\ ~(m = "tiled" /\ (Modes!Full(w) \/ w.was) /\ ~Modes!Returns(w, m))
              /\ ~(m = "fullscreen" /\ w.mode = "tiled" /\ ~w.tiled)
              => Kept(Modes!WithMode(w, m, l), p)
<1> DEFINE a == Modes!WithMode(w, m, l)
           d == w.tiled \/ Modes!Returns(w, m)
           e == IF m # "fullscreen" THEN None
                ELSE IF Modes!Full(w) THEN w.pre ELSE [mode |-> w.mode, locked |-> w.locked]
<1>t. /\ w.mode \in {"floating", "tiled", "fullscreen"} /\ {w.tiled, w.was, w.locked} \subseteq BOOLEAN
      /\ w.pre \in {None} \cup [mode : {"floating", "tiled"}, locked : BOOLEAN]
  BY DEF Wins
<1>1. a = [w EXCEPT !.mode = m, !.locked = l, !.tiled = d, !.pre = e] BY DEF Modes!WithMode
<1>2. d \in BOOLEAN BY <1>t
<1>3. e \in {None} \cup [mode : {"floating", "tiled"}, locked : BOOLEAN] BY <1>t DEF Modes!Full
<1>4. Modes!Returns(w, m) <=> Modes!Full(w) /\ m = "tiled" /\ w.pre # None /\ w.pre.mode = "tiled"
  BY DEF Modes!Returns
<1>5. d = TRUE <=> w.tiled \/ Modes!Returns(w, m) BY <1>2
<1>6. e # None /\ e.mode = "tiled" /\ m = "fullscreen"
      => IF Modes!Full(w) THEN w.pre # None /\ w.pre.mode = "tiled" ELSE w.mode = "tiled"
  OBVIOUS
<1> HIDE DEF a, d, e
<1>7. /\ a.mode = m /\ a.tiled = d /\ a.was = w.was /\ a.back = w.back /\ a.home = w.home
      /\ a.last = w.last /\ a.pre = e /\ a.desk = w.desk /\ a.locked = l /\ a.flo = w.flo /\ a.box = w.box
      /\ Whole(a)
  BY <1>1 DEF Wins, Whole
<1>8. a \in Wins BY <1>2, <1>3, <1>7 DEF Wins, Whole
<1>9. ASSUME Kept(w, p), ~(m = "tiled" /\ (Modes!Full(w) \/ w.was) /\ ~Modes!Returns(w, m)),
             ~(m = "fullscreen" /\ w.mode = "tiled" /\ ~w.tiled)
      PROVE  Kept(a, p)
  <2>1. /\ IF w.was THEN LivesAt(w.home, p) ELSE LivesAt(w.box, p)
        /\ w.tiled => LivesAt(w.flo, p)
        /\ Modes!Full(w) /\ w.pre # None /\ w.pre.mode = "tiled" => LivesAt(w.flo, p)
    BY <1>9 DEF Kept
  <2>2. IF a.was THEN LivesAt(a.home, p) ELSE LivesAt(a.box, p) BY <1>7, <2>1
  <2>3. a.tiled => LivesAt(a.flo, p) BY <1>4, <1>5, <1>7, <2>1
  <2>4. Modes!Full(a) /\ a.pre # None /\ a.pre.mode = "tiled" => LivesAt(a.flo, p)
    <3> HAVE Modes!Full(a) /\ a.pre # None /\ a.pre.mode = "tiled"
    <3>1. m = "fullscreen" /\ e # None /\ e.mode = "tiled" BY <1>7 DEF Modes!Full
    <3>2. CASE Modes!Full(w) BY <1>6, <1>7, <2>1, <3>1, <3>2
    <3>3. CASE ~Modes!Full(w)
      <4>1. w.tiled BY <1>6, <1>9, <3>1, <3>3
      <4> QED BY <1>7, <2>1, <4>1
    <3> QED BY <3>2, <3>3
  <2>5. a.was /\ a.mode = "tiled" => a.tiled
    <3> HAVE a.was /\ a.mode = "tiled"
    <3>1. w.was /\ m = "tiled" BY <1>7
    <3>2. Modes!Returns(w, m) BY <1>9, <3>1
    <3> QED BY <1>5, <1>7, <3>2
  <2> QED BY <2>2, <2>3, <2>4, <2>5 DEF Kept
<1> QED BY <1>7, <1>8, <1>9 DEF a

\* The modes a user, a key or a program asks for.
LEMMA ModesRequests ==
    ASSUME ModesInv,
           \/ \E m \in {"floating", "tiled", "fullscreen"} : Modes!SetMode(m)
           \/ Modes!ToggleFullscreen \/ Modes!Maximize \/ Modes!Unmaximize \/ Modes!Unlock
    PROVE  ModesInv'
<1>t. /\ wWin \in Wins /\ place \in Boxes /\ spoiled \in BOOLEAN /\ (spoiled \/ Kept(wWin, place))
  BY DEF ModesInv
<1>f. /\ wWin.mode \in {"floating", "tiled", "fullscreen"} /\ {wWin.tiled, wWin.was, wWin.locked} \subseteq BOOLEAN
      /\ wWin.pre \in {None} \cup [mode : {"floating", "tiled"}, locked : BOOLEAN]
  BY <1>t DEF Wins
<1>e. wEvents' \in 0..ModeEvents
  BY ModesEvent DEF Modes!SetMode, Modes!ToggleFullscreen, Modes!Maximize, Modes!Unmaximize, Modes!Unlock
<1> DEFINE Marks(m) == spoiled \/ (m = "tiled" /\ (Modes!Full(wWin) \/ wWin.was) /\ ~Modes!Returns(wWin, m))
                       \/ (m = "fullscreen" /\ wWin.mode = "tiled" /\ ~wWin.tiled) => spoiled'
<1>m. ASSUME NEW m \in {"floating", "tiled", "fullscreen"}, NEW l \in BOOLEAN,
             Modes!Request(Modes!WithMode(wWin, m, l)), spoiled' \in BOOLEAN,
             Marks(m)
      PROVE  ModesInv'
  <2> DEFINE w == Modes!WithMode(wWin, m, l)
  <2>1. /\ w \in Wins /\ w.was = wWin.was /\ w.back = wWin.back
        /\ /\ Kept(wWin, place) /\ ~(m = "tiled" /\ (Modes!Full(wWin) \/ wWin.was) /\ ~Modes!Returns(wWin, m))
           /\ ~(m = "fullscreen" /\ wWin.mode = "tiled" /\ ~wWin.tiled)
           => Kept(w, place)
    BY <1>t, ModedFits
  <2>2. Modes!Request(w) BY <1>m
  <2> HIDE DEF w
  <2>3. spoiled' \/ Kept(w, place) BY <1>t, <1>m, <2>1
  <2> QED BY <1>e, <1>m, <2>1, <2>2, <2>3, Requested
<1>s. \A m \in {"floating", "tiled", "fullscreen"} :
        Modes!Spoils(m) <=> \/ m = "tiled" /\ (Modes!Full(wWin) \/ wWin.was) /\ ~Modes!Returns(wWin, m)
                            \/ m = "fullscreen" /\ wWin.mode = "tiled" /\ ~wWin.tiled
  BY DEF Modes!Spoils
<1>1. ASSUME NEW m \in {"floating", "tiled", "fullscreen"}, Modes!SetMode(m) PROVE ModesInv'
  <2>1. PICK l \in BOOLEAN : l = TRUE OBVIOUS
  <2>2. Modes!Request(Modes!WithMode(wWin, m, l)) /\ spoiled' = (spoiled \/ Modes!Spoils(m))
    BY <1>1, <2>1 DEF Modes!SetMode
  <2>3. spoiled' \in BOOLEAN BY <2>2
  <2>4. Marks(m)
    BY <1>s, <1>t, <2>2
  <2> QED BY <1>m, <2>2, <2>3, <2>4
<1>2. CASE Modes!ToggleFullscreen
  <2>1. spoiled' = (spoiled \/ (~Modes!Full(wWin) /\ Modes!Spoils("fullscreen")))
    BY <1>2 DEF Modes!ToggleFullscreen
  <2>2. spoiled' \in BOOLEAN BY <2>1
  <2>3. CASE ~Modes!Full(wWin)
    <3>1. PICK l \in BOOLEAN : l = TRUE OBVIOUS
    <3>2. Modes!Request(Modes!WithMode(wWin, "fullscreen", l)) BY <1>2, <2>3, <3>1 DEF Modes!ToggleFullscreen
    <3>3. Marks("fullscreen")
      BY <1>s, <1>t, <2>1, <2>3
    <3>4. "fullscreen" \in {"floating", "tiled", "fullscreen"} OBVIOUS
    <3> QED BY <1>m, <2>2, <3>2, <3>3, <3>4
  <2>4. CASE Modes!Full(wWin) /\ wWin.pre # None
    <3> DEFINE m == wWin.pre.mode
               l == wWin.pre.locked
    <3>1. m \in {"floating", "tiled"} /\ l \in BOOLEAN BY <1>f, <2>4
    <3>2. Modes!Request(Modes!WithMode(wWin, m, l)) BY <1>2, <2>4 DEF Modes!ToggleFullscreen
    <3>3. m = "tiled" => Modes!Returns(wWin, m) BY <2>4 DEF Modes!Returns
    <3> HIDE DEF m, l
    <3>4. Marks(m)
      BY <1>t, <2>1, <3>1, <3>3
    <3> QED BY <1>m, <2>2, <3>1, <3>2, <3>4
  <2>5. CASE Modes!Full(wWin) /\ wWin.pre = None
    <3>1. PICK l \in BOOLEAN : l = FALSE OBVIOUS
    <3>2. Modes!Request(Modes!WithMode(wWin, "floating", l)) BY <1>2, <2>5, <3>1 DEF Modes!ToggleFullscreen
    <3>3. Marks("floating")
      BY <1>t, <2>1
    <3>4. "floating" \in {"floating", "tiled", "fullscreen"} OBVIOUS
    <3> QED BY <1>m, <2>2, <3>2, <3>3, <3>4
  <2> QED BY <2>3, <2>4, <2>5
<1>3. ASSUME NEW w, NEW m \in {"floating", "tiled", "fullscreen"}, NEW l \in BOOLEAN,
             w = [wWin EXCEPT !.mode = m, !.locked = l], Modes!Request(w), spoiled' \in BOOLEAN,
             spoiled => spoiled', spoiled' \/ m # "tiled" \/ (~Modes!Full(wWin) /\ ~wWin.was) \/ m = wWin.mode,
             m = "fullscreen" => m = wWin.mode
      PROVE  ModesInv'
  <2>1. /\ w.mode = m /\ w.tiled = wWin.tiled /\ w.was = wWin.was /\ w.back = wWin.back /\ w.home = wWin.home
        /\ w.last = wWin.last /\ w.pre = wWin.pre /\ w.desk = wWin.desk /\ w.locked = l /\ w.flo = wWin.flo
        /\ w.box = wWin.box
        /\ Whole(w)
    BY <1>3, <1>t DEF Wins, Whole
  <2>2. w \in Wins BY <1>t, <2>1 DEF Wins, Whole
  <2>3. spoiled' \/ Kept(w, place)
    <3> SUFFICES ASSUME ~spoiled' PROVE Kept(w, place) OBVIOUS
    <3>1. Kept(wWin, place) BY <1>t, <1>3
    <3>2. Modes!Full(w) => Modes!Full(wWin) BY <1>3, <2>1 DEF Modes!Full
    <3>3. w.was /\ w.mode = "tiled" => w.tiled BY <1>3, <2>1, <3>1 DEF Kept
    <3> QED BY <2>1, <3>1, <3>2, <3>3 DEF Kept
  <2> QED BY <1>e, <1>3, <2>1, <2>2, <2>3, Requested
<1>4. CASE Modes!Maximize
  <2>1. PICK l \in BOOLEAN : l = TRUE OBVIOUS
  <2> DEFINE w == [wWin EXCEPT !.mode = "tiled", !.locked = l]
  <2>2. Modes!Request(w) /\ spoiled' = (spoiled \/ Modes!Full(wWin) \/ wWin.was) BY <1>4, <2>1 DEF Modes!Maximize
  <2>3. w = [wWin EXCEPT !.mode = "tiled", !.locked = l] /\ "tiled" \in {"floating", "tiled", "fullscreen"} OBVIOUS
  <2> HIDE DEF w
  <2>4. spoiled' \in BOOLEAN /\ (spoiled => spoiled') /\ (spoiled' \/ (~Modes!Full(wWin) /\ ~wWin.was))
    BY <1>t, <1>f, <2>2
  <2> QED BY <1>3, <2>2, <2>3, <2>4
<1>5. CASE Modes!Unmaximize
  <2>1. PICK l \in BOOLEAN : l = TRUE OBVIOUS
  <2> DEFINE w == [wWin EXCEPT !.mode = "floating", !.locked = l]
  <2>2. Modes!Request(w) /\ spoiled' = spoiled BY <1>5, <2>1 DEF Modes!Unmaximize
  <2>3. w = [wWin EXCEPT !.mode = "floating", !.locked = l] /\ "floating" \in {"floating", "tiled", "fullscreen"} OBVIOUS
  <2> HIDE DEF w
  <2> QED BY <1>3, <1>t, <2>2, <2>3
<1>6. CASE Modes!Unlock
  <2>1. PICK l \in BOOLEAN : l = FALSE OBVIOUS
  <2> DEFINE m == wWin.mode
             w == [wWin EXCEPT !.mode = m, !.locked = l]
  <2>2. Modes!Request([wWin EXCEPT !.locked = l]) /\ spoiled' = spoiled BY <1>6, <2>1 DEF Modes!Unlock
  <2>3. [wWin EXCEPT !.locked = l] = w BY <1>t DEF Wins
  <2>4. w = [wWin EXCEPT !.mode = m, !.locked = l] /\ m \in {"floating", "tiled", "fullscreen"} /\ m = wWin.mode
    BY <1>f
  <2> HIDE DEF w, m
  <2> QED BY <1>3, <1>t, <2>2, <2>3, <2>4
<1> QED BY <1>1, <1>2, <1>4, <1>5, <1>6

\* A window that is dragged has its place where it is put.
LEMMA ModesDrag == ASSUME ModesInv, NEW p \in DragSpots, Modes!Drag(p) PROVE ModesInv'
<1> DEFINE b == [at |-> p, size |-> wWin.box.size]
           m == IF Modes!Cells(b) = b THEN "tiled" ELSE "floating"
           l == wWin.locked \/ Modes!Cells(b) = b \/ wWin.mode = "tiled"
           a == wWin'
<1>t. /\ wWin \in Wins /\ wPan \in Int /\ wTarget \in Int \cup {None}
      /\ {wOverview, yields, up, filling, spoiled} \subseteq BOOLEAN
      /\ (wWin.back # None => ~wWin.was) /\ (filling => wWin.was)
  BY DEF ModesInv
<1>e. wEvents' \in 0..ModeEvents BY ModesEvent DEF Modes!Drag
<1>a. /\ ~wWin.was /\ a = [wWin EXCEPT !.box = b, !.tiled = FALSE, !.mode = m, !.locked = l] /\ place' = b
      /\ wDirty' = TRUE /\ spot' = None
      /\ UNCHANGED <<wPan, wTarget, wOverview, yields, up, filling, spoiled>>
  BY DEF Modes!Drag, Modes!scene
<1>1. b \in Boxes /\ m \in {"floating", "tiled"} /\ l \in BOOLEAN
  <2>1. wWin.box.size \in Int /\ p \in Int BY <1>t, ModesAssumption DEF Wins, Boxes
  <2> QED BY <2>1 DEF Boxes
<1> HIDE DEF b, m, l
<1>2. /\ a.mode = m /\ a.tiled = FALSE /\ a.was = wWin.was /\ a.back = wWin.back /\ a.home = wWin.home
      /\ a.last = wWin.last /\ a.pre = wWin.pre /\ a.desk = wWin.desk /\ a.locked = l /\ a.flo = wWin.flo
      /\ a.box = b
      /\ Whole(a)
  BY <1>a, <1>t DEF Wins, Whole
<1>3. a \in Wins BY <1>t, <1>1, <1>2 DEF Wins, Whole
<1>4. ~Modes!Full(a) BY <1>1, <1>2 DEF Modes!Full
<1>5. Kept(a, b) BY <1>a, <1>2, <1>4 DEF Kept, LivesAt
<1>6. Covers' /\ Reopens' BY <1>a DEF Covers, Reopens
<1>7. (spoiled \/ Kept(wWin, place))' BY <1>a, <1>5 DEF Kept, LivesAt, Modes!Full, Modes!Cells
<1>8. {wOverview, yields, up, wDirty, filling, spoiled}' \subseteq BOOLEAN BY <1>a, <1>t
<1>9. (filling => wWin.was)' /\ (wWin.back # None => ~wWin.was)' BY <1>a, <1>t, <1>2
<1> QED BY <1>a, <1>e, <1>t, <1>1, <1>3, <1>6, <1>7, <1>8, <1>9 DEF ModesInv, Wins, Boxes

\* A window closed and opened again is where it is saved, and due where it was fullscreen.
LEMMA ModesRelaunch == ASSUME ModesInv, Modes!Relaunch PROVE ModesInv'
<1> DEFINE b == [at |-> Modes!SavedAt(wWin), size |-> wWin.box.size]
           m == IF wWin.mode = "floating" /\ Modes!Cells(b) = b THEN "tiled" ELSE wWin.mode
           r == Modes!SavedFull(wWin)
           a == wWin'
<1>t. /\ wWin \in Wins /\ wPan \in Int /\ wTarget \in Int \cup {None}
      /\ {wOverview, up, filling, spoiled} \subseteq BOOLEAN
  BY DEF ModesInv
<1>f. /\ wWin.mode \in {"floating", "tiled", "fullscreen"} /\ wWin.box.at \in Int /\ wWin.box.size \in Int
      /\ wWin.home.at \in Int /\ wWin.back \in Int \cup {None} /\ wWin.last \in Int \cup {None} /\ wWin.was \in BOOLEAN
  BY <1>t DEF Wins, Boxes
<1>e. wEvents' \in 0..ModeEvents BY ModesEvent DEF Modes!Relaunch
<1>a. /\ filling = FALSE /\ a = Modes!Fresh(m, m # "floating", b, r) /\ place' = b
      /\ spot' = (IF Modes!Full(wWin) /\ wWin.was /\ up /\ ~wOverview /\ wTarget = None THEN wWin.box.at ELSE None)
      /\ spoiled' = (spoiled \/ wWin.was \/ Modes!Full(wWin)) /\ yields' = FALSE /\ wDirty' = TRUE
      /\ UNCHANGED <<wPan, wTarget, wOverview, up, filling>>
  <2>1. filling \in BOOLEAN BY <1>t
  <2> QED BY <2>1 DEF Modes!Relaunch
<1>1. b \in Boxes /\ m \in {"floating", "tiled", "fullscreen"} /\ r \in Int \cup {None}
  BY <1>f DEF Boxes, Modes!SavedAt, Modes!SavedFull
<1>2. wWin.was => r = wWin.box.at BY DEF Modes!SavedFull
<1> HIDE DEF b, m, r
<1>3. a \in Wins /\ Kept(a, b) /\ ~a.was /\ a.back = r
  <2>1. \E l \in BOOLEAN : a = Modes!Fresh(m, l, b, r)
    <3>1. (m # "floating") \in BOOLEAN OBVIOUS
    <3> QED BY <1>a, <3>1
  <2> QED BY <1>1, <2>1, FreshFits
<1>4. Covers' BY <1>a DEF Covers
<1>5. Reopens'
  <2> SUFFICES ASSUME spot' # None
               PROVE  up /\ ~wOverview /\ ~yields' /\ spot' \in Int /\ a.back = spot' /\ a.back # None /\ wTarget' = None
    BY <1>a DEF Reopens
  <2>1. wWin.was /\ up /\ ~wOverview /\ wTarget = None /\ spot' = wWin.box.at BY <1>a
  <2> QED BY <1>a, <1>f, <1>2, <1>3, <2>1, CameraAssumption
<1>6. (spoiled \/ Kept(wWin, place))' BY <1>a, <1>3 DEF Kept, LivesAt, Modes!Full, Modes!Cells
<1>7. {wOverview, yields, up, wDirty, filling, spoiled}' \subseteq BOOLEAN
  <2>1. spoiled' \in BOOLEAN BY <1>a
  <2> QED BY <1>a, <1>t, <2>1
<1>8. (filling => wWin.was)' /\ (wWin.back # None => ~wWin.was)' BY <1>a, <1>3
<1> QED BY <1>a, <1>e, <1>t, <1>1, <1>3, <1>4, <1>5, <1>6, <1>7, <1>8 DEF ModesInv, Wins, Boxes

\* Every step of a window's modes keeps all of it.
LEMMA ModesNext == ASSUME ModesInv, [Modes!Next]_(Modes!modeVars) PROVE ModesInv'
<1>1. CASE Modes!Next
  BY <1>1, ModesPass, ModesAnswer, ModesEase, ModesUserPan, ModesScene, ModesRequests, ModesDrag, ModesRelaunch
  DEF Modes!Next
<1>2. CASE UNCHANGED Modes!modeVars
  <2>1. UNCHANGED <<wWin, wPan, wTarget, wOverview, yields, up, wDirty, filling, place, spot, spoiled, wEvents>>
    BY <1>2 DEF Modes!modeVars
  <2> QED BY <2>1 DEF ModesInv, Wins, Boxes, Kept, LivesAt, Covers, Reopens, Modes!Full, Modes!Cells
<1> QED BY <1>1, <1>2

\* A window lives where it was put, covers the screen while pinned to it, reopens where it was.
LEMMA ModesSound ==
    ModesInv => Modes!TypeOK /\ Modes!HomeIsKept /\ Modes!PinnedCovers /\ Modes!ReopensWhereItWas
<1> HAVE ModesInv
<1>t. /\ wWin \in Wins /\ place \in Boxes /\ wPan \in Int /\ wTarget \in Int \cup {None}
      /\ {wOverview, yields, up, wDirty, filling, spoiled} \subseteq BOOLEAN /\ wEvents \in 0..ModeEvents
      /\ (wWin.back # None => ~wWin.was) /\ (up /\ Modes!Full(wWin) /\ ~wWin.was => wDirty)
      /\ (spoiled \/ Kept(wWin, place)) /\ Covers /\ Reopens
  BY DEF ModesInv
<1>1. Modes!TypeOK BY <1>t DEF Modes!TypeOK, Wins
<1>2. Modes!HomeIsKept
  <2> SUFFICES ASSUME Kept(wWin, place) PROVE Modes!HomeIsKept BY <1>t DEF Modes!HomeIsKept
  <2>1. \A c : LivesAt(c, place) <=> Modes!Lives(c) BY DEF LivesAt, Modes!Lives
  <2>2. IF wWin.was THEN Modes!Lives(wWin.home) ELSE Modes!Lives(wWin.box) BY <2>1 DEF Kept
  <2>3. wWin.tiled => Modes!Lives(wWin.flo) BY <2>1 DEF Kept
  <2>4. Modes!SavedAt(wWin) \in {place.at, Modes!Cells(place).at} BY <2>2 DEF Modes!SavedAt, Modes!Lives
  <2> QED BY <2>2, <2>3, <2>4 DEF Modes!HomeIsKept
<1>3. Modes!PinnedCovers BY <1>t DEF Modes!PinnedCovers, Modes!Rest, Covers
<1>4. Modes!ReopensWhereItWas
  <2> SUFFICES ASSUME ~wDirty, wTarget = None, spot # None, Modes!Full(wWin)
               PROVE  wWin.box.at = spot /\ wPan = spot
    BY DEF Modes!ReopensWhereItWas, Modes!Rest
  <2>1. up /\ ~wOverview /\ ~yields /\ spot \in Int BY <1>t DEF Reopens
  <2>2. wWin.was BY <1>t, <2>1
  <2>3. wWin.back = None BY <1>t, <2>2
  <2>4. wPan = spot BY <1>t, <2>3 DEF Reopens
  <2> QED BY <1>t, <2>1, <2>2, <2>4 DEF Covers
<1> QED BY <1>1, <1>2, <1>3, <1>4

--------------------
(* The geometry of an X11 window.                                          *)

Geoms == Int \X Int
Sayings == [type : {"report", "ask", "reassert", "again"}, geom : Geoms]
\* To device pixels and back, at the scale s.
To(s, v) == v * s
From(s, v) == (2 * v + s) \div (2 * s)
OnGrid(s, v) == To(s, From(s, v)) = v
Origin(m, x) == IF m = "fullscreen" THEN 0 ELSE x
\* What may be under way: reports of sizes that were asked for, an answer to the loss of the
\* output while the grace lasts, and what only those say that insist.
Saying(e, s, insists, floats, lg, gr) ==
    /\ e.type = "report" => OnGrid(s, e.geom[2]) /\ (floats => From(s, e.geom[2]) \in lg)
    /\ e.type = "reassert" => gr
    /\ e.type = "again" => insists
Sayable(q, s, insists, floats, lg, gr) == \A i \in DOMAIN q : Saying(q[i], s, insists, floats, lg, gr)
\* The last report of q is of the geometry g.
EndsIn(q, g) ==
    \A i \in DOMAIN q :
        q[i].type = "report" /\ (\A j \in DOMAIN q : j > i => q[j].type # "report") => q[i].geom = g
NoReport(q) == \A i \in DOMAIN q : q[i].type # "report"
Insisting == xKind = "parented" \/ xMode = "fullscreen"

GeomTypes ==
    /\ xKind \in XKinds /\ xMode \in XModes /\ (xKind # "plain" => xMode = "floating")
    /\ virt \in Int /\ box \in Geoms /\ planned \in Int /\ rendered \in Int /\ cfgSent \in Int \cup {None}
    /\ mirror \in Geoms /\ sentGeom \in Geoms \cup {None} /\ real \in Geoms /\ has \in Geoms
    /\ queue \in Seq(Sayings)
    /\ {waiting, output, grace, dirtyW, dirtyR, crossed} \subseteq BOOLEAN
    /\ xPass \in {"idle", "started"} /\ xEvents \in 0..XEvents
\* What is under way ends in what X has.
UnderWay ==
    /\ Sayable(queue, Geom!X11Scale, Insisting, xMode = "floating", legit, grace)
    /\ EndsIn(queue, real) /\ (NoReport(queue) /\ sentGeom # None => mirror = real)
    /\ sentGeom # None => sentGeom = real
    /\ sentGeom = None => NoReport(queue)
\* Before the first pass X has been told nothing; what it has been told it has.
ToldX ==
    /\ sentGeom = None => dirtyW /\ xPass = "idle" /\ cfgSent = None
    /\ xMode = "fullscreen" /\ sentGeom # None => sentGeom[1] = 0
    /\ ~crossed /\ sentGeom # None => mirror = sentGeom
    /\ OnGrid(Geom!X11Scale, mirror[2])
\* Every size that is or may become a floating window's is one somebody asked for.
SizesAsked ==
    xMode = "floating" =>
        /\ {box[2], rendered, From(Geom!X11Scale, mirror[2])} \subseteq legit
        /\ cfgSent # None => cfgSent \in legit
\* With no pass due and no report crossed, a window is planned where its mode has it, and what a
\* pass made of it is what X was told.
Planned ==
    /\ ~dirtyW /\ output /\ xMode = "tiled" => planned = Tile[1]
    /\ ~dirtyW /\ output /\ xMode = "floating" => planned = virt
    /\ xMode = "fullscreen" => output
    /\ ~crossed /\ xMode # "floating" /\ cfgSent # None => mirror[2] = To(Geom!X11Scale, cfgSent)
    /\ ~crossed /\ ~dirtyW /\ output /\ xMode = "tiled" => cfgSent = Tile[2]
    /\ ~crossed /\ ~dirtyW /\ xMode = "fullscreen" => cfgSent = Screen
    /\ ~crossed /\ ~dirtyW /\ ~dirtyR /\ xPass = "idle"
       => /\ box = <<planned, rendered>>
          /\ mirror = <<To(Geom!X11Scale, Origin(xMode, planned)), To(Geom!X11Scale, rendered)>>
GeomInv == GeomTypes /\ UnderWay /\ ToldX /\ SizesAsked /\ Planned

\* A logical number is itself in device pixels and back.
LEMMA Pixels ==
    \A s \in Nat \ {0}, v \in Int :
        /\ To(s, v) \in Int /\ From(s, v) \in Int /\ From(s, To(s, v)) = v
        /\ (v * s) \div s = v /\ OnGrid(s, To(s, v))
<1> TAKE s \in Nat \ {0}, v \in Int
<1>d. ASSUME NEW x \in Int, NEW d \in Nat \ {0}
      PROVE  x \div d \in Int /\ d * (x \div d) <= x /\ x < d * (x \div d) + d
  BY <1>d
<1>q. ASSUME NEW d \in Nat \ {0}, NEW q \in Int, NEW x \in Int, d * q <= x, x < d * q + d, NEW k \in Int,
             d * k <= x, x < d * k + d
      PROVE  q = k
  <2>1. ASSUME q > k PROVE FALSE
    <3>1. d * q >= d * (k + 1) BY <1>q, <2>1
    <3>2. d * (k + 1) = d * k + d BY <1>q
    <3> QED BY <1>q, <3>1, <3>2
  <2>2. ASSUME q < k PROVE FALSE
    <3>1. d * k >= d * (q + 1) BY <1>q, <2>2
    <3>2. d * (q + 1) = d * q + d BY <1>q
    <3> QED BY <1>q, <3>1, <3>2
  <2> QED BY <1>q, <2>1, <2>2
<1>1. v * s \in Int /\ 2 * s \in Nat \ {0} /\ 2 * v + s \in Int /\ 2 * (v * s) + s \in Int OBVIOUS
<1>2. To(s, v) \in Int /\ From(s, v) \in Int BY <1>1, <1>d DEF To, From
<1>3. (v * s) \div s = v
  <2>1. s * v <= v * s /\ v * s < s * v + s OBVIOUS
  <2> QED BY <1>1, <1>d, <1>q, <2>1
<1>4. (2 * (v * s) + s) \div (2 * s) = v
  <2>1. (2 * s) * v = 2 * (v * s) OBVIOUS
  <2>2. (2 * s) * v <= 2 * (v * s) + s /\ 2 * (v * s) + s < (2 * s) * v + 2 * s BY <2>1
  <2> QED BY <1>1, <1>d, <1>q, <2>2
<1>5. From(s, To(s, v)) = v BY <1>4 DEF To, From
<1> QED BY <1>2, <1>3, <1>5 DEF OnGrid

\* The window's scale, and what crosses it.
LEMMA ScaleOfX11 ==
    /\ Geom!X11Scale \in Nat \ {0} /\ (xKind = "exempt" => Geom!X11Scale = 1)
    /\ \A v : Geom!ToX11(v) = To(Geom!X11Scale, v) /\ Geom!FromX11(v) = From(Geom!X11Scale, v)
              /\ Geom!X11Origin(v) = Origin(xMode, v)
    /\ \A v : Geom!SnapX11(v) = To(Geom!X11Scale, From(Geom!X11Scale, v))
<1>1. Geom!X11Scale \in Nat \ {0} /\ (xKind = "exempt" => Geom!X11Scale = 1)
  BY GeometryAssumption DEF Geom!X11Scale
<1>2. \A v : Geom!ToX11(v) = To(Geom!X11Scale, v) /\ Geom!FromX11(v) = From(Geom!X11Scale, v)
             /\ Geom!X11Origin(v) = Origin(xMode, v)
  BY DEF Geom!ToX11, Geom!FromX11, Geom!X11Origin, To, From, Origin
<1> QED BY <1>1, <1>2 DEF Geom!SnapX11

\* What is said after what is under way: it ends as the later says.
LEMMA SaidAfter ==
    ASSUME NEW q \in Seq(Sayings), NEW u \in Seq(Sayings), NEW r, NEW g, EndsIn(q, r),
           \A i \in DOMAIN u : u[i].type = "report" => u[i].geom = g,
           r = g \/ \E i \in DOMAIN u : u[i].type = "report"
    PROVE  /\ q \o u \in Seq(Sayings) /\ EndsIn(q \o u, g)
           /\ \A i \in DOMAIN (q \o u) : (\E j \in DOMAIN q : (q \o u)[i] = q[j])
                                         \/ (\E j \in DOMAIN u : (q \o u)[i] = u[j])
<1> DEFINE w == q \o u
<1>1. /\ w \in Seq(Sayings) /\ Len(w) = Len(q) + Len(u) /\ Len(q) \in Nat /\ Len(u) \in Nat
      /\ DOMAIN q = 1..Len(q) /\ DOMAIN u = 1..Len(u) /\ DOMAIN w = 1..Len(w)
      /\ \A i \in 1..Len(w) : w[i] = IF i <= Len(q) THEN q[i] ELSE u[i - Len(q)]
  BY ConcatProperties, LenProperties
<1> HIDE DEF w
<1>2. \A i \in DOMAIN q : i \in DOMAIN w /\ w[i] = q[i] BY <1>1
<1>3. \A j \in DOMAIN u : j + Len(q) \in DOMAIN w /\ w[j + Len(q)] = u[j] BY <1>1
<1>4. \A i \in DOMAIN w : i \in DOMAIN q \/ (i - Len(q) \in DOMAIN u /\ w[i] = u[i - Len(q)] /\ i > Len(q)) BY <1>1
<1>5. EndsIn(w, g)
  <2> SUFFICES ASSUME NEW i \in DOMAIN w, w[i].type = "report", \A j \in DOMAIN w : j > i => w[j].type # "report"
               PROVE  w[i].geom = g
    BY DEF EndsIn
  <2>1. CASE i \in DOMAIN q
    <3>1. ASSUME NEW j \in DOMAIN u PROVE u[j].type # "report"
      <4>1. j + Len(q) > i BY <1>1, <2>1
      <4> QED BY <1>3, <4>1
    <3>2. r = g BY <3>1
    <3>3. \A j \in DOMAIN q : j > i => q[j].type # "report" BY <1>2
    <3> QED BY <1>2, <2>1, <3>2, <3>3 DEF EndsIn
  <2>2. CASE i \notin DOMAIN q BY <1>4, <2>2
  <2> QED BY <2>1, <2>2
<1>6. \A i \in DOMAIN w : (\E j \in DOMAIN q : w[i] = q[j]) \/ (\E j \in DOMAIN u : w[i] = u[j]) BY <1>2, <1>4
<1> QED BY <1>1, <1>5, <1>6 DEF w

\* The rest of what is under way, once the first is taken.
LEMMA SaidFirst ==
    ASSUME NEW q \in Seq(Sayings), q # <<>>, NEW g, EndsIn(q, g)
    PROVE  /\ Tail(q) \in Seq(Sayings) /\ Head(q) \in Sayings /\ EndsIn(Tail(q), g)
           /\ 1 \in DOMAIN q /\ Head(q) = q[1]
           /\ \A i \in DOMAIN Tail(q) : \E j \in DOMAIN q : Tail(q)[i] = q[j]
           /\ NoReport(Tail(q)) => IF Head(q).type = "report" THEN Head(q).geom = g ELSE NoReport(q)
<1> DEFINE w == Tail(q)
<1>1. /\ Head(q) = q[1] /\ w \in Seq(Sayings) /\ Len(w) = Len(q) - 1 /\ Len(q) \in Nat /\ Len(q) > 0
      /\ DOMAIN q = 1..Len(q) /\ DOMAIN w = 1..Len(w)
      /\ \A i \in 1..Len(w) : w[i] = q[i + 1]
  BY HeadTailProperties, LenProperties, EmptySeq
<1>2. 1 \in DOMAIN q /\ Head(q) \in Sayings BY <1>1, ElementOfSeq
<1> HIDE DEF w
<1>3. \A i \in DOMAIN w : i + 1 \in DOMAIN q /\ w[i] = q[i + 1] BY <1>1
<1>4. \A j \in DOMAIN q : j # 1 => j - 1 \in DOMAIN w /\ w[j - 1] = q[j] BY <1>1
<1>5. EndsIn(w, g)
  <2> SUFFICES ASSUME NEW i \in DOMAIN w, w[i].type = "report", \A j \in DOMAIN w : j > i => w[j].type # "report"
               PROVE  w[i].geom = g
    BY DEF EndsIn
  <2>1. ASSUME NEW j \in DOMAIN q, j > i + 1 PROVE q[j].type # "report"
    <3>1. j # 1 /\ j - 1 > i BY <1>1, <2>1
    <3> QED BY <1>4, <3>1
  <2> QED BY <1>3, <2>1 DEF EndsIn
<1>6. ASSUME NoReport(w) PROVE IF Head(q).type = "report" THEN Head(q).geom = g ELSE NoReport(q)
  <2>1. \A j \in DOMAIN q : j > 1 => q[j].type # "report"
    <3> TAKE j \in DOMAIN q
    <3> HAVE j > 1
    <3>1. j # 1 BY <1>1
    <3> QED BY <1>4, <1>6, <3>1 DEF NoReport
  <2>2. CASE Head(q).type = "report" BY <1>1, <1>2, <2>1, <2>2 DEF EndsIn
  <2>3. CASE Head(q).type # "report"
    <3>1. \A j \in DOMAIN q : j = 1 \/ j > 1 BY <1>1
    <3> QED BY <1>1, <2>1, <2>3, <3>1 DEF NoReport
  <2> QED BY <2>2, <2>3
<1> QED BY <1>1, <1>2, <1>3, <1>5, <1>6 DEF w

\* What the client says last is no report, and the reports end as they did.
LEMMA SaidLast ==
    ASSUME NEW q \in Seq(Sayings), NEW e \in Sayings, e.type # "report", NEW g, EndsIn(q, g)
    PROVE  /\ Append(q, e) \in Seq(Sayings) /\ EndsIn(Append(q, e), g)
           /\ NoReport(Append(q, e)) <=> NoReport(q)
           /\ \A i \in DOMAIN Append(q, e) : (\E j \in DOMAIN q : Append(q, e)[i] = q[j]) \/ Append(q, e)[i] = e
<1> DEFINE w == Append(q, e)
<1>1. /\ w \in Seq(Sayings) /\ Len(w) = Len(q) + 1 /\ Len(q) \in Nat
      /\ DOMAIN q = 1..Len(q) /\ DOMAIN w = 1..Len(w)
      /\ \A i \in 1..Len(q) : w[i] = q[i]
      /\ w[Len(q) + 1] = e
  BY AppendProperties, LenProperties
<1> HIDE DEF w
<1>2. \A i \in DOMAIN w : (i \in DOMAIN q /\ w[i] = q[i]) \/ (i = Len(q) + 1 /\ w[i] = e) BY <1>1
<1>3. \A i \in DOMAIN q : i \in DOMAIN w /\ w[i] = q[i] BY <1>1
<1>4. EndsIn(w, g) BY <1>2, <1>3 DEF EndsIn
<1>5. NoReport(w) <=> NoReport(q) BY <1>2, <1>3 DEF NoReport
<1> QED BY <1>1, <1>2, <1>4, <1>5 DEF w

\* After the step X has the geometry g, and has reported it if it is new.
XHas(g, lg) ==
    /\ mirror' = g /\ sentGeom' = g /\ real' = g /\ has' \in Geoms /\ waiting' \in BOOLEAN
    /\ queue' \in Seq(Sayings) /\ EndsIn(queue', g)
    /\ Sayable(queue', Geom!X11Scale, Insisting, xMode = "floating", lg, grace)

\* X is told a geometry.
LEMMA Tells ==
    ASSUME GeomTypes, NEW g \in Geoms, NEW q \in Seq(Sayings), EndsIn(q, real), Geom!Tell(g, q), NEW lg,
           Sayable(q, Geom!X11Scale, Insisting, xMode = "floating", lg, grace), OnGrid(Geom!X11Scale, g[2]),
           xMode = "floating" => From(Geom!X11Scale, g[2]) \in lg
    PROVE  XHas(g, lg)
<1> DEFINE r == [type |-> "report", geom |-> g]
           a == [type |-> "again", geom |-> IF xMode = "fullscreen" THEN <<0, g[2]>> ELSE has]
           u == IF g # real THEN <<r>> ELSE <<>>
           v == IF Geom!Insists(g) THEN <<a>> ELSE <<>>
<1>1. mirror' = g /\ sentGeom' = g /\ real' = g /\ has' = g /\ waiting' = Geom!Insists(g) /\ queue' = (q \o u) \o v
  BY DEF Geom!Tell, Geom!Size
<1>2. waiting' \in BOOLEAN BY <1>1 DEF Geom!Insists
<1>3. has \in Geoms /\ real \in Geoms BY DEF GeomTypes
<1>4. r \in Sayings /\ a \in Sayings
  <2>1. g[2] \in Int BY DEF Geoms
  <2>2. (IF xMode = "fullscreen" THEN <<0, g[2]>> ELSE has) \in Geoms BY <1>3, <2>1 DEF Geoms
  <2> QED BY <2>2 DEF Sayings
<1>5. r.type = "report" /\ r.geom = g /\ a.type = "again" OBVIOUS
<1>6. Geom!Insists(g) => Insisting BY DEF Geom!Insists, Insisting
<1>7. Saying(r, Geom!X11Scale, Insisting, xMode = "floating", lg, grace) BY <1>5 DEF Saying
<1>8. Insisting => Saying(a, Geom!X11Scale, Insisting, xMode = "floating", lg, grace) BY <1>5 DEF Saying
<1> HIDE DEF r, a
<1>9. /\ u \in Seq(Sayings) /\ (\A i \in DOMAIN u : u[i] = r) /\ (g = real \/ \E i \in DOMAIN u : u[i] = r)
  <2>1. CASE g # real
    <3>1. u = <<r>> BY <2>1
    <3>2. <<r>> \in Seq(Sayings) /\ DOMAIN <<r>> = {1} /\ <<r>>[1] = r BY <1>4
    <3> QED BY <3>1, <3>2
  <2>2. CASE g = real
    <3>1. u = <<>> BY <2>2
    <3>2. <<>> \in Seq(Sayings) /\ DOMAIN <<>> = {} OBVIOUS
    <3> QED BY <2>2, <3>1, <3>2
  <2> QED BY <2>1, <2>2
<1>10. v \in Seq(Sayings) /\ (\A i \in DOMAIN v : v[i] = a) /\ (v = <<>> \/ Insisting)
  <2>1. CASE Geom!Insists(g)
    <3>1. v = <<a>> BY <2>1
    <3>2. <<a>> \in Seq(Sayings) /\ DOMAIN <<a>> = {1} /\ <<a>>[1] = a BY <1>4
    <3> QED BY <1>6, <2>1, <3>1, <3>2
  <2>2. CASE ~Geom!Insists(g)
    <3>1. v = <<>> BY <2>2
    <3>2. <<>> \in Seq(Sayings) /\ DOMAIN <<>> = {} OBVIOUS
    <3> QED BY <3>1, <3>2
  <2> QED BY <2>1, <2>2
<1> HIDE DEF u, v
<1>11. /\ q \o u \in Seq(Sayings) /\ EndsIn(q \o u, g)
       /\ \A i \in DOMAIN (q \o u) : (\E j \in DOMAIN q : (q \o u)[i] = q[j])
                                     \/ (\E j \in DOMAIN u : (q \o u)[i] = u[j])
  <2>1. \A i \in DOMAIN u : u[i].type = "report" => u[i].geom = g BY <1>5, <1>9
  <2>2. real = g \/ \E i \in DOMAIN u : u[i].type = "report" BY <1>5, <1>9
  <2> QED BY <1>9, <2>1, <2>2, SaidAfter
<1> DEFINE w == q \o u
<1>12. w \in Seq(Sayings) /\ EndsIn(w, g)
       /\ \A i \in DOMAIN w : (\E j \in DOMAIN q : w[i] = q[j]) \/ w[i] = r
  BY <1>9, <1>11
<1>13. queue' = w \o v BY <1>1
<1> HIDE DEF w
<1>14. /\ w \o v \in Seq(Sayings) /\ EndsIn(w \o v, g)
       /\ \A i \in DOMAIN (w \o v) : (\E j \in DOMAIN w : (w \o v)[i] = w[j])
                                     \/ (\E j \in DOMAIN v : (w \o v)[i] = v[j])
  <2>1. \A i \in DOMAIN v : v[i].type = "report" => v[i].geom = g BY <1>5, <1>10
  <2> QED BY <1>10, <1>12, <2>1, SaidAfter
<1>15. \A i \in DOMAIN (w \o v) : (\E j \in DOMAIN q : (w \o v)[i] = q[j]) \/ (w \o v)[i] = r
                                  \/ ((w \o v)[i] = a /\ Insisting)
  <2> TAKE i \in DOMAIN (w \o v)
  <2>1. CASE \E j \in DOMAIN w : (w \o v)[i] = w[j] BY <1>12, <2>1
  <2>2. CASE \E j \in DOMAIN v : (w \o v)[i] = v[j]
    <3>1. v # <<>>
      <4>1. DOMAIN <<>> = {} OBVIOUS
      <4> QED BY <2>2, <4>1
    <3> QED BY <1>10, <2>2, <3>1
  <2> QED BY <1>14, <2>1, <2>2
<1>16. \A i \in DOMAIN (w \o v) : Saying((w \o v)[i], Geom!X11Scale, Insisting, xMode = "floating", lg, grace)
  BY <1>7, <1>8, <1>15 DEF Sayable
<1> QED BY <1>1, <1>2, <1>13, <1>14, <1>16 DEF XHas, Sayable

\* A configure leaves X with what is wanted, whether it is sent or X has it.
LEMMA Configures ==
    ASSUME GeomTypes, UnderWay, NEW x \in Int, NEW w \in Int \cup {None}, NEW lg, Geom!Configure(x, w, queue),
           Sayable(queue, Geom!X11Scale, Insisting, xMode = "floating", lg, grace),
           OnGrid(Geom!X11Scale, mirror[2]),
           xMode = "floating" => From(Geom!X11Scale, mirror[2]) \in lg /\ (w # None => w \in lg)
    PROVE  \E g \in Geoms :
             /\ g = <<To(Geom!X11Scale, Origin(xMode, x)), IF w = None THEN mirror[2] ELSE To(Geom!X11Scale, w)>>
             /\ XHas(g, lg) /\ OnGrid(Geom!X11Scale, g[2])
             /\ (xMode = "floating" => From(Geom!X11Scale, g[2]) \in lg)
             /\ cfgSent' = (IF w = None THEN From(Geom!X11Scale, g[2]) ELSE w)
<1> DEFINE s == Geom!X11Scale
           g == <<To(s, Origin(xMode, x)), IF w = None THEN mirror[2] ELSE To(s, w)>>
<1>1. s \in Nat \ {0} BY ScaleOfX11
<1>2. mirror \in Geoms /\ mirror[2] \in Int BY DEF GeomTypes, Geoms
<1>3. g[1] = To(s, Origin(xMode, x)) /\ g[2] = (IF w = None THEN mirror[2] ELSE To(s, w)) OBVIOUS
<1>4. Origin(xMode, x) \in Int BY DEF Origin
<1>5. g \in Geoms
  <2>1. To(s, Origin(xMode, x)) \in Int BY <1>1, <1>4, Pixels
  <2>2. (IF w = None THEN mirror[2] ELSE To(s, w)) \in Int BY <1>1, <1>2, Pixels
  <2> QED BY <2>1, <2>2 DEF Geoms
<1>6. OnGrid(s, g[2]) BY <1>1, <1>3, Pixels
<1>7. xMode = "floating" => From(s, g[2]) \in lg BY <1>1, <1>3, Pixels
<1>8. g = <<Geom!ToX11(Geom!X11Origin(x)), IF w = None THEN mirror[2] ELSE Geom!ToX11(w)>> BY ScaleOfX11
<1>9. /\ IF Geom!NeedsConfigure(g, mirror) THEN Geom!Tell(g, queue)
         ELSE queue' = queue /\ UNCHANGED <<mirror, sentGeom, real, has, waiting>>
      /\ cfgSent' = IF w = None THEN Geom!FromX11(mirror'[2]) ELSE w
  BY <1>8 DEF Geom!Configure, Geom!Size, Geom!client
<1> HIDE DEF g, s
<1>10. XHas(g, lg)
  <2>1. EndsIn(queue, real) /\ queue \in Seq(Sayings) BY DEF UnderWay, GeomTypes
  <2>2. CASE Geom!NeedsConfigure(g, mirror) BY <1>5, <1>6, <1>7, <1>9, <2>1, <2>2, Tells DEF s
  <2>3. CASE ~Geom!NeedsConfigure(g, mirror)
    <3>1. mirror = g /\ sentGeom = g BY <2>3 DEF Geom!NeedsConfigure
    <3>2. g # None BY <1>5, GeometryAssumption DEF Geoms
    <3>3. real = g BY <3>1, <3>2 DEF UnderWay
    <3>4. queue' = queue /\ UNCHANGED <<mirror, sentGeom, real, has, waiting>> BY <1>9, <2>3
    <3>5. has \in Geoms /\ waiting \in BOOLEAN BY DEF GeomTypes
    <3> QED BY <2>1, <3>1, <3>3, <3>4, <3>5 DEF XHas
  <2> QED BY <2>2, <2>3
<1>11. cfgSent' = (IF w = None THEN From(s, g[2]) ELSE w)
  <2>1. mirror' = g BY <1>10 DEF XHas
  <2> QED BY <1>9, <2>1, ScaleOfX11 DEF s
<1>12. g = <<To(s, Origin(xMode, x)), IF w = None THEN mirror[2] ELSE To(s, w)>> BY DEF g
<1> QED BY <1>5, <1>6, <1>7, <1>10, <1>11, <1>12 DEF s

\* What X has then is all it has been told.
LEMMA XKeeps ==
    ASSUME GeomInv, NEW g \in Geoms, XHas(g, legit'), OnGrid(Geom!X11Scale, g[2]),
           xMode = "fullscreen" => g[1] = 0, UNCHANGED <<xKind, xMode, grace>>
    PROVE  UnderWay' /\ ToldX' /\ {real, mirror, sentGeom, has}' \subseteq Geoms
           /\ queue' \in Seq(Sayings) /\ waiting' \in BOOLEAN
<1>1. /\ mirror' = g /\ sentGeom' = g /\ real' = g /\ has' \in Geoms /\ waiting' \in BOOLEAN
      /\ queue' \in Seq(Sayings) /\ EndsIn(queue', g)
      /\ Sayable(queue', Geom!X11Scale, Insisting, xMode = "floating", legit', grace)
  BY DEF XHas
<1>2. g # None BY GeometryAssumption DEF Geoms
<1>3. Geom!X11Scale' = Geom!X11Scale BY DEF Geom!X11Scale
<1>4. Sayable(queue', Geom!X11Scale', Insisting', xMode' = "floating", legit', grace')
  BY <1>1, <1>3 DEF Sayable, Saying, Insisting
<1>5. UnderWay' BY <1>1, <1>2, <1>4 DEF UnderWay, NoReport
<1>6. ToldX' BY <1>1, <1>2, <1>3 DEF ToldX
<1> QED BY <1>1, <1>5, <1>6

\* A window maps at a size of the layout's, one its saved state or itself asks for.
LEMMA GeomInit == ASSUME Geom!Init PROVE GeomInv
<1> DEFINE s == Geom!X11Scale
<1>s. s \in Nat \ {0} /\ s = (IF xKind = "exempt" THEN 1 ELSE Scale) BY ScaleOfX11 DEF Geom!X11Scale
<1>1. PICK had \in {Natural} \cup {Scale * w : w \in IF xKind = "plain" THEN XSizes ELSE {}} :
        /\ mirror = <<0, had>> /\ box = <<virt, had \div s>> /\ legit = {had \div s, Natural \div s}
  BY <1>s DEF Geom!Init, Geom!Size
<1>2. /\ xKind \in XKinds /\ xMode \in XModes /\ (xKind # "plain" => xMode = "floating") /\ virt \in XSpots
      /\ planned = virt /\ real = <<0, Natural>> /\ rendered = box[2] /\ cfgSent = None /\ sentGeom = None
      /\ queue = <<>> /\ has = real /\ waiting = FALSE /\ output = TRUE /\ grace = FALSE /\ dirtyW = TRUE
      /\ dirtyR = FALSE /\ xPass = "idle" /\ crossed = FALSE /\ xEvents = 0
  BY DEF Geom!Init, Geom!Size
<1> HIDE DEF s
<1>3. \E k \in Int : had = k * s
  <2>1. CASE had = Natural /\ xKind # "exempt"
    <3>1. Natural \in Int /\ Scale \in Nat \ {0} /\ Natural % Scale = 0 BY GeometryAssumption
    <3>2. Natural = (Natural \div Scale) * Scale BY <3>1
    <3>3. Natural \div Scale \in Int BY <3>1
    <3> QED BY <1>s, <2>1, <3>2, <3>3
  <2>2. CASE had = Natural /\ xKind = "exempt"
    <3>1. Natural \in Int /\ Natural = Natural * 1 BY GeometryAssumption
    <3> QED BY <1>s, <2>2, <3>1
  <2>3. CASE had # Natural
    <3>1. PICK w \in XSizes : had = Scale * w /\ xKind = "plain" BY <1>1, <2>3
    <3>2. w \in Int /\ s = Scale BY <1>s, <3>1, GeometryAssumption
    <3>3. had = w * s BY <1>s, <3>1, <3>2
    <3> QED BY <3>2, <3>3
  <2> QED BY <2>1, <2>2, <2>3
<1>4. PICK k \in Int : had = k * s BY <1>3
<1>5. had \in Int /\ had \div s = k /\ From(s, had) = k /\ OnGrid(s, had)
  <2>1. had = To(s, k) BY <1>4 DEF To
  <2>2. To(s, k) \in Int /\ From(s, To(s, k)) = k /\ (k * s) \div s = k /\ OnGrid(s, To(s, k))
    BY <1>s, <1>4, Pixels
  <2> QED BY <1>4, <2>1, <2>2
<1>6. box[1] = virt /\ box[2] = k /\ mirror[2] = had /\ {virt, Natural} \subseteq Int
  BY <1>1, <1>2, <1>5, GeometryAssumption
<1>7. GeomTypes
  <2>1. box \in Geoms /\ mirror \in Geoms /\ real \in Geoms BY <1>1, <1>2, <1>5, <1>6 DEF Geoms
  <2>2. queue \in Seq(Sayings) BY <1>2
  <2>3. rendered \in Int /\ virt \in Int /\ planned \in Int BY <1>2, <1>6
  <2>4. {waiting, output, grace, dirtyW, dirtyR, crossed} \subseteq BOOLEAN BY <1>2
  <2>5. XEvents \in Nat /\ 0 \in 0..XEvents BY GeometryAssumption
  <2> QED BY <1>2, <2>1, <2>2, <2>3, <2>4, <2>5 DEF GeomTypes
<1>8. DOMAIN queue = {} BY <1>2
<1>9. UnderWay BY <1>2, <1>8 DEF UnderWay, Sayable, EndsIn, NoReport
<1>10. ToldX BY <1>2, <1>5, <1>6 DEF ToldX, s
<1>11. SizesAsked BY <1>1, <1>2, <1>5, <1>6 DEF SizesAsked, s
<1>12. Planned BY <1>2 DEF Planned
<1> QED BY <1>7, <1>9, <1>10, <1>11, <1>12 DEF GeomInv

\* What was sayable is, of more sizes and a longer grace.
LEMMA SayableStill ==
    ASSUME NEW q, NEW s, NEW ins, NEW fl, NEW lg, NEW lh, NEW gr, NEW gs, Sayable(q, s, ins, fl, lg, gr),
           lg \subseteq lh, gr => gs
    PROVE  Sayable(q, s, ins, fl, lh, gs)
BY DEF Sayable, Saying

\* The types of what a step has of the window.
LEMMA GeomFields ==
    ASSUME GeomInv
    PROVE  /\ xKind \in XKinds /\ xMode \in XModes /\ (xKind # "plain" => xMode = "floating")
           /\ virt \in Int /\ box \in Geoms /\ planned \in Int /\ rendered \in Int /\ cfgSent \in Int \cup {None}
           /\ mirror \in Geoms /\ sentGeom \in Geoms \cup {None} /\ real \in Geoms /\ has \in Geoms
           /\ queue \in Seq(Sayings)
           /\ {waiting, output, grace, dirtyW, dirtyR, crossed} \subseteq BOOLEAN
           /\ xPass \in {"idle", "started"} /\ xEvents \in 0..XEvents
           /\ box[1] \in Int /\ box[2] \in Int /\ mirror[2] \in Int
           /\ Tile[1] \in Int /\ Tile[2] \in Int /\ Screen \in Int /\ None \notin Int
           /\ Geom!X11Scale \in Nat \ {0}
<1>1. box \in Geoms /\ mirror \in Geoms /\ Tile \in Geoms BY GeometryAssumption DEF GeomInv, GeomTypes, Geoms
<1>2. box[1] \in Int /\ box[2] \in Int /\ mirror[2] \in Int /\ Tile[1] \in Int /\ Tile[2] \in Int
  BY <1>1 DEF Geoms
<1>3. Geom!X11Scale \in Nat \ {0} BY ScaleOfX11
<1> QED BY <1>2, <1>3, GeometryAssumption, CameraAssumption DEF GeomInv, GeomTypes

\* A pass that starts plans the window and configures it.
LEMMA GeomPassStart == ASSUME GeomInv, Geom!PassStart PROVE GeomInv'
<1> DEFINE s == Geom!X11Scale
           w == Geom!SizeToSend
<1>i. GeomTypes /\ UnderWay /\ ToldX /\ SizesAsked /\ Planned BY DEF GeomInv
<1>s. s \in Nat \ {0} BY ScaleOfX11
<1>a. /\ xPass = "idle" /\ (dirtyW \/ dirtyR) /\ xPass' = "started" /\ dirtyW' = FALSE /\ dirtyR' = FALSE
      /\ UNCHANGED <<xKind, xMode, virt, box, rendered, output, grace, legit, crossed, xEvents>>
  BY DEF Geom!PassStart, Geom!outs
<1>k. Geom!X11Scale' = s BY <1>a DEF Geom!X11Scale
<1>1. CASE ~dirtyW
  <2>1. UNCHANGED <<planned, cfgSent, mirror, sentGeom, real, queue, has, waiting>>
    BY <1>1 DEF Geom!PassStart, Geom!xside, Geom!client
  <2>2. GeomTypes' BY <1>a, GeomFields, <2>1 DEF GeomTypes, Geoms, Sayings
  <2>3. UnderWay' BY <1>i, <1>a, <1>k, <2>1 DEF UnderWay, Sayable, Saying, Insisting, EndsIn, NoReport, OnGrid, To, From
  <2>4. ToldX' BY <1>1, <1>i, <1>a, <1>k, <2>1 DEF ToldX, OnGrid, To, From
  <2>5. SizesAsked' BY <1>i, <1>a, <1>k, <2>1 DEF SizesAsked, From
  <2>6. Planned' BY <1>1, <1>i, <1>a, <1>k, <2>1 DEF Planned, To
  <2> QED BY <2>2, <2>3, <2>4, <2>5, <2>6 DEF GeomInv
<1>2. CASE dirtyW
  <2>f. box[1] \in Int /\ mirror[2] \in Int BY GeomFields
  <2>1. /\ planned' = (IF output THEN IF xMode = "tiled" THEN Tile[1] ELSE virt ELSE planned)
        /\ Geom!Configure(box[1], w, queue)
    BY <1>2 DEF Geom!PassStart, Geom!Place, Geom!Pos
  <2>2. w = IF xMode # "fullscreen" THEN (IF output THEN IF xMode = "tiled" THEN Tile[2] ELSE box[2] ELSE None)
            ELSE IF output /\ cfgSent # Screen THEN Screen ELSE None
    BY DEF Geom!SizeToSend, Geom!Place, Geom!Size
  <2> HIDE DEF w
  <2>3. w \in Int \cup {None} BY GeomFields, <2>2
  <2>4. xMode = "floating" => From(s, mirror[2]) \in legit /\ (w # None => w \in legit)
    <3> HAVE xMode = "floating"
    <3>1. w = box[2] \/ w = None BY <2>2
    <3> QED BY <1>i, <3>1 DEF SizesAsked
  <2>5. Sayable(queue, s, Insisting, xMode = "floating", legit, grace) /\ OnGrid(s, mirror[2])
    BY <1>i DEF UnderWay, ToldX
  <2> HIDE DEF s
  <2>6. PICK g \in Geoms :
          /\ g = <<To(s, Origin(xMode, box[1])), IF w = None THEN mirror[2] ELSE To(s, w)>>
          /\ XHas(g, legit) /\ OnGrid(s, g[2]) /\ (xMode = "floating" => From(s, g[2]) \in legit)
          /\ cfgSent' = (IF w = None THEN From(s, g[2]) ELSE w)
    BY <1>i, <2>f, <2>1, <2>3, <2>4, <2>5, Configures DEF s
  <2>7. g[1] = To(s, Origin(xMode, box[1])) /\ g[2] = (IF w = None THEN mirror[2] ELSE To(s, w)) /\ g[2] \in Int
    BY <2>6 DEF Geoms
  <2>8. xMode = "fullscreen" => g[1] = 0 BY <1>s, <2>7 DEF Origin, To
  <2>9. XHas(g, legit') BY <1>a, <2>6
  <2>10. /\ UnderWay' /\ ToldX' /\ {real, mirror, sentGeom, has}' \subseteq Geoms
         /\ queue' \in Seq(Sayings) /\ waiting' \in BOOLEAN
    BY <1>a, <2>6, <2>8, <2>9, XKeeps DEF s
  <2>11. mirror' = g BY <2>6 DEF XHas
  <2>12. cfgSent' \in Int
    <3>1. From(s, g[2]) \in Int BY <1>s, <2>7, Pixels
    <3> QED BY <2>3, <2>6, <3>1
  <2>13. planned' \in Int BY GeomFields, <2>1
  <2>14. GeomTypes' BY <1>a, GeomFields, <2>10, <2>12, <2>13 DEF GeomTypes, Geoms, Sayings
  <2>15. SizesAsked'
    <3> SUFFICES ASSUME xMode = "floating"
                 PROVE  {box[2], rendered, From(s, g[2])} \subseteq legit /\ cfgSent' \in legit
      BY <1>a, <1>k, <2>11 DEF SizesAsked, From
    <3> QED BY <1>i, <2>4, <2>6 DEF SizesAsked
  <2>16. xMode # "floating" => g[2] = To(s, cfgSent')
    <3>1. CASE w = None BY <2>6, <3>1 DEF OnGrid
    <3>2. CASE w # None BY <2>6, <2>7, <3>2
    <3> QED BY <3>1, <3>2
  <2>17. output /\ xMode = "tiled" => cfgSent' = Tile[2]
    <3>1. output /\ xMode = "tiled" => w = Tile[2] /\ w # None BY GeomFields, <2>2, CameraAssumption
    <3> QED BY <2>6, <3>1
  <2>18. ~crossed /\ xMode = "fullscreen" => cfgSent' = Screen
    <3> HAVE ~crossed /\ xMode = "fullscreen"
    <3>1. output BY <1>i DEF Planned
    <3>2. CASE cfgSent = Screen
      <4>1. w = None BY <2>2, <3>2
      <4>2. mirror[2] = To(s, Screen)
        <5>1. cfgSent # None BY GeomFields, <3>2, CameraAssumption
        <5> QED BY <1>i, <3>2, <5>1 DEF Planned, s
      <4> QED BY GeomFields, <1>s, <2>6, <2>7, <4>1, <4>2, Pixels
    <3>3. CASE cfgSent # Screen
      <4>1. w = Screen /\ w # None BY GeomFields, <2>2, <3>1, <3>3, CameraAssumption
      <4> QED BY <2>6, <4>1
    <3> QED BY <3>2, <3>3
  <2>19. Planned'
    <3>1. xMode = "fullscreen" => output BY <1>i DEF Planned
    <3>2. Geom!X11Scale' = s BY <1>k DEF s
    <3> QED BY <1>a, <2>1, <2>11, <2>16, <2>17, <2>18, <3>1, <3>2 DEF Planned
  <2> QED BY <2>10, <2>14, <2>15, <2>19 DEF GeomInv
<1> QED BY <1>1, <1>2, GeomFields

\* A render, in a pass or of a commit, configures the window where it is planned.
LEMMA GeomRender ==
    ASSUME GeomInv, Geom!Configure(planned, None, queue),
           UNCHANGED <<xKind, xMode, virt, planned, output, grace, dirtyW, dirtyR, legit, crossed>>,
           \/ xPass' = "idle" /\ rendered' = Geom!ReadBack
           \/ xPass' = xPass /\ rendered' = rendered,
           box' = <<planned, rendered'>>, xEvents' \in 0..XEvents
    PROVE  GeomInv'
<1> DEFINE s == Geom!X11Scale
<1>i. GeomTypes /\ UnderWay /\ ToldX /\ SizesAsked /\ Planned BY DEF GeomInv
<1>t. /\ xKind \in XKinds /\ xMode \in XModes /\ (xKind # "plain" => xMode = "floating")
      /\ virt \in Int /\ planned \in Int /\ rendered \in Int /\ cfgSent \in Int \cup {None}
      /\ {output, grace, dirtyW, dirtyR, crossed} \subseteq BOOLEAN /\ xPass \in {"idle", "started"}
      /\ mirror[2] \in Int /\ Tile[1] \in Int /\ Tile[2] \in Int /\ Screen \in Int /\ None \notin Int
      /\ s \in Nat \ {0}
  BY GeomFields
<1>k. Geom!X11Scale' = s BY DEF Geom!X11Scale
<1>r. Geom!ReadBack = From(s, mirror[2]) BY ScaleOfX11 DEF Geom!ReadBack, Geom!Size
<1>1. /\ Sayable(queue, s, Insisting, xMode = "floating", legit, grace) /\ OnGrid(s, mirror[2])
      /\ (xMode = "floating" => From(s, mirror[2]) \in legit /\ (None # None => None \in legit))
      /\ None \in Int \cup {None}
  BY <1>i DEF UnderWay, ToldX, SizesAsked
<1> HIDE DEF s
<1>2. PICK g \in Geoms :
        /\ g = <<To(s, Origin(xMode, planned)), IF None = None THEN mirror[2] ELSE To(s, None)>>
        /\ XHas(g, legit) /\ OnGrid(s, g[2]) /\ (xMode = "floating" => From(s, g[2]) \in legit)
        /\ cfgSent' = (IF None = None THEN From(s, g[2]) ELSE None)
  <2>1. /\ Sayable(queue, Geom!X11Scale, Insisting, xMode = "floating", legit, grace)
        /\ OnGrid(Geom!X11Scale, mirror[2])
        /\ xMode = "floating" => From(Geom!X11Scale, mirror[2]) \in legit /\ (None # None => None \in legit)
    BY <1>1 DEF s
  <2>2. planned \in Int /\ None \in Int \cup {None} /\ GeomTypes /\ UnderWay BY <1>i, <1>t
  <2> QED BY <2>1, <2>2, Configures DEF s
<1>3. g = <<To(s, Origin(xMode, planned)), mirror[2]>> /\ g[1] = To(s, Origin(xMode, planned)) /\ g[2] = mirror[2]
      /\ cfgSent' = From(s, mirror[2])
  BY <1>2
<1>4. xMode = "fullscreen" => g[1] = 0 BY <1>t, <1>3 DEF Origin, To
<1>5. XHas(g, legit') BY <1>2
<1>6. /\ UnderWay' /\ ToldX' /\ {real, mirror, sentGeom, has}' \subseteq Geoms
      /\ queue' \in Seq(Sayings) /\ waiting' \in BOOLEAN
  BY <1>2, <1>4, <1>5, XKeeps DEF s
<1>7. mirror' = g BY <1>2 DEF XHas
<1>8. From(s, mirror[2]) \in Int /\ To(s, From(s, mirror[2])) = mirror[2] BY <1>1, <1>t, Pixels DEF OnGrid
<1>9. rendered' \in Int /\ (xMode = "floating" => rendered' \in legit)
  BY <1>i, <1>t, <1>1, <1>r, <1>8 DEF SizesAsked
<1>10. box' \in Geoms /\ box'[2] = rendered' BY <1>t, <1>9 DEF Geoms
<1>11. GeomTypes' BY <1>t, <1>3, <1>6, <1>8, <1>9, <1>10 DEF GeomTypes, Geoms, Sayings
<1>12. SizesAsked'
  <2> SUFFICES ASSUME xMode = "floating"
               PROVE  {box'[2], rendered', From(s, g[2])} \subseteq legit /\ cfgSent' \in legit
    BY <1>k, <1>7 DEF SizesAsked, From, s
  <2> QED BY <1>1, <1>3, <1>9, <1>10
<1>13. g[2] = To(s, cfgSent') BY <1>3, <1>8
<1>14. ~crossed /\ xMode # "floating" /\ cfgSent # None => cfgSent' = cfgSent
  <2> HAVE ~crossed /\ xMode # "floating" /\ cfgSent # None
  <2>1. mirror[2] = To(s, cfgSent) /\ cfgSent \in Int BY <1>i, <1>t DEF Planned, s
  <2>2. From(s, To(s, cfgSent)) = cfgSent BY <1>t, <2>1, Pixels
  <2> QED BY <1>3, <2>1, <2>2
<1>15. ~crossed /\ ~dirtyW /\ output /\ xMode = "tiled" => cfgSent' = Tile[2]
  <2> HAVE ~crossed /\ ~dirtyW /\ output /\ xMode = "tiled"
  <2>1. cfgSent = Tile[2] BY <1>i DEF Planned
  <2>2. cfgSent # None BY <1>t, <2>1
  <2> QED BY <1>14, <2>1, <2>2
<1>16. ~crossed /\ ~dirtyW /\ xMode = "fullscreen" => cfgSent' = Screen
  <2> HAVE ~crossed /\ ~dirtyW /\ xMode = "fullscreen"
  <2>1. cfgSent = Screen BY <1>i DEF Planned
  <2>2. cfgSent # None BY <1>t, <2>1
  <2> QED BY <1>14, <2>1, <2>2
<1>17. ~crossed /\ ~dirtyW /\ ~dirtyR /\ xPass' = "idle"
       => g = <<To(s, Origin(xMode, planned)), To(s, rendered')>>
  <2> SUFFICES ASSUME ~crossed, ~dirtyW, ~dirtyR, xPass' = "idle" PROVE mirror[2] = To(s, rendered')
    BY <1>3
  <2>1. CASE rendered' = Geom!ReadBack BY <1>8, <1>r, <2>1
  <2>2. CASE xPass' = xPass /\ rendered' = rendered
    <3>1. mirror = <<To(s, Origin(xMode, planned)), To(s, rendered)>> BY <1>i, <2>2 DEF Planned, s
    <3> QED BY <2>2, <3>1
  <2> QED BY <2>1, <2>2
<1>18. Planned'
  <2>1. /\ (~dirtyW /\ output /\ xMode = "tiled" => planned = Tile[1])
        /\ (~dirtyW /\ output /\ xMode = "floating" => planned = virt)
        /\ (xMode = "fullscreen" => output)
    BY <1>i DEF Planned
  <2>2. Geom!X11Scale' = s BY <1>k DEF s
  <2> QED BY <1>7, <1>13, <1>15, <1>16, <1>17, <2>1, <2>2 DEF Planned
<1> QED BY <1>6, <1>11, <1>12, <1>18 DEF GeomInv

\* One more event is within the bound.
LEMMA GeomHappens == ASSUME GeomInv, Geom!Happens PROVE xEvents' \in 0..XEvents
<1>1. xEvents \in 0..XEvents /\ XEvents \in Nat BY GeometryAssumption, GeomFields
<1>2. xEvents < XEvents /\ xEvents' = xEvents + 1 BY DEF Geom!Happens
<1> QED BY <1>1, <1>2

\* A pass ends, or the client commits.
LEMMA GeomPassEnd == ASSUME GeomInv, Geom!PassEnd \/ Geom!Commit PROVE GeomInv'
<1>1. CASE Geom!PassEnd
  <2>1. /\ xPass' = "idle" /\ rendered' = Geom!ReadBack /\ box' = <<planned, rendered'>>
        /\ Geom!Configure(planned, None, queue)
        /\ UNCHANGED <<xKind, xMode, virt, planned, output, grace, dirtyW, dirtyR, legit, crossed, xEvents>>
    BY <1>1 DEF Geom!PassEnd, Geom!outs
  <2>2. xEvents' \in 0..XEvents BY <2>1, GeomFields
  <2> QED BY <2>1, <2>2, GeomRender
<1>2. CASE Geom!Commit
  <2>1. /\ box' = <<planned, rendered>> /\ Geom!Configure(planned, None, queue) /\ Geom!Happens
        /\ UNCHANGED <<xKind, xMode, virt, planned, rendered, output, grace, dirtyW, dirtyR, xPass, legit, crossed>>
    BY <1>2 DEF Geom!Commit, Geom!outs, Geom!passes
  <2>2. box' = <<planned, rendered'>> BY <2>1
  <2> QED BY <2>1, <2>2, GeomHappens, GeomRender
<1> QED BY <1>1, <1>2

\* The client asks for a geometry.
LEMMA GeomAsk == ASSUME GeomInv, Geom!Ask PROVE GeomInv'
<1>i. GeomTypes /\ UnderWay /\ ToldX /\ SizesAsked /\ Planned BY DEF GeomInv
<1>a. /\ waiting' = TRUE
      /\ UNCHANGED <<xKind, xMode, virt, box, planned, rendered, cfgSent, mirror, sentGeom, real, has, output, grace,
                     dirtyW, dirtyR, xPass, legit, crossed>>
  BY DEF Geom!Ask, Geom!layout, Geom!outs, Geom!passes
<1>e. xEvents' \in 0..XEvents BY GeomHappens DEF Geom!Ask
<1>k. Geom!X11Scale' = Geom!X11Scale BY <1>a DEF Geom!X11Scale
<1>1. PICK g \in Asks : queue' = Append(queue, [type |-> "ask", geom |-> g]) BY DEF Geom!Ask
<1> DEFINE e == [type |-> "ask", geom |-> g]
<1>2. e \in Sayings /\ e.type = "ask" BY GeometryAssumption DEF Sayings, Geoms
<1>3. queue' = Append(queue, e) BY <1>1
<1> HIDE DEF e
<1>4. queue \in Seq(Sayings) /\ EndsIn(queue, real) BY <1>i DEF GeomTypes, UnderWay
<1> DEFINE w == Append(queue, e)
<1>5. /\ w \in Seq(Sayings) /\ EndsIn(w, real) /\ (NoReport(w) <=> NoReport(queue))
      /\ \A i \in DOMAIN w : (\E j \in DOMAIN queue : w[i] = queue[j]) \/ w[i] = e
  BY <1>2, <1>4, SaidLast
<1>6. queue' = w BY <1>3
<1> HIDE DEF w
<1>7. Sayable(w, Geom!X11Scale, Insisting, xMode = "floating", legit, grace)
  <2>1. Sayable(queue, Geom!X11Scale, Insisting, xMode = "floating", legit, grace) BY <1>i DEF UnderWay
  <2>2. Saying(e, Geom!X11Scale, Insisting, xMode = "floating", legit, grace) BY <1>2 DEF Saying
  <2> QED BY <1>5, <2>1, <2>2 DEF Sayable
<1>8. UnderWay'
  <2>1. Sayable(w, Geom!X11Scale', Insisting', xMode' = "floating", legit', grace')
    BY <1>7, <1>a, <1>k DEF Sayable, Saying, Insisting
  <2>2. /\ (NoReport(queue) /\ sentGeom # None => mirror = real) /\ (sentGeom # None => sentGeom = real)
        /\ (sentGeom = None => NoReport(queue))
    BY <1>i DEF UnderWay
  <2>3. EndsIn(w, real') BY <1>a, <1>5
  <2> QED BY <1>a, <1>5, <1>6, <2>1, <2>2, <2>3 DEF UnderWay
<1>9. GeomTypes' BY <1>a, <1>e, <1>5, <1>6, GeomFields DEF GeomTypes, Geoms, Sayings
<1>10. ToldX' BY <1>i, <1>a, <1>k DEF ToldX, OnGrid, To, From
<1>11. SizesAsked' BY <1>i, <1>a, <1>k DEF SizesAsked, From
<1>12. Planned' BY <1>i, <1>a, <1>k DEF Planned, To
<1> QED BY <1>8, <1>9, <1>10, <1>11, <1>12 DEF GeomInv

\* A report is taken over the mirror.
LEMMA GeomReport == ASSUME GeomInv, Geom!Report PROVE GeomInv'
<1> DEFINE s == Geom!X11Scale
           h == Head(queue)
           w == Tail(queue)
<1>i. GeomTypes /\ UnderWay /\ ToldX /\ SizesAsked /\ Planned BY DEF GeomInv
<1>a. /\ queue # <<>> /\ h.type = "report" /\ mirror' = h.geom /\ crossed' = (crossed \/ mirror' # sentGeom)
      /\ queue' = w
      /\ UNCHANGED <<xKind, xMode, virt, box, planned, rendered, cfgSent, sentGeom, real, has, waiting, output, grace,
                     dirtyW, dirtyR, xPass, legit, xEvents>>
  BY DEF Geom!Report, Geom!layout, Geom!client, Geom!outs, Geom!passes
<1>k. Geom!X11Scale' = s BY <1>a DEF Geom!X11Scale
<1>1. queue \in Seq(Sayings) /\ EndsIn(queue, real) BY <1>i DEF GeomTypes, UnderWay
<1>2. /\ w \in Seq(Sayings) /\ h \in Sayings /\ EndsIn(w, real) /\ 1 \in DOMAIN queue /\ h = queue[1]
      /\ \A i \in DOMAIN w : \E j \in DOMAIN queue : w[i] = queue[j]
      /\ NoReport(w) => IF h.type = "report" THEN h.geom = real ELSE NoReport(queue)
  BY <1>a, <1>1, SaidFirst
<1> HIDE DEF h, w
<1>3. Sayable(queue, s, Insisting, xMode = "floating", legit, grace) BY <1>i DEF UnderWay
<1>4. OnGrid(s, h.geom[2]) /\ (xMode = "floating" => From(s, h.geom[2]) \in legit)
  BY <1>a, <1>2, <1>3 DEF Sayable, Saying
<1>5. sentGeom # None /\ sentGeom = real
  <2>1. ~NoReport(queue) BY <1>a, <1>2 DEF NoReport
  <2> QED BY <1>i, <2>1 DEF UnderWay
<1>6. Sayable(w, s, Insisting, xMode = "floating", legit, grace) BY <1>2, <1>3 DEF Sayable
<1> HIDE DEF s
<1>7. UnderWay'
  <2>1. Sayable(w, Geom!X11Scale', Insisting', xMode' = "floating", legit', grace')
    BY <1>6, <1>a, <1>k DEF Sayable, Saying, Insisting
  <2>2. EndsIn(w, real') BY <1>a, <1>2
  <2> QED BY <1>a, <1>2, <1>5, <2>1, <2>2 DEF UnderWay
<1>8. h.geom \in Geoms BY <1>2 DEF Sayings
<1>9. crossed' \in BOOLEAN BY <1>a
<1>10. GeomTypes' BY <1>a, <1>2, <1>8, <1>9, GeomFields DEF GeomTypes, Geoms, Sayings
<1>11. ~crossed' => ~crossed /\ mirror' = sentGeom /\ mirror' = mirror
  <2>1. crossed \in BOOLEAN BY GeomFields
  <2> QED BY <1>a, <1>i, <1>5, <2>1 DEF ToldX
<1>12. ToldX'
  <2>1. OnGrid(Geom!X11Scale', mirror'[2]) BY <1>a, <1>k, <1>4
  <2>2. xMode = "fullscreen" => sentGeom[1] = 0 BY <1>i, <1>5 DEF ToldX
  <2> QED BY <1>a, <1>5, <1>11, <2>1, <2>2 DEF ToldX
<1>13. SizesAsked' BY <1>i, <1>a, <1>k, <1>4 DEF SizesAsked, From, s
<1>14. Planned' BY <1>i, <1>a, <1>k, <1>11 DEF Planned, To, s
<1> QED BY <1>7, <1>10, <1>12, <1>13, <1>14 DEF GeomInv

\* The first request under way, and what is under way behind it.
LEMMA FirstRequest ==
    ASSUME GeomInv, Geom!Request
    PROVE  /\ Tail(queue) \in Seq(Sayings) /\ Head(queue) \in Sayings /\ EndsIn(Tail(queue), real)
           /\ Sayable(Tail(queue), Geom!X11Scale, Insisting, xMode = "floating", legit, grace)
           /\ Saying(Head(queue), Geom!X11Scale, Insisting, xMode = "floating", legit, grace)
           /\ Head(queue).geom[1] \in Int /\ Head(queue).geom[2] \in Int /\ Head(queue).type # "report"
<1> DEFINE h == Head(queue)
           w == Tail(queue)
<1>1. queue # <<>> /\ h.type # "report" BY DEF Geom!Request
<1>2. /\ queue \in Seq(Sayings) /\ EndsIn(queue, real)
      /\ Sayable(queue, Geom!X11Scale, Insisting, xMode = "floating", legit, grace)
  BY DEF GeomInv, GeomTypes, UnderWay
<1>3. /\ w \in Seq(Sayings) /\ h \in Sayings /\ EndsIn(w, real) /\ 1 \in DOMAIN queue /\ h = queue[1]
      /\ \A i \in DOMAIN w : \E j \in DOMAIN queue : w[i] = queue[j]
  BY <1>1, <1>2, SaidFirst
<1> HIDE DEF h, w
<1>4. h.geom[1] \in Int /\ h.geom[2] \in Int BY <1>3 DEF Sayings, Geoms
<1>5. Sayable(w, Geom!X11Scale, Insisting, xMode = "floating", legit, grace) BY <1>2, <1>3 DEF Sayable
<1>6. Saying(h, Geom!X11Scale, Insisting, xMode = "floating", legit, grace) BY <1>2, <1>3 DEF Sayable
<1> QED BY <1>1, <1>3, <1>4, <1>5, <1>6 DEF h, w

\* A window that places itself is where it asked to be, and the layout has it there.
LEMMA GeomSelfPlaced == ASSUME GeomInv, Geom!GrantSelfPlaced PROVE GeomInv'
<1> DEFINE s == Geom!X11Scale
           a == Head(queue).geom
           l == Geom!Granted(a)
           g == <<To(s, l[1]), To(s, l[2])>>
<1>i. GeomTypes /\ UnderWay /\ ToldX /\ SizesAsked /\ Planned BY DEF GeomInv
<1>s. s \in Nat \ {0} /\ (xKind = "exempt" => s = 1) BY ScaleOfX11
<1>a. /\ Geom!Request /\ xKind \in {"parented", "exempt"} /\ xMode = "floating"
      /\ Geom!Tell(IF xKind = "exempt" THEN l ELSE <<Geom!SnapX11(a[1]), Geom!SnapX11(a[2])>>, Tail(queue))
      /\ box' = l /\ planned' = l[1] /\ virt' = l[1] /\ rendered' = l[2]
      /\ dirtyR' = (dirtyR \/ <<planned, rendered>> # l) /\ legit' = legit \cup {l[2]}
      /\ UNCHANGED <<xKind, xMode, cfgSent, output, grace, dirtyW, xPass, crossed, xEvents>>
  BY DEF Geom!GrantSelfPlaced, Geom!SelfPlaced, Geom!Pos, Geom!Size, Geom!NewOrigin, Geom!outs
<1>k. Geom!X11Scale' = s BY <1>a DEF Geom!X11Scale
<1>1. /\ Tail(queue) \in Seq(Sayings) /\ EndsIn(Tail(queue), real) /\ a[1] \in Int /\ a[2] \in Int
      /\ Sayable(Tail(queue), s, Insisting, xMode = "floating", legit, grace)
  BY <1>a, FirstRequest
<1>2. From(s, a[1]) \in Int /\ From(s, a[2]) \in Int /\ Screen \in Int BY <1>s, <1>1, Pixels, GeomFields
<1>3. l \in Geoms /\ (xKind # "exempt" => l = <<From(s, a[1]), From(s, a[2])>>)
  <2>1. Geom!FromX11(a[1]) = From(s, a[1]) /\ Geom!FromX11(a[2]) = From(s, a[2]) BY ScaleOfX11
  <2>2. \A x, y \in Int : Geom!LeastOf(x, y) \in Int BY DEF Geom!LeastOf
  <2> DEFINE wd == Geom!LeastOf(From(s, a[2]), Screen)
             ps == Geom!LeastOf(From(s, a[1]), Screen - wd)
  <2>3. l = IF xKind = "exempt" /\ output THEN <<ps, wd>> ELSE <<From(s, a[1]), From(s, a[2])>>
    BY <2>1 DEF Geom!Granted, Geom!Pos, Geom!Size
  <2>4. wd \in Int BY <1>2, <2>2
  <2> HIDE DEF wd
  <2>5. Screen - wd \in Int BY <1>2, <2>4
  <2>6. ps \in Int BY <1>2, <2>2, <2>5
  <2> HIDE DEF ps, l, s
  <2> QED BY <1>2, <2>3, <2>4, <2>6 DEF Geoms
<1>4. l[1] \in Int /\ l[2] \in Int /\ l = <<l[1], l[2]>> BY <1>3 DEF Geoms
<1>5. /\ To(s, l[1]) \in Int /\ To(s, l[2]) \in Int /\ From(s, To(s, l[2])) = l[2] /\ OnGrid(s, To(s, l[2]))
  BY <1>s, <1>4, Pixels
<1>6. (IF xKind = "exempt" THEN l ELSE <<Geom!SnapX11(a[1]), Geom!SnapX11(a[2])>>) = g
  <2>1. CASE xKind = "exempt"
    <3>1. To(s, l[1]) = l[1] /\ To(s, l[2]) = l[2] BY <1>s, <1>4, <2>1 DEF To
    <3> QED BY <1>4, <2>1, <3>1
  <2>2. CASE xKind # "exempt"
    <3>1. Geom!SnapX11(a[1]) = To(s, From(s, a[1])) /\ Geom!SnapX11(a[2]) = To(s, From(s, a[2])) BY ScaleOfX11
    <3>2. l[1] = From(s, a[1]) /\ l[2] = From(s, a[2]) BY <1>3, <2>2
    <3> QED BY <2>2, <3>1, <3>2
  <2> QED BY <2>1, <2>2
<1> HIDE DEF l
<1>7. g \in Geoms /\ g[1] = To(s, l[1]) /\ g[2] = To(s, l[2]) BY <1>5 DEF Geoms
<1>8. Geom!Tell(g, Tail(queue)) BY <1>a, <1>6
<1> HIDE DEF g, s
<1>9. XHas(g, legit')
  <2>1. Sayable(Tail(queue), s, Insisting, xMode = "floating", legit', grace)
    <3>1. legit \subseteq legit' BY <1>a
    <3> QED BY <1>1, <3>1, SayableStill
  <2>2. OnGrid(s, g[2]) /\ From(s, g[2]) \in legit' BY <1>a, <1>5, <1>7
  <2> QED BY <1>i, <1>1, <1>7, <1>8, <2>1, <2>2, Tells DEF s
<1>10. /\ UnderWay' /\ ToldX' /\ {real, mirror, sentGeom, has}' \subseteq Geoms
       /\ queue' \in Seq(Sayings) /\ waiting' \in BOOLEAN
  <2>1. OnGrid(s, g[2]) BY <1>5, <1>7
  <2>2. xMode # "fullscreen" BY <1>a
  <2> QED BY <1>a, <1>7, <1>9, <2>1, <2>2, XKeeps DEF s
<1>11. mirror' = g BY <1>9 DEF XHas
<1>12. dirtyR' \in BOOLEAN BY <1>a
<1>13. GeomTypes' BY <1>a, <1>3, <1>4, <1>10, <1>12, GeomFields DEF GeomTypes, Geoms, Sayings
<1>14. SizesAsked'
  <2>1. From(Geom!X11Scale', mirror'[2]) = l[2] BY <1>5, <1>7, <1>11, <1>k DEF s
  <2> QED BY <1>a, <1>i, <2>1 DEF SizesAsked
<1>15. Planned'
  <2>1. g = <<To(s, Origin(xMode, l[1])), To(s, l[2])>> BY <1>a DEF g, Origin
  <2>2. Geom!X11Scale' = s BY <1>k DEF s
  <2> QED BY <1>a, <1>4, <1>11, <2>1, <2>2 DEF Planned
<1> QED BY <1>10, <1>13, <1>14, <1>15 DEF GeomInv

\* Any other window is given the place the layout has it at, and the size it may have.
LEMMA GeomOther == ASSUME GeomInv, Geom!GrantOther PROVE GeomInv'
<1> DEFINE s == Geom!X11Scale
           asked_ == Head(queue).geom[2]
           own == IF cfgSent # None THEN cfgSent ELSE box[2]
           held_ == xMode # "floating" \/ grace
           k == IF held_ THEN own ELSE From(s, asked_)
           g == <<To(s, Origin(xMode, box[1])), To(s, k)>>
<1>i. GeomTypes /\ UnderWay /\ ToldX /\ SizesAsked /\ Planned BY DEF GeomInv
<1>t. /\ box \in Geoms /\ box[1] \in Int /\ box[2] \in Int /\ cfgSent \in Int \cup {None} /\ rendered \in Int
      /\ {grace, dirtyW, dirtyR, crossed} \subseteq BOOLEAN /\ None \notin Int
  BY GeomFields
<1>s. s \in Nat \ {0} BY ScaleOfX11
<1>a. /\ Geom!Request /\ ~(xKind \in {"parented", "exempt"} /\ xMode = "floating")
      /\ Geom!Tell(g, Tail(queue))
      /\ dirtyR' = (dirtyR \/ Geom!FromX11(To(s, k)) # rendered)
      /\ legit' = IF xMode = "floating" /\ Head(queue).type = "ask" /\ ~grace
                  THEN legit \cup {From(s, asked_)} ELSE legit
      /\ UNCHANGED <<xKind, xMode, virt, box, planned, rendered, cfgSent, output, grace, dirtyW, xPass, crossed, xEvents>>
  <2>1. \A v : Geom!ToX11(v) = To(s, v) /\ Geom!FromX11(v) = From(s, v) /\ Geom!X11Origin(v) = Origin(xMode, v)
               /\ Geom!SnapX11(v) = To(s, From(s, v))
    BY ScaleOfX11
  <2>2. (IF Geom!HoldSize THEN Geom!ToX11(own) ELSE Geom!SnapX11(asked_)) = To(s, k) BY <2>1 DEF Geom!HoldSize
  <2>3. Geom!ToX11(Geom!X11Origin(box[1])) = To(s, Origin(xMode, box[1])) BY <2>1
  <2> HIDE DEF k, held_, own, s
  <2> QED BY <2>1, <2>2, <2>3
    DEF Geom!GrantOther, Geom!SelfPlaced, Geom!Pos, Geom!Size, Geom!layout, Geom!outs, own
<1>k. Geom!X11Scale' = s BY <1>a DEF Geom!X11Scale
<1>1. /\ Tail(queue) \in Seq(Sayings) /\ EndsIn(Tail(queue), real) /\ asked_ \in Int
      /\ Sayable(Tail(queue), s, Insisting, xMode = "floating", legit, grace)
      /\ Saying(Head(queue), s, Insisting, xMode = "floating", legit, grace)
      /\ Head(queue) \in Sayings /\ Head(queue).type # "report"
  BY <1>a, FirstRequest
<1>2. From(s, asked_) \in Int BY <1>s, <1>1, Pixels
<1>3. k \in Int BY <1>t, <1>2
<1>4. legit \subseteq legit' BY <1>a
<1>5. xMode = "floating" => k \in legit'
  <2> HAVE xMode = "floating"
  <2>1. CASE grace
    <3>1. box[2] \in legit /\ (cfgSent # None => cfgSent \in legit) BY <1>i DEF SizesAsked
    <3>2. k = own BY <2>1
    <3> QED BY <1>4, <3>1, <3>2
  <2>2. CASE ~grace
    <3>1. Head(queue).type # "reassert" BY <1>1, <2>2 DEF Saying
    <3>2. Head(queue).type # "again"
      <4>1. ~Insisting BY <1>a DEF Insisting
      <4> QED BY <1>1, <4>1 DEF Saying
    <3>3. Head(queue).type = "ask" BY <1>1, <3>1, <3>2 DEF Sayings
    <3>4. k = From(s, asked_) BY <2>2
    <3> QED BY <1>a, <2>2, <3>3, <3>4
  <2> QED BY <2>1, <2>2
<1>6. xMode # "floating" /\ cfgSent # None => k = cfgSent OBVIOUS
<1> HIDE DEF k
<1>7. To(s, k) \in Int /\ From(s, To(s, k)) = k /\ OnGrid(s, To(s, k)) BY <1>s, <1>3, Pixels
<1>8. To(s, Origin(xMode, box[1])) \in Int /\ (xMode = "fullscreen" => To(s, Origin(xMode, box[1])) = 0)
  <2>1. Origin(xMode, box[1]) \in Int BY <1>t DEF Origin
  <2>2. To(s, Origin(xMode, box[1])) \in Int BY <1>s, <2>1, Pixels
  <2>3. xMode = "fullscreen" => To(s, Origin(xMode, box[1])) = 0 BY <1>s DEF Origin, To
  <2> QED BY <2>2, <2>3
<1>9. g \in Geoms /\ g[1] = To(s, Origin(xMode, box[1])) /\ g[2] = To(s, k) BY <1>7, <1>8 DEF Geoms
<1>10. g = <<To(s, Origin(xMode, box[1])), To(s, k)>> OBVIOUS
<1> HIDE DEF g
<1>11. OnGrid(s, g[2]) /\ (xMode = "floating" => From(s, g[2]) \in legit') BY <1>5, <1>7, <1>9
<1>12. XHas(g, legit')
  <2>1. Sayable(Tail(queue), s, Insisting, xMode = "floating", legit', grace) BY <1>1, <1>4, SayableStill
  <2> QED BY <1>a, <1>i, <1>1, <1>9, <1>11, <2>1, Tells
<1>13. /\ UnderWay' /\ ToldX' /\ {real, mirror, sentGeom, has}' \subseteq Geoms
       /\ queue' \in Seq(Sayings) /\ waiting' \in BOOLEAN
  BY <1>a, <1>8, <1>9, <1>11, <1>12, XKeeps
<1>14. mirror' = g BY <1>12 DEF XHas
<1>15. dirtyR' = (dirtyR \/ k # rendered)
  <2>1. Geom!FromX11(To(s, k)) = From(s, To(s, k)) BY ScaleOfX11
  <2> QED BY <1>a, <1>7, <2>1
<1>16. dirtyR' \in BOOLEAN BY <1>15
<1>17. GeomTypes' BY <1>a, <1>13, <1>16, GeomFields DEF GeomTypes, Geoms, Sayings
<1>18. SizesAsked'
  <2>1. From(Geom!X11Scale', mirror'[2]) = k BY <1>7, <1>9, <1>14, <1>k
  <2> HIDE DEF s
  <2> QED BY <1>a, <1>i, <1>4, <1>5, <2>1 DEF SizesAsked
<1> HIDE DEF s
<1>19. Planned'
  <2>1. Geom!X11Scale' = s BY <1>k DEF s
  <2>2. /\ (~dirtyW /\ output /\ xMode = "tiled" => planned = Tile[1])
        /\ (~dirtyW /\ output /\ xMode = "floating" => planned = virt)
        /\ (xMode = "fullscreen" => output)
        /\ (~crossed /\ ~dirtyW /\ output /\ xMode = "tiled" => cfgSent = Tile[2])
        /\ (~crossed /\ ~dirtyW /\ xMode = "fullscreen" => cfgSent = Screen)
        /\ (~crossed /\ ~dirtyW /\ ~dirtyR /\ xPass = "idle" => box = <<planned, rendered>>)
    BY <1>i DEF Planned
  <2>3. ~crossed /\ xMode # "floating" /\ cfgSent # None => g[2] = To(s, cfgSent) BY <1>6, <1>9
  <2>4. ~crossed /\ ~dirtyW /\ ~dirtyR' /\ xPass = "idle"
        => box = <<planned, rendered>> /\ g = <<To(s, Origin(xMode, planned)), To(s, rendered)>>
    <3> HAVE ~crossed /\ ~dirtyW /\ ~dirtyR' /\ xPass = "idle"
    <3>1. ~dirtyR /\ k = rendered BY <1>t, <1>15
    <3>2. box = <<planned, rendered>> BY <2>2, <3>1
    <3>3. box[1] = planned BY <3>2
    <3> QED BY <1>10, <3>1, <3>2, <3>3
  <2> QED BY <1>a, <1>14, <2>1, <2>2, <2>3, <2>4 DEF Planned
<1> QED BY <1>13, <1>17, <1>18, <1>19 DEF GeomInv

\* What the user does to the window waits for a pass.
LEMMA GeomUser == ASSUME GeomInv, Geom!Move \/ Geom!Resize PROVE GeomInv'
<1>i. GeomTypes /\ UnderWay /\ ToldX /\ SizesAsked /\ Planned BY DEF GeomInv
<1>e. xEvents' \in 0..XEvents BY GeomHappens DEF Geom!Move, Geom!Resize
<1> DEFINE Still == UNCHANGED <<xKind, xMode, planned, rendered, cfgSent, mirror, sentGeom, real, queue, has, waiting, output,
                               grace, dirtyR, xPass, crossed>>
<1>1. \E w \in Int :
        /\ virt' \in Int /\ box' \in Geoms /\ (box' = box \/ box'[2] = w) /\ dirtyW' = TRUE
        /\ (legit' = legit /\ box' = box) \/ legit' = legit \cup {w}
        /\ Still
  <2>1. CASE Geom!Move
    <3>1. virt' \in XSpots /\ dirtyW' = TRUE /\ legit' = legit /\ box' = box
          /\ Still
      BY <2>1 DEF Geom!Move, Geom!xside, Geom!client, Geom!outs
    <3>2. virt' \in Int /\ box \in Geoms /\ 0 \in Int BY <3>1, GeometryAssumption, GeomFields
    <3> QED BY <3>1, <3>2
  <2>2. CASE Geom!Resize
    <3>1. PICK w \in XSizes : box' = <<box[1], w>> /\ legit' = legit \cup {w} BY <2>2 DEF Geom!Resize, Geom!Pos
    <3>2. dirtyW' = TRUE /\ virt' = virt
          /\ Still
      BY <2>2 DEF Geom!Resize, Geom!xside, Geom!client, Geom!outs
    <3>3. w \in Int /\ virt \in Int /\ box[1] \in Int BY GeometryAssumption, GeomFields
    <3>4. box' \in Geoms /\ box'[2] = w BY <3>1, <3>3 DEF Geoms
    <3> QED BY <3>1, <3>2, <3>3, <3>4
  <2> QED BY <2>1, <2>2
<1>2. PICK w \in Int :
        /\ virt' \in Int /\ box' \in Geoms /\ (box' = box \/ box'[2] = w) /\ dirtyW' = TRUE
        /\ ((legit' = legit /\ box' = box) \/ legit' = legit \cup {w})
        /\ Still
  BY <1>1
<1>3. legit \subseteq legit' /\ (box' = box \/ box'[2] \in legit') BY <1>2
<1>k. Geom!X11Scale' = Geom!X11Scale BY <1>2 DEF Geom!X11Scale
<1>4. GeomTypes' BY <1>2, <1>e, GeomFields DEF GeomTypes, Geoms, Sayings
<1>5. UnderWay'
  <2>1. Sayable(queue, Geom!X11Scale, Insisting, xMode = "floating", legit, grace) BY <1>i DEF UnderWay
  <2>2. Sayable(queue, Geom!X11Scale, Insisting, xMode = "floating", legit', grace) BY <1>3, <2>1, SayableStill
  <2>3. Sayable(queue', Geom!X11Scale', Insisting', xMode' = "floating", legit', grace')
    BY <1>2, <1>k, <2>2 DEF Sayable, Saying, Insisting
  <2>4. /\ EndsIn(queue, real) /\ (NoReport(queue) /\ sentGeom # None => mirror = real)
        /\ (sentGeom # None => sentGeom = real) /\ (sentGeom = None => NoReport(queue))
    BY <1>i DEF UnderWay
  <2>5. EndsIn(queue', real') /\ (NoReport(queue') <=> NoReport(queue)) BY <1>2, <2>4 DEF EndsIn, NoReport
  <2> QED BY <1>2, <2>3, <2>4, <2>5 DEF UnderWay
<1>6. ToldX' BY <1>i, <1>2, <1>k DEF ToldX, OnGrid, To, From
<1>7. SizesAsked'
  <2>1. From(Geom!X11Scale', mirror'[2]) = From(Geom!X11Scale, mirror[2]) BY <1>2, <1>k
  <2> QED BY <1>i, <1>2, <1>3, <2>1 DEF SizesAsked
<1>8. Planned' BY <1>i, <1>2, <1>k DEF Planned, To
<1> QED BY <1>4, <1>5, <1>6, <1>7, <1>8 DEF GeomInv

\* The output comes and goes, and the client may answer that while the grace lasts.
LEMMA GeomOutput == ASSUME GeomInv, Geom!OutputChange PROVE GeomInv'
<1>i. GeomTypes /\ UnderWay /\ ToldX /\ SizesAsked /\ Planned BY DEF GeomInv
<1>e. xEvents' \in 0..XEvents BY GeomHappens DEF Geom!OutputChange
<1>a. /\ xMode # "fullscreen" /\ output' = ~output /\ grace' = TRUE /\ dirtyW' = TRUE
      /\ UNCHANGED <<xKind, xMode, virt, box, planned, rendered, cfgSent, mirror, sentGeom, real, has, waiting,
                     dirtyR, xPass, legit, crossed>>
  BY DEF Geom!OutputChange, Geom!layout, Geom!client
<1>k. Geom!X11Scale' = Geom!X11Scale BY <1>a DEF Geom!X11Scale
<1>q. /\ queue \in Seq(Sayings) /\ EndsIn(queue, real)
      /\ Sayable(queue, Geom!X11Scale, Insisting, xMode = "floating", legit, TRUE)
  <2>1. Sayable(queue, Geom!X11Scale, Insisting, xMode = "floating", legit, grace) BY <1>i DEF UnderWay
  <2> QED BY <1>i, <2>1 DEF GeomTypes, UnderWay, Sayable, Saying
<1>1. /\ queue' \in Seq(Sayings) /\ EndsIn(queue', real) /\ (NoReport(queue') <=> NoReport(queue))
      /\ Sayable(queue', Geom!X11Scale, Insisting, xMode = "floating", legit, TRUE)
  <2>1. CASE queue' = queue BY <1>q, <2>1
  <2>2. CASE \E g \in Asks : queue' = Append(queue, [type |-> "reassert", geom |-> g])
    <3>1. PICK g \in Asks : queue' = Append(queue, [type |-> "reassert", geom |-> g]) BY <2>2
    <3> DEFINE e == [type |-> "reassert", geom |-> g]
    <3>2. e \in Sayings /\ e.type = "reassert" BY GeometryAssumption DEF Sayings, Geoms
    <3>3. queue' = Append(queue, e) BY <3>1
    <3> HIDE DEF e
    <3> DEFINE w == Append(queue, e)
    <3>4. /\ w \in Seq(Sayings) /\ EndsIn(w, real) /\ (NoReport(w) <=> NoReport(queue))
          /\ \A i \in DOMAIN w : (\E j \in DOMAIN queue : w[i] = queue[j]) \/ w[i] = e
      BY <1>q, <3>2, SaidLast
    <3>5. queue' = w BY <3>3
    <3> HIDE DEF w
    <3>6. Saying(e, Geom!X11Scale, Insisting, xMode = "floating", legit, TRUE) BY <3>2 DEF Saying
    <3>7. Sayable(w, Geom!X11Scale, Insisting, xMode = "floating", legit, TRUE) BY <1>q, <3>4, <3>6 DEF Sayable
    <3> QED BY <3>4, <3>5, <3>7
  <2> QED BY <2>1, <2>2 DEF Geom!OutputChange
<1>2. UnderWay'
  <2>1. Sayable(queue', Geom!X11Scale', Insisting', xMode' = "floating", legit', grace')
    BY <1>a, <1>k, <1>1 DEF Sayable, Saying, Insisting
  <2>2. /\ (NoReport(queue) /\ sentGeom # None => mirror = real)
        /\ (sentGeom # None => sentGeom = real) /\ (sentGeom = None => NoReport(queue))
    BY <1>i DEF UnderWay
  <2>3. EndsIn(queue', real') BY <1>a, <1>1
  <2> QED BY <1>a, <1>1, <2>1, <2>2, <2>3 DEF UnderWay
<1>3. output' \in BOOLEAN BY <1>a
<1>4. GeomTypes' BY <1>a, <1>e, <1>1, <1>3, GeomFields DEF GeomTypes, Geoms, Sayings
<1>5. ToldX' BY <1>i, <1>a, <1>k DEF ToldX, OnGrid, To, From
<1>6. SizesAsked' BY <1>i, <1>a, <1>k DEF SizesAsked, From
<1>7. Planned' BY <1>i, <1>a, <1>k DEF Planned, To
<1> QED BY <1>2, <1>4, <1>5, <1>6, <1>7 DEF GeomInv

\* The grace ends with no such answer under way.
LEMMA GeomGrace == ASSUME GeomInv, Geom!GraceEnds PROVE GeomInv'
<1>i. GeomTypes /\ UnderWay /\ ToldX /\ SizesAsked /\ Planned BY DEF GeomInv
<1>a. /\ grace' = FALSE /\ (\A i \in DOMAIN queue : queue[i].type # "reassert")
      /\ UNCHANGED <<xKind, xMode, virt, box, planned, rendered, cfgSent, mirror, sentGeom, real, queue, has, waiting,
                     output, dirtyW, dirtyR, xPass, legit, crossed, xEvents>>
  BY DEF Geom!GraceEnds, Geom!layout, Geom!xside, Geom!client, Geom!passes
<1>k. Geom!X11Scale' = Geom!X11Scale BY <1>a DEF Geom!X11Scale
<1>1. UnderWay'
  <2>1. Sayable(queue, Geom!X11Scale, Insisting, xMode = "floating", legit, grace) BY <1>i DEF UnderWay
  <2>2. Sayable(queue', Geom!X11Scale', Insisting', xMode' = "floating", legit', grace')
    BY <1>a, <1>k, <2>1 DEF Sayable, Saying, Insisting
  <2>3. /\ EndsIn(queue, real) /\ (NoReport(queue) /\ sentGeom # None => mirror = real)
        /\ (sentGeom # None => sentGeom = real) /\ (sentGeom = None => NoReport(queue))
    BY <1>i DEF UnderWay
  <2>4. EndsIn(queue', real') /\ (NoReport(queue') <=> NoReport(queue)) BY <1>a, <2>3 DEF EndsIn, NoReport
  <2> QED BY <1>a, <2>2, <2>3, <2>4 DEF UnderWay
<1>2. GeomTypes' BY <1>a, GeomFields DEF GeomTypes, Geoms, Sayings
<1>3. ToldX' BY <1>i, <1>a, <1>k DEF ToldX, OnGrid, To, From
<1>4. SizesAsked' BY <1>i, <1>a, <1>k DEF SizesAsked, From
<1>5. Planned' BY <1>i, <1>a, <1>k DEF Planned, To
<1> QED BY <1>1, <1>2, <1>3, <1>4, <1>5 DEF GeomInv

\* Every step of the exchange with X keeps all of it.
LEMMA GeomNext == ASSUME GeomInv, [Geom!Next]_(Geom!vars) PROVE GeomInv'
<1>1. CASE Geom!Next
  BY <1>1, GeomPassStart, GeomPassEnd, GeomAsk, GeomReport, GeomSelfPlaced, GeomOther, GeomUser, GeomOutput, GeomGrace
  DEF Geom!Next
<1>2. CASE UNCHANGED Geom!vars
  <2>i. GeomTypes /\ UnderWay /\ ToldX /\ SizesAsked /\ Planned BY DEF GeomInv
  <2>a. UNCHANGED <<xKind, xMode, virt, box, planned, rendered, cfgSent, mirror, sentGeom, real, queue, has, waiting,
                    output, grace, dirtyW, dirtyR, xPass, legit, crossed, xEvents>>
    BY <1>2 DEF Geom!vars, Geom!layout, Geom!xside, Geom!client, Geom!outs, Geom!passes
  <2>k. Geom!X11Scale' = Geom!X11Scale BY <2>a DEF Geom!X11Scale
  <2>1. UnderWay' BY <2>i, <2>a, <2>k DEF UnderWay, Sayable, Saying, Insisting, EndsIn, NoReport, OnGrid, To, From
  <2>2. GeomTypes' BY <2>i, <2>a DEF GeomTypes, Geoms, Sayings
  <2>3. ToldX' BY <2>i, <2>a, <2>k DEF ToldX, OnGrid, To, From
  <2>4. SizesAsked' BY <2>i, <2>a, <2>k DEF SizesAsked, From
  <2>5. Planned' BY <2>i, <2>a, <2>k DEF Planned, To
  <2> QED BY <2>1, <2>2, <2>3, <2>4, <2>5 DEF GeomInv
<1> QED BY <1>1, <1>2

\* Settled, X and the layout agree, and a floating window has a size that was asked for.
LEMMA GeomSound == GeomInv => Geom!TypeOK /\ Geom!SettledAgrees /\ Geom!SizeWasAskedFor
<1> HAVE GeomInv
<1>i. GeomTypes /\ UnderWay /\ ToldX /\ SizesAsked /\ Planned BY DEF GeomInv
<1>1. Geom!TypeOK BY GeomFields DEF Geom!TypeOK, Geom!Size, Geom!Pos
<1>2. Geom!SizeWasAskedFor BY <1>i DEF Geom!SizeWasAskedFor, SizesAsked, Geom!Size
<1>3. Geom!SettledAgrees
  <2> SUFFICES ASSUME xPass = "idle", ~dirtyW, ~dirtyR, queue = <<>>
               PROVE  /\ real = mirror /\ real = sentGeom
                      /\ (xMode = "fullscreen" => real[1] = 0)
                      /\ ~crossed => /\ real = <<Geom!ToX11(Geom!X11Origin(box[1])), Geom!ToX11(box[2])>>
                                     /\ (xMode = "tiled" /\ output => box = Tile)
                                     /\ (xMode = "floating" /\ output => box[1] = virt)
                                     /\ (xMode = "fullscreen" => box[2] = Screen)
    BY DEF Geom!SettledAgrees, Geom!Settled, Geom!Pos, Geom!Size
  <2>1. sentGeom # None BY <1>i DEF ToldX
  <2>2. NoReport(queue)
    <3>1. DOMAIN queue = {} OBVIOUS
    <3> QED BY <3>1 DEF NoReport
  <2>3. real = mirror /\ real = sentGeom BY <1>i, <2>1, <2>2 DEF UnderWay
  <2>4. xMode = "fullscreen" => real[1] = 0 BY <1>i, <2>1, <2>3 DEF ToldX
  <2> DEFINE s == Geom!X11Scale
  <2>5. ASSUME ~crossed
        PROVE  /\ real = <<To(s, Origin(xMode, box[1])), To(s, box[2])>>
               /\ (xMode = "tiled" /\ output => box = Tile)
               /\ (xMode = "floating" /\ output => box[1] = virt)
               /\ (xMode = "fullscreen" => box[2] = Screen)
    <3>1. box = <<planned, rendered>> /\ mirror = <<To(s, Origin(xMode, planned)), To(s, rendered)>>
      BY <1>i, <2>5 DEF Planned
    <3>2. box[1] = planned /\ box[2] = rendered /\ mirror[2] = To(s, rendered) BY <3>1
    <3>3. From(s, To(s, rendered)) = rendered BY GeomFields, Pixels
    <3>4. ASSUME NEW k \in Int, cfgSent = k, xMode # "floating" PROVE rendered = k
      <4>1. cfgSent # None BY <3>4, CameraAssumption
      <4>2. mirror[2] = To(s, k) BY <1>i, <2>5, <3>4, <4>1 DEF Planned
      <4>3. From(s, To(s, k)) = k BY GeomFields, Pixels
      <4> QED BY <3>2, <3>3, <4>2, <4>3
    <3>5. xMode = "tiled" /\ output => box = Tile
      <4> HAVE xMode = "tiled" /\ output
      <4>1. planned = Tile[1] /\ cfgSent = Tile[2] BY <1>i, <2>5 DEF Planned
      <4>2. Tile[2] \in Int BY GeomFields
      <4>3. rendered = Tile[2] BY <3>4, <4>1, <4>2
      <4>4. Tile = <<Tile[1], Tile[2]>> BY GeometryAssumption
      <4> QED BY <3>1, <4>1, <4>3, <4>4
    <3>6. xMode = "fullscreen" => box[2] = Screen
      <4>1. xMode = "fullscreen" => cfgSent = Screen BY <1>i, <2>5 DEF Planned
      <4>2. Screen \in Int BY GeomFields
      <4> QED BY <3>2, <3>4, <4>1, <4>2
    <3>7. xMode = "floating" /\ output => box[1] = virt BY <1>i, <3>2 DEF Planned
    <3>8. real = <<To(s, Origin(xMode, box[1])), To(s, box[2])>> BY <2>3, <3>1, <3>2
    <3> QED BY <3>5, <3>6, <3>7, <3>8
  <2>6. <<Geom!ToX11(Geom!X11Origin(box[1])), Geom!ToX11(box[2])>> = <<To(s, Origin(xMode, box[1])), To(s, box[2])>>
    BY ScaleOfX11
  <2> HIDE DEF s
  <2> QED BY <2>3, <2>4, <2>5, <2>6
<1> QED BY <1>1, <1>2, <1>3
--------------------
(* What new windows get back (Restore).                                    *)

Comings == [state : {"away", "ready", "mapped"}, named : BOOLEAN, title : Back!Titles, parent : BOOLEAN,
            done : BOOLEAN, from : {"none", "queue", "last"}, chosen : BOOLEAN, rank : Nat, at : Int,
            sat : BOOLEAN]
Distinct(l) == \A i, j \in DOMAIN l : l[i] = l[j] => i = j
\* p has no more plates of a title than q has entries.
PlatesFit(p, q) == \A u \in Back!Titles : p[u] <= Cardinality({i \in DOMAIN q : q[i].title = u})

BackTypes ==
    /\ rWin \in [Comers -> Comings] /\ rQueue \in Seq(Entries) /\ last \in Seq(Slots)
    /\ plates \in [Back!Titles -> Nat] /\ {timer, awaited, arrived, input, over} \subseteq BOOLEAN
    /\ list \in Seq(Comers) /\ rFocus \in Comers \cup {None}
    /\ userAt \in [Comers -> {None} \cup [at : Int, done : BOOLEAN]]

\* A render list of windows W: it holds what is linked, once, and in the saved order.
LinkedIn(v, W) == W[v].state = "mapped" \/ (W[v].state = "ready" /\ v \notin X11)
StackFits(l, W) ==
    /\ l \in Seq(Comers) /\ Distinct(l) /\ Back!Ascending(l, W)
    /\ \A i \in DOMAIN l : LinkedIn(l[i], W)

\* A saved place is of a window that was restored, an X11 dialog that is mapped has its
\* parent, and so has what the user put somewhere.
ComingKept(w) ==
    /\ rWin[w].rank > 0 => rWin[w].done
    /\ w \in Dialogs /\ rWin[w].state = "mapped" => rWin[w].parent
    /\ w \in Dialogs \cap X11 => rWin[w].from = "none"
    /\ userAt[w] # None /\ userAt[w].done => rWin[w].done /\ rWin[w].at = userAt[w].at

BackInv ==
    /\ BackTypes /\ StackFits(list, rWin) /\ \A w \in Comers : ComingKept(w)
    /\ PlatesFit(plates, rQueue) /\ (timer <=> \E u \in Back!Titles : plates[u] > 0)
    /\ Back!OneSlotEach /\ Back!HeldForTheChosen
    /\ rFocus \in Back!Is("mapped") \cup {None}

\* Every set of naturals has a least one.
LEMMA LeastNatural ==
  ASSUME NEW T \in SUBSET Nat, T # {}
  PROVE  \E n \in T : \A j \in T : n <= j
<1> DEFINE R == {ss \in Nat \X Nat : ss[1] < ss[2]}
<1>1. IsWellFoundedOn(R, Nat)
  BY NatLessThanWellFounded DEF OpToRel
<1> HIDE DEF R
<1>2. PICK n \in T : \A j \in T : ~(<<j, n>> \in R)
  BY <1>1, WFMin
<1>3. \A j \in T : ~(j < n)
  BY <1>2 DEF R
<1> QED BY <1>3

\* Induction: a set that holds zero, and with each number up to n the next, holds all
\* of them up to n.
LEMMA CountUp ==
  ASSUME NEW n \in Nat, NEW G, 0 \in G, \A i \in 1..n : i - 1 \in G => i \in G
  PROVE  \A i \in 0..n : i \in G
<1> DEFINE B == {i \in 0..n : i \notin G}
<1> SUFFICES ASSUME B # {} PROVE FALSE OBVIOUS
<1>1. B \in SUBSET Nat OBVIOUS
<1> HIDE DEF B
<1>2. PICK i \in B : \A j \in B : i <= j BY <1>1, LeastNatural
<1>3. i \in 0..n /\ i \notin G BY <1>2 DEF B
<1>4. i # 0 BY <1>3
<1>5. i \in 1..n /\ i - 1 \in 0..n /\ ~(i <= i - 1) BY <1>3, <1>4
<1>6. i - 1 \in G BY <1>2, <1>5 DEF B
<1> QED BY <1>3, <1>5, <1>6

\* What a list is after one more element.
With(k, x, S) == IF x \in S THEN Append(k, x) ELSE k
Runs(f, l, S, E, n) == /\ f \in [0..n -> Seq(E)] /\ f[0] = <<>>
                       /\ \A i \in 1..n : f[i] = With(f[i - 1], l[i], S)

\* The lists Only is made of exist.
LEMMA OnlyRuns ==
  ASSUME NEW E, NEW l \in Seq(E), NEW S
  PROVE  \E left : /\ left[0] = <<>> /\ \A i \in 1..Len(l) : left[i] = With(left[i - 1], l[i], S)
                /\ Back!Only(l, S) = left[Len(l)]
<1> DEFINE G == {n \in Nat : \E f : Runs(f, l, S, E, n)}
<1>1. Len(l) \in Nat OBVIOUS
<1>2. 0 \in G
  <2> DEFINE f == [i \in 0..0 |-> <<>>]
  <2>1. Runs(f, l, S, E, 0) BY DEF Runs
  <2> QED BY <2>1
<1>3. ASSUME NEW n \in 1..Len(l), n - 1 \in G PROVE n \in G
  <2>1. PICK f : Runs(f, l, S, E, n - 1) BY <1>3
  <2> DEFINE h == [i \in 0..n |-> IF i = n THEN With(f[n - 1], l[n], S) ELSE f[i]]
  <2>2. DOMAIN h = 0..n /\ h[0] = <<>> BY <2>1, <1>1 DEF Runs
  <2>3. ASSUME NEW i \in 1..n PROVE h[i] = With(h[i - 1], l[i], S)
    <3>1. i \in 0..n /\ i - 1 \in 0..n /\ i - 1 # n /\ n - 1 # n BY <1>1
    <3>2. CASE i = n BY <3>1, <3>2
    <3>3. CASE i # n
      <4>1. i \in 1..(n - 1) BY <1>1, <3>3
      <4>2. f[i] = With(f[i - 1], l[i], S) BY <2>1, <4>1 DEF Runs
      <4> QED BY <3>1, <3>3, <4>2
    <3> QED BY <3>2, <3>3
  <2>6. h \in [0..n -> Seq(E)]
    <3>1. \A i \in 0..(n - 1) : f[i] \in Seq(E) BY <2>1 DEF Runs
    <3>2. l[n] \in E /\ n - 1 \in 0..(n - 1) BY <1>1
    <3>3. With(f[n - 1], l[n], S) \in Seq(E) BY <3>1, <3>2 DEF With
    <3>4. \A i \in 0..n : i # n => i \in 0..(n - 1) BY <1>1
    <3> QED BY <3>1, <3>3, <3>4
  <2> HIDE DEF h
  <2>4. Runs(h, l, S, E, n) BY <2>2, <2>3, <2>6 DEF Runs
  <2>5. n \in Nat BY <1>1
  <2> QED BY <2>4, <2>5
<1> HIDE DEF G
<1>4. Len(l) \in G
  <2>1. \A i \in 0..Len(l) : i \in G BY <1>1, <1>2, <1>3, CountUp
  <2>2. Len(l) \in 0..Len(l) BY <1>1
  <2> QED BY <2>1, <2>2
<1>5. PICK f : Runs(f, l, S, E, Len(l)) BY <1>4 DEF G
<1> DEFINE Eq(k) == k = [i \in 0..Len(l) |-> IF i = 0 THEN <<>> ELSE IF l[i] \in S THEN Append(k[i - 1], l[i]) ELSE k[i - 1]]
           left == CHOOSE k : Eq(k)
<1>6. Back!Only(l, S) = left[Len(l)] BY DEF Back!Only
<1>7. Eq(f)
  <2> DEFINE r == [i \in 0..Len(l) |-> IF i = 0 THEN <<>> ELSE IF l[i] \in S THEN Append(f[i - 1], l[i]) ELSE f[i - 1]]
  <2>1. DOMAIN f = 0..Len(l) /\ DOMAIN r = 0..Len(l) BY <1>5 DEF Runs
  <2>2. ASSUME NEW i \in 0..Len(l) PROVE f[i] = r[i]
    <3>1. CASE i = 0 BY <1>5, <3>1 DEF Runs
    <3>2. CASE i # 0
      <4>1. i \in 1..Len(l) BY <1>1, <3>2
      <4> QED BY <1>5, <3>2, <4>1 DEF Runs, With
    <3> QED BY <3>1, <3>2
  <2> HIDE DEF r
  <2>3. f = [i \in 0..Len(l) |-> f[i]] BY <1>5 DEF Runs
  <2>4. r = [i \in 0..Len(l) |-> r[i]] BY DEF r
  <2> QED BY <2>2, <2>3, <2>4 DEF r
<1>8. Eq(left)
  <2> HIDE DEF Eq
  <2> QED BY <1>7
<1> HIDE DEF left
<1>9. /\ left[0] = <<>>
      /\ \A i \in 1..Len(l) : left[i] = IF l[i] \in S THEN Append(left[i - 1], l[i]) ELSE left[i - 1]
  <2>1. left = [i \in 0..Len(l) |-> IF i = 0 THEN <<>> ELSE IF l[i] \in S THEN Append(left[i - 1], l[i]) ELSE left[i - 1]]
    BY <1>8
  <2>2. 0 \in 0..Len(l) /\ \A i \in 1..Len(l) : i \in 0..Len(l) /\ i # 0 BY <1>1
  <2> HIDE DEF Eq
  <2> QED BY <2>1, <2>2
<1> QED BY <1>6, <1>9 DEF With

\* k is of the first n elements of l, in their order.
Follows(k, l, n, S) ==
    /\ \A i \in DOMAIN k : k[i] \in S /\ \E p \in 1..n : k[i] = l[p]
    /\ \A i, j \in DOMAIN k : i < j => \E p, q \in 1..n : p < q /\ k[i] = l[p] /\ k[j] = l[q]

\* What is left of a list is in its order (Vec::retain).
LEMMA OnlyFollows ==
  ASSUME NEW E, NEW l \in Seq(E), NEW S
  PROVE  Back!Only(l, S) \in Seq(E) /\ Follows(Back!Only(l, S), l, Len(l), S)
<1>1. PICK left : /\ left[0] = <<>> /\ \A i \in 1..Len(l) : left[i] = With(left[i - 1], l[i], S)
               /\ Back!Only(l, S) = left[Len(l)]
  BY OnlyRuns
<1>2. Len(l) \in Nat /\ \A i \in 1..Len(l) : l[i] \in E OBVIOUS
<1> DEFINE Fine(i) == left[i] \in Seq(E) /\ Follows(left[i], l, i, S)
           G == {i \in 0..Len(l) : Fine(i)}
<1>3. Fine(0)
  <2>1. <<>> \in Seq(E) /\ DOMAIN <<>> = {} OBVIOUS
  <2> QED BY <1>1, <2>1 DEF Follows
<1>4. ASSUME NEW n \in 1..Len(l), Fine(n - 1) PROVE Fine(n)
  <2> DEFINE k == left[n - 1]
             h == left[n]
  <2>1. k \in Seq(E) /\ Follows(k, l, n - 1, S) BY <1>4
  <2>2. h = With(k, l[n], S) BY <1>1
  <2>3. l[n] \in E /\ n \in Nat /\ n \in 1..n /\ \A p \in 1..(n - 1) : p \in 1..n /\ p < n BY <1>2
  <2> HIDE DEF k, h
  <2>4. CASE l[n] \notin S
    <3>1. h = k BY <2>2, <2>4 DEF With
    <3>2. ASSUME NEW i \in DOMAIN k, NEW j \in DOMAIN k, i < j
          PROVE  \E p, q \in 1..n : p < q /\ k[i] = l[p] /\ k[j] = l[q]
      <4>1. PICK p \in 1..(n - 1), q \in 1..(n - 1) : p < q /\ k[i] = l[p] /\ k[j] = l[q]
        BY <2>1, <3>2 DEF Follows
      <4> QED BY <2>3, <4>1
    <3> QED BY <2>1, <2>3, <3>1, <3>2 DEF h, Follows
  <2>5. CASE l[n] \in S
    <3>1. h = Append(k, l[n]) BY <2>2, <2>5 DEF With
    <3>2. /\ h \in Seq(E) /\ Len(k) \in Nat /\ DOMAIN k = 1..Len(k) /\ DOMAIN h = 1..(Len(k) + 1)
          /\ (\A j \in 1..Len(k) : h[j] = k[j]) /\ h[Len(k) + 1] = l[n]
      BY <2>1, <2>3, <3>1
    <3>3. \A i \in DOMAIN h : i \in DOMAIN k \/ i = Len(k) + 1 BY <3>2
    <3>4. ASSUME NEW i \in DOMAIN h PROVE h[i] \in S /\ \E p \in 1..n : h[i] = l[p]
      <4>1. CASE i = Len(k) + 1 BY <2>3, <2>5, <3>2, <4>1
      <4>2. CASE i \in DOMAIN k
        <5>1. h[i] = k[i] /\ k[i] \in S /\ \E p \in 1..(n - 1) : k[i] = l[p] BY <2>1, <3>2, <4>2 DEF Follows
        <5> QED BY <2>3, <5>1
      <4> QED BY <3>3, <4>1, <4>2
    <3>5. ASSUME NEW i \in DOMAIN h, NEW j \in DOMAIN h, i < j
          PROVE  \E p, q \in 1..n : p < q /\ h[i] = l[p] /\ h[j] = l[q]
      <4>1. i \in DOMAIN k /\ h[i] = k[i] BY <3>2, <3>3, <3>5
      <4>2. CASE j = Len(k) + 1
        <5>1. PICK p \in 1..(n - 1) : k[i] = l[p] BY <2>1, <4>1 DEF Follows
        <5> QED BY <2>3, <3>2, <4>1, <4>2, <5>1
      <4>3. CASE j \in DOMAIN k
        <5>1. PICK p \in 1..(n - 1), q \in 1..(n - 1) : p < q /\ k[i] = l[p] /\ k[j] = l[q]
          BY <2>1, <3>5, <4>1, <4>3 DEF Follows
        <5> QED BY <2>3, <3>2, <4>1, <4>3, <5>1
      <4> QED BY <3>3, <4>2, <4>3
    <3> QED BY <3>2, <3>4, <3>5 DEF h, Follows
  <2> QED BY <2>4, <2>5
<1> HIDE DEF Fine
<1>5. 0 \in G BY <1>2, <1>3
<1>6. \A i \in 1..Len(l) : i - 1 \in G => i \in G BY <1>2, <1>4
<1> HIDE DEF G
<1>7. \A i \in 0..Len(l) : i \in G BY <1>2, <1>5, <1>6, CountUp
<1>8. Len(l) \in 0..Len(l) BY <1>2
<1>9. Fine(Len(l)) BY <1>7, <1>8 DEF G
<1> QED BY <1>1, <1>9 DEF Fine

\* A list without the element at k (Vec::remove).
LEMMA RemovedAt ==
  ASSUME NEW E, NEW l \in Seq(E), NEW k \in DOMAIN l
  PROVE  LET m == Back!RemoveAt(l, k)
         IN /\ m \in Seq(E) /\ DOMAIN l = 1..Len(l) /\ DOMAIN m = 1..(Len(l) - 1) /\ Len(l) \in Nat
            /\ \A i \in 1..(Len(l) - 1) : m[i] = IF i < k THEN l[i] ELSE l[i + 1]
<1> DEFINE a == SubSeq(l, 1, k - 1)
           b == SubSeq(l, k + 1, Len(l))
           n == Len(l)
<1>1. n \in Nat /\ k \in 1..n /\ DOMAIN l = 1..n OBVIOUS
<1>2. a \in Seq(E) /\ Len(a) = k - 1 /\ \A i \in 1..(k - 1) : a[i] = l[i] BY <1>1
<1>3. b \in Seq(E) /\ Len(b) = n - k /\ \A i \in 1..(n - k) : b[i] = l[k + i] BY <1>1
<1>4. Back!RemoveAt(l, k) = a \o b BY DEF Back!RemoveAt
<1> HIDE DEF a, b
<1>5. /\ a \o b \in Seq(E) /\ Len(a \o b) = Len(a) + Len(b) /\ Len(b) \in Nat
      /\ \A i \in 1..(Len(a) + Len(b)) : (a \o b)[i] = IF i <= Len(a) THEN a[i] ELSE b[i - Len(a)]
  <2>1. a \in Seq(E) /\ b \in Seq(E) /\ Len(b) \in Nat BY <1>2, <1>3
  <2> QED BY <2>1, ConcatProperties, Zenon
<1>6. (k - 1) + (n - k) = n - 1 BY <1>1
<1>7. ASSUME NEW i \in 1..(n - 1) PROVE (a \o b)[i] = IF i < k THEN l[i] ELSE l[i + 1]
  <2>1. CASE i < k
    <3>1. i <= k - 1 /\ i \in 1..(k - 1) BY <1>1, <2>1
    <3> QED BY <1>2, <1>3, <1>5, <1>6, <2>1, <3>1
  <2>2. CASE ~(i < k)
    <3>0. i \in 1..(Len(a) + Len(b)) /\ ~(i <= Len(a)) BY <1>1, <1>2, <1>3, <1>6, <2>2
    <3>1. (a \o b)[i] = b[i - (k - 1)] BY <1>2, <1>5, <3>0
    <3>2. i - (k - 1) \in 1..(n - k) /\ k + (i - (k - 1)) = i + 1 BY <1>1, <2>2
    <3> QED BY <1>3, <2>2, <3>1, <3>2
  <2> QED BY <2>1, <2>2
<1>8. DOMAIN (a \o b) = 1..(n - 1)
  <2>1. Len(a \o b) = n - 1 BY <1>2, <1>3, <1>5, <1>6
  <2> QED BY <1>5, <2>1
<1> QED BY <1>1, <1>4, <1>5, <1>7, <1>8

\* Of numbers that are not below n, there is a least one.
LEMMA LeastOf ==
  ASSUME NEW n \in Int, NEW T \in SUBSET Int, T # {}, \A x \in T : n <= x
  PROVE  Back!Min(T) \in T /\ \A y \in T : Back!Min(T) <= y
<1> DEFINE B == {x - n : x \in T}
<1>1. B \in SUBSET Nat /\ B # {}
  <2>1. \A x \in T : x - n \in Nat OBVIOUS
  <2> QED BY <2>1
<1> HIDE DEF B
<1>2. PICK b \in B : \A c \in B : b <= c BY <1>1, LeastNatural
<1>3. PICK x \in T : b = x - n BY <1>2 DEF B
<1>4. \A y \in T : x <= y
  <2> TAKE y \in T
  <2>1. y - n \in B BY DEF B
  <2> QED BY <1>2, <1>3, <2>1
<1> QED BY <1>3, <1>4 DEF Back!Min

Titled(q, u) == {i \in DOMAIN q : q[i].title = u}

\* The entries of a title that are left when one goes (restore_queue.remove).
LEMMA TitledLeft ==
  ASSUME NEW q \in Seq(Entries), NEW k \in DOMAIN q, NEW u
  PROVE  /\ IsFiniteSet(Titled(q, u)) /\ IsFiniteSet(Titled(Back!RemoveAt(q, k), u))
         /\ Cardinality(Titled(q, u) \ {k}) <= Cardinality(Titled(Back!RemoveAt(q, k), u))
<1> DEFINE m == Back!RemoveAt(q, k)
           n == Len(q)
           S == Titled(q, u) \ {k}
           T == Titled(m, u)
           g == [i \in S |-> IF i < k THEN i ELSE i - 1]
<1>1. /\ m \in Seq(Entries) /\ DOMAIN q = 1..n /\ DOMAIN m = 1..(n - 1) /\ n \in Nat
      /\ \A i \in 1..(n - 1) : m[i] = IF i < k THEN q[i] ELSE q[i + 1]
  BY RemovedAt
<1>2. k \in 1..n BY <1>1
<1> HIDE DEF m, n
<1>3. IsFiniteSet(Titled(q, u)) /\ IsFiniteSet(T)
  <2>1. n - 1 \in Nat BY <1>1, <1>2
  <2>2. IsFiniteSet(1..n) /\ IsFiniteSet(1..(n - 1)) BY <1>1, <2>1, FS_Interval
  <2> QED BY <1>1, <2>2, FS_Subset DEF Titled
<1>4. ASSUME NEW i \in S PROVE g[i] \in T
  <2>1. i \in 1..n /\ i # k /\ q[i].title = u BY <1>1 DEF Titled
  <2>2. CASE i < k BY <1>1, <1>2, <2>1, <2>2 DEF Titled
  <2>3. CASE ~(i < k)
    <3>1. i - 1 \in 1..(n - 1) /\ ~(i - 1 < k) /\ (i - 1) + 1 = i BY <1>1, <1>2, <2>1, <2>3
    <3>2. m[i - 1] = q[i] BY <1>1, <3>1
    <3> QED BY <1>1, <2>1, <2>3, <3>1, <3>2 DEF Titled
  <2> QED BY <2>2, <2>3
<1>5. ASSUME NEW i \in S, NEW j \in S, g[i] = g[j] PROVE i = j
  <2>1. i \in 1..n /\ j \in 1..n /\ i # k /\ j # k BY <1>1 DEF Titled
  <2> QED BY <1>1, <1>2, <1>5, <2>1
<1>6. g \in Injection(S, T)
  <2>1. g \in [S -> T] BY <1>4
  <2> QED BY <1>5, <2>1 DEF Injection, IsInjective
<1> HIDE DEF S, T, g
<1>7. Cardinality(S) <= Cardinality(T) BY <1>3, <1>6, FS_Injection
<1> QED BY <1>3, <1>7 DEF S, T, m

\* Each entry that is taken takes its plate along (remove_placeholder_for).
LEMMA PlateGoes ==
  ASSUME NEW q \in Seq(Entries), NEW k \in DOMAIN q, NEW p \in [Back!Titles -> Nat], PlatesFit(p, q),
         NEW r, r = [p EXCEPT ![q[k].title] = IF @ > 0 THEN @ - 1 ELSE 0]
  PROVE  /\ r \in [Back!Titles -> Nat] /\ PlatesFit(r, Back!RemoveAt(q, k))
         /\ (\A u \in Back!Titles : r[u] <= p[u])
<1>1. r \in [Back!Titles -> Nat]
  <2>1. q[k].title \in Back!Titles
    <3>1. q[k] \in Entries OBVIOUS
    <3> QED BY <3>1 DEF Entries
  <2>2. \A n \in Nat : (IF n > 0 THEN n - 1 ELSE 0) \in Nat OBVIOUS
  <2> QED BY <2>1, <2>2
<1>2. ASSUME NEW u \in Back!Titles
      PROVE  r[u] <= Cardinality(Titled(Back!RemoveAt(q, k), u)) /\ r[u] <= p[u]
  <2> DEFINE a == Cardinality(Titled(q, u))
             b == Cardinality(Titled(q, u) \ {k})
             c == Cardinality(Titled(Back!RemoveAt(q, k), u))
  <2>1. /\ IsFiniteSet(Titled(q, u)) /\ IsFiniteSet(Titled(Back!RemoveAt(q, k), u))
        /\ b <= c
    BY TitledLeft
  <2>2. IsFiniteSet(Titled(q, u) \ {k}) /\ b = IF k \in Titled(q, u) THEN a - 1 ELSE a
    BY <2>1, FS_RemoveElement
  <2>3. a \in Nat /\ b \in Nat /\ c \in Nat BY <2>1, <2>2, FS_CardinalityType
  <2>4. p[u] <= a BY DEF PlatesFit, Titled
  <2>5. k \in Titled(q, u) <=> q[k].title = u BY DEF Titled
  <2>6. p[u] \in Nat /\ r[u] = IF q[k].title = u THEN IF p[u] > 0 THEN p[u] - 1 ELSE 0 ELSE p[u]
    OBVIOUS
  <2> HIDE DEF a, b, c
  <2>7. r[u] <= c /\ r[u] <= p[u] BY <2>1, <2>2, <2>3, <2>4, <2>5, <2>6
  <2> QED BY <2>7 DEF c
<1> QED BY <1>1, <1>2 DEF PlatesFit, Titled

\* What try_restore leaves, of a window it had as r.
Restored(w, r, t) ==
    /\ t.r \in Comings /\ t.queue \in Seq(Entries) /\ t.plates \in [Back!Titles -> Nat]
    /\ t.r.state = r.state /\ t.r.parent = r.parent
    /\ (t.r.rank > 0 => t.r.done)
    /\ (r.done \/ Back!Skips(w, r) => t.r = r)
    /\ PlatesFit(t.plates, t.queue) /\ \A u \in Back!Titles : t.plates[u] <= plates[u]

\* The entry a window gets is one of the file's (match_saved_window).
LEMMA Matches ==
  ASSUME NEW E, NEW s \in Seq(E), NEW t, NEW p
  PROVE  Back!Match(s, t, p) \in {0} \cup DOMAIN s
<1> DEFINE Exact == {i \in DOMAIN s : t # Untitled /\ s[i].title = t}
           Near == {i \in DOMAIN s : Back!Resembles(t, s[i].title)}
           Lent == {i \in DOMAIN s : Back!Borrowable(s[i], p)}
           pass == IF Exact # {} THEN Exact ELSE IF Near # {} THEN Near ELSE Lent
<1>1. Back!Match(s, t, p) = IF pass = {} THEN 0 ELSE Back!Min(pass) BY DEF Back!Match
<1>2. pass \subseteq DOMAIN s OBVIOUS
<1>3. DOMAIN s \subseteq Nat BY LenProperties
<1> HIDE DEF pass
<1>4. pass # {} => Back!Min(pass) \in pass
  <2>1. 0 \in Int /\ pass \in SUBSET Int /\ \A x \in pass : 0 <= x BY <1>2, <1>3
  <2> QED BY <2>1, LeastOf
<1> QED BY <1>1, <1>2, <1>4

\* A cascaded place is a place (cascade_off_siblings).
LEMMA CascadedFits == ASSUME NEW w, NEW p \in Int PROVE Back!Cascaded(w, p) \in Int
<1> DEFINE taken == {rWin[v].at : v \in {u \in Comers \ {w} : rWin[u].state = "mapped"}}
           T == {q \in p..(p + Back!Steps) : q \notin taken} \cup {p + Back!Steps}
<1>1. Back!Cascaded(w, p) = Back!Min(T) BY DEF Back!Cascaded
<1>2. p + Back!Steps \in Int /\ p <= p + Back!Steps BY DEF Back!Steps
<1>3. T \in SUBSET Int /\ T # {} /\ \A x \in T : p <= x BY <1>2
<1> HIDE DEF T
<1> QED BY <1>1, <1>3, LeastOf

\* A window is restored once, keeps what it had been given, and takes an entry and its
\* plate along (try_restore).
LEMMA Tries ==
  ASSUME BackTypes, PlatesFit(plates, rQueue), NEW w \in Comers, NEW r \in Comings, r.rank > 0 => r.done
  PROVE  Restored(w, r, Back!TryRestore(w, r))
<1> DEFINE i == Back!Match(rQueue, r.title, ProgOf[w])
           j == Back!Match(last, r.title, ProgOf[w])
           same == [r |-> r, queue |-> rQueue, plates |-> plates]
<1> SUFFICES ASSUME NEW t, t = Back!TryRestore(w, r) PROVE Restored(w, r, t) OBVIOUS
<1>0. /\ rQueue \in Seq(Entries) /\ last \in Seq(Slots) /\ plates \in [Back!Titles -> Nat]
      /\ over \in BOOLEAN
  BY DEF BackTypes
<1>1. i \in {0} \cup DOMAIN rQueue /\ j \in {0} \cup DOMAIN last BY <1>0, Matches
<1>r. /\ r.state \in {"away", "ready", "mapped"} /\ r.named \in BOOLEAN /\ r.title \in Back!Titles
      /\ r.parent \in BOOLEAN /\ r.done \in BOOLEAN /\ r.from \in {"none", "queue", "last"}
      /\ r.chosen \in BOOLEAN /\ r.rank \in Nat /\ r.at \in Int /\ r.sat \in BOOLEAN
      /\ r = [state |-> r.state, named |-> r.named, title |-> r.title, parent |-> r.parent,
              done |-> r.done, from |-> r.from, chosen |-> r.chosen, rank |-> r.rank, at |-> r.at,
              sat |-> r.sat]
  BY DEF Comings
<1>s. \A u \in Back!Titles : plates[u] <= plates[u]
  <2>1. \A u \in Back!Titles : plates[u] \in Nat BY <1>0
  <2> QED BY <2>1
<1>2. CASE t = same
  <2>1. t.r = r /\ t.queue = rQueue /\ t.plates = plates BY <1>2
  <2> QED BY <1>0, <1>s, <2>1 DEF Restored
<1>d. ~Back!Skips(w, r) => ~r.done BY DEF Back!Skips
<1>3. CASE ~Back!Skips(w, r) /\ Back!Overruled(w, r)
  <2>1. t = [same EXCEPT !.r.done = TRUE, !.r.sat = over /\ Back!HasSibling(w)]
    BY <1>3 DEF Back!TryRestore
  <2>2. PICK b \in BOOLEAN : b = (over /\ Back!HasSibling(w)) BY <1>0
  <2>3. t = [same EXCEPT !.r.done = TRUE, !.r.sat = b] BY <2>1, <2>2
  <2>4. /\ t.queue = rQueue /\ t.plates = plates
        /\ t.r = [r EXCEPT !.done = TRUE, !.sat = b]
    BY <2>3
  <2>5. t.r \in Comings /\ t.r.state = r.state /\ t.r.parent = r.parent /\ t.r.done = TRUE
    BY <1>r, <2>4 DEF Comings
  <2> QED BY <1>0, <1>3, <1>d, <1>s, <2>4, <2>5 DEF Restored
<1>4. CASE ~Back!Skips(w, r) /\ ~Back!Overruled(w, r) /\ i # 0
  <2> DEFINE e == rQueue[i]
             p == Back!RemovePlate(e.title)
  <2>1. t = [r |-> [r EXCEPT !.done = TRUE, !.from = "queue", !.chosen = e.focused,
                             !.rank = e.rank, !.at = e.at],
             queue |-> Back!RemoveAt(rQueue, i), plates |-> p]
    BY <1>4 DEF Back!TryRestore
  <2>2. i \in DOMAIN rQueue /\ e \in Entries BY <1>0, <1>1, <1>4
  <2>3. e.focused \in BOOLEAN /\ e.rank \in Nat /\ e.at \in Int BY <2>2 DEF Entries
  <2>4. Back!RemoveAt(rQueue, i) \in Seq(Entries) BY <1>0, <2>2, RemovedAt
  <2>5. /\ p \in [Back!Titles -> Nat] /\ PlatesFit(p, Back!RemoveAt(rQueue, i))
        /\ \A u \in Back!Titles : p[u] <= plates[u]
    <3>1. p = [plates EXCEPT ![rQueue[i].title] = IF @ > 0 THEN @ - 1 ELSE 0] BY DEF Back!RemovePlate
    <3> HIDE DEF p, e, i
    <3> QED BY <1>0, <2>2, <3>1, PlateGoes
  <2>6. /\ t.r = [r EXCEPT !.done = TRUE, !.from = "queue", !.chosen = e.focused, !.rank = e.rank, !.at = e.at]
        /\ t.queue = Back!RemoveAt(rQueue, i) /\ t.plates = p
    BY <2>1
  <2> HIDE DEF p, e, i
  <2>7. t.r \in Comings /\ t.r.state = r.state /\ t.r.parent = r.parent /\ t.r.done = TRUE
    BY <1>r, <2>3, <2>6 DEF Comings
  <2> QED BY <1>4, <1>d, <2>4, <2>5, <2>6, <2>7 DEF Restored
<1>5. CASE ~Back!Skips(w, r) /\ ~Back!Overruled(w, r) /\ i = 0 /\ j # 0
  <2> DEFINE a == Back!Cascaded(w, last[j].at)
  <2>1. t = [same EXCEPT !.r.done = TRUE, !.r.from = "last", !.r.at = a]
    BY <1>5 DEF Back!TryRestore
  <2>2. a \in Int
    <3>1. last[j] \in Slots BY <1>0, <1>1, <1>5
    <3>2. last[j].at \in Int BY <3>1 DEF Slots
    <3> QED BY <3>2, CascadedFits
  <2> HIDE DEF a
  <2>3. /\ t.queue = rQueue /\ t.plates = plates
        /\ t.r = [r EXCEPT !.done = TRUE, !.from = "last", !.at = a]
    BY <2>1
  <2>4. t.r \in Comings /\ t.r.state = r.state /\ t.r.parent = r.parent /\ t.r.done = TRUE
    BY <1>r, <2>2, <2>3 DEF Comings
  <2> QED BY <1>0, <1>5, <1>d, <1>s, <2>3, <2>4 DEF Restored
<1>6. CASE Back!Skips(w, r) BY <1>2, <1>6 DEF Back!TryRestore
<1>7. CASE ~Back!Skips(w, r) /\ ~Back!Overruled(w, r) /\ i = 0 /\ j = 0
  BY <1>2, <1>7 DEF Back!TryRestore
<1> QED BY <1>3, <1>4, <1>5, <1>6, <1>7

\* A window leaves the render list, which stays in order (render_list_remove).
LEMMA StackDrops ==
  ASSUME NEW l, NEW W, StackFits(l, W), NEW w
  PROVE  StackFits(Back!Drop(l, w), W) /\ \A i \in DOMAIN Back!Drop(l, w) : Back!Drop(l, w)[i] # w
<1> DEFINE S == {l[i] : i \in DOMAIN l} \ {w}
           m == Back!Drop(l, w)
<1>1. l \in Seq(Comers) /\ Distinct(l) /\ \A i \in DOMAIN l : LinkedIn(l[i], W) BY DEF StackFits
<1>2. m = Back!Only(l, S) BY DEF Back!Drop
<1>3. m \in Seq(Comers) /\ Follows(m, l, Len(l), S) BY <1>1, <1>2, OnlyFollows
<1>4. DOMAIN l = 1..Len(l) /\ DOMAIN m \subseteq Nat BY <1>1, <1>3, LenProperties
<1> HIDE DEF m
<1>5. \A i \in DOMAIN m : m[i] # w /\ \E p \in DOMAIN l : m[i] = l[p] BY <1>3, <1>4 DEF Follows
<1>6. \A i, j \in DOMAIN m : i < j => \E p, q \in DOMAIN l : p < q /\ m[i] = l[p] /\ m[j] = l[q]
  <2> TAKE i, j \in DOMAIN m
  <2> HAVE i < j
  <2>1. \E p, q \in 1..Len(l) : p < q /\ m[i] = l[p] /\ m[j] = l[q] BY <1>3 DEF Follows
  <2> QED BY <1>4, <2>1
<1>7. Distinct(m)
  <2>1. ASSUME NEW i \in DOMAIN m, NEW j \in DOMAIN m, i < j PROVE m[i] # m[j]
    <3>1. PICK p \in DOMAIN l, q \in DOMAIN l : p < q /\ m[i] = l[p] /\ m[j] = l[q] BY <1>6, <2>1
    <3>2. p # q BY <1>4, <3>1
    <3> QED BY <1>1, <3>1, <3>2 DEF Distinct
  <2>2. ASSUME NEW i \in DOMAIN m, NEW j \in DOMAIN m, m[i] = m[j] PROVE i = j
    <3>1. i < j \/ j < i \/ i = j BY <1>4
    <3> QED BY <2>1, <2>2, <3>1
  <2> QED BY <2>2 DEF Distinct
<1>8. Back!Ascending(m, W)
  <2> SUFFICES ASSUME NEW i \in DOMAIN m, NEW j \in DOMAIN m, i < j,
                      W[m[i]].rank > 0, W[m[j]].rank > 0
               PROVE  W[m[i]].rank < W[m[j]].rank
    BY DEF Back!Ascending
  <2>1. PICK p \in DOMAIN l, q \in DOMAIN l : p < q /\ m[i] = l[p] /\ m[j] = l[q] BY <1>6
  <2> QED BY <2>1 DEF StackFits, Back!Ascending
<1> QED BY <1>1, <1>3, <1>5, <1>7, <1>8 DEF StackFits, m

\* A window on top of the others (raise_window).
LEMMA StackRaises ==
  ASSUME NEW l, NEW W, StackFits(l, W), NEW w \in Comers, W[w].state = "mapped", W[w].rank = 0
  PROVE  StackFits(Append(Back!Drop(l, w), w), W)
<1> DEFINE m == Back!Drop(l, w)
           k == Append(m, w)
<1>1. StackFits(m, W) /\ \A i \in DOMAIN m : m[i] # w BY StackDrops
<1> HIDE DEF m
<1>2. /\ m \in Seq(Comers) /\ Distinct(m) /\ Back!Ascending(m, W)
      /\ \A i \in DOMAIN m : LinkedIn(m[i], W)
  BY <1>1 DEF StackFits
<1>3. /\ k \in Seq(Comers) /\ DOMAIN m = 1..Len(m) /\ DOMAIN k = 1..(Len(m) + 1) /\ Len(m) \in Nat
      /\ (\A i \in 1..Len(m) : k[i] = m[i]) /\ k[Len(m) + 1] = w
  BY <1>2
<1> HIDE DEF k
<1>4. \A i \in DOMAIN k : i \in DOMAIN m \/ i = Len(m) + 1 BY <1>3
<1>5. Distinct(k)
  <2> SUFFICES ASSUME NEW i \in DOMAIN k, NEW j \in DOMAIN k, k[i] = k[j] PROVE i = j BY DEF Distinct
  <2>1. CASE i \in DOMAIN m /\ j \in DOMAIN m
    <3>1. m[i] = m[j] BY <1>3, <2>1
    <3> QED BY <1>2, <2>1, <3>1 DEF Distinct
  <2>2. CASE i = Len(m) + 1 /\ j = Len(m) + 1 BY <2>2
  <2>3. CASE i \in DOMAIN m /\ j = Len(m) + 1
    <3>1. k[i] = m[i] BY <1>3, <2>3
    <3> QED BY <1>1, <1>3, <2>3, <3>1
  <2>4. CASE i = Len(m) + 1 /\ j \in DOMAIN m
    <3>1. k[j] = m[j] BY <1>3, <2>4
    <3> QED BY <1>1, <1>3, <2>4, <3>1
  <2> QED BY <1>4, <2>1, <2>2, <2>3, <2>4
<1>6. Back!Ascending(k, W)
  <2> SUFFICES ASSUME NEW i \in DOMAIN k, NEW j \in DOMAIN k, i < j,
                      W[k[i]].rank > 0, W[k[j]].rank > 0
               PROVE  W[k[i]].rank < W[k[j]].rank
    BY DEF Back!Ascending
  <2>1. k[j] # w /\ k[i] # w BY DEF StackFits
  <2>2. i \in DOMAIN m /\ j \in DOMAIN m BY <1>3, <1>4, <2>1
  <2>3. k[i] = m[i] /\ k[j] = m[j] BY <1>3, <2>2
  <2> QED BY <1>2, <2>2, <2>3 DEF Back!Ascending
<1>7. \A i \in DOMAIN k : LinkedIn(k[i], W)
  <2> TAKE i \in DOMAIN k
  <2>1. CASE i \in DOMAIN m
    <3>1. k[i] = m[i] BY <1>3, <2>1
    <3> QED BY <1>2, <2>1, <3>1
  <2>2. CASE i = Len(m) + 1 BY <1>3, <2>2 DEF LinkedIn
  <2> QED BY <1>4, <2>1, <2>2
<1> QED BY <1>3, <1>5, <1>6, <1>7 DEF StackFits, k, m

\* The windows of the list change in nothing it is about.
LEMMA StackStands ==
  ASSUME NEW l, NEW W, NEW X, StackFits(l, W),
         \A i \in DOMAIN l : /\ LinkedIn(l[i], X)
                             /\ X[l[i]].rank = 0 \/ X[l[i]].rank = W[l[i]].rank
  PROVE  StackFits(l, X)
<1>1. Back!Ascending(l, X)
  <2> SUFFICES ASSUME NEW i \in DOMAIN l, NEW j \in DOMAIN l, i < j, X[l[i]].rank > 0, X[l[j]].rank > 0
               PROVE  X[l[i]].rank < X[l[j]].rank
    BY DEF Back!Ascending
  <2>1. X[l[i]].rank = W[l[i]].rank /\ X[l[j]].rank = W[l[j]].rank
    <3>1. ~(0 > 0) OBVIOUS
    <3> QED BY <3>1
  <2> QED BY <2>1 DEF StackFits, Back!Ascending
<1> QED BY <1>1 DEF StackFits

\* An order of some windows is a list of them, each once.
LEMMA Orders ==
  ASSUME NEW S \in SUBSET Comers, NEW l \in Back!SetToSeqs(S)
  PROVE  l \in Seq(Comers) /\ Distinct(l) /\ \A i \in DOMAIN l : l[i] \in S
<1> DEFINE n == Cardinality(S)
<1>1. IsFiniteSet(S) BY RestoreAssumption, FS_Subset
<1>2. n \in Nat BY <1>1, FS_CardinalityType
<1>3. Back!Cardinality(S) = n BY DEF Back!Cardinality, Cardinality
<1> HIDE DEF n
<1>4. l \in [1..n -> S] /\ \A i, j \in 1..n : i # j => l[i] # l[j] BY <1>3 DEF Back!SetToSeqs
<1>5. l \in Seq(S) /\ DOMAIN l = 1..n BY <1>2, <1>4
<1> QED BY <1>4, <1>5 DEF Distinct

\* A window as its client has made it so far: what the compositor gave it is as it was.
Told(w, r) ==
    /\ r \in Comings /\ r.state \in {"ready", "mapped"}
    /\ r.state = rWin[w].state \/ (rWin[w].state = "away" /\ r.state = "ready")
    /\ r.parent = rWin[w].parent /\ r.done = rWin[w].done /\ r.from = rWin[w].from
    /\ r.rank = rWin[w].rank /\ r.at = rWin[w].at

\* Placed by its rank, a window is linked once more and in order (render_list_place_restored).
LEMMA PlacedStacks ==
  ASSUME NEW w \in Comers, NEW X, list \in Seq(Comers), NEW m \in Back!Placed(w, X),
         \E i \in DOMAIN list : list[i] = w, \A i \in DOMAIN list : LinkedIn(list[i], X)
  PROVE  StackFits(m, X)
<1> DEFINE S == Back!ToSet(list) \cup {w}
<1>1. S \subseteq Comers BY DEF Back!ToSet
<1>2. m \in Back!SetToSeqs(S) /\ Back!Ascending(m, X) BY DEF Back!Placed
<1>3. m \in Seq(Comers) /\ Distinct(m) /\ \A i \in DOMAIN m : m[i] \in S
  <2> HIDE DEF S
  <2> QED BY <1>1, <1>2, Orders
<1>4. \A v \in S : LinkedIn(v, X) BY DEF Back!ToSet
<1> HIDE DEF S
<1> QED BY <1>2, <1>3, <1>4 DEF StackFits

\* While there is a plate its timer runs (Restores).
LEMMA TimerStays ==
  ASSUME BackInv, NEW t, t.plates \in [Back!Titles -> Nat], Back!Restores(t),
         \A u \in Back!Titles : t.plates[u] <= plates[u]
  PROVE  timer' \in BOOLEAN /\ (timer' <=> \E u \in Back!Titles : plates'[u] > 0)
<1>1. plates' = t.plates /\ timer' = (timer /\ \E u \in Back!Titles : t.plates[u] > 0)
  BY DEF Back!Restores
<1>2. timer <=> \E u \in Back!Titles : plates[u] > 0 BY DEF BackInv
<1>3. \A u \in Back!Titles : t.plates[u] > 0 => plates[u] > 0
  <2>1. \A u \in Back!Titles : plates[u] \in Nat /\ t.plates[u] \in Nat BY DEF BackInv, BackTypes
  <2> QED BY <2>1
<1> QED BY <1>1, <1>2, <1>3

\* An app id or a title comes, and the window is restored if that was missing
\* (notify_app_id, notify_title).
LEMMA BackNotify ==
  ASSUME BackInv, NEW w \in Comers, NEW r, Told(w, r), Back!Notify(w, r)
  PROVE  BackInv'
<1> DEFINE t == Back!TryRestore(w, r)
<1>0. BackTypes /\ StackFits(list, rWin) /\ ComingKept(w) /\ PlatesFit(plates, rQueue)
      /\ \A v \in Comers : ComingKept(v)
  BY DEF BackInv
<1>r. r \in Comings /\ (r.rank > 0 => r.done) BY <1>0 DEF Told, ComingKept
<1>1. Restored(w, r, t) BY <1>0, <1>r, Tries
<1>2. /\ rWin' = [rWin EXCEPT ![w] = t.r] /\ Back!Restores(t)
      /\ IF t.r.rank > 0 /\ ~r.done /\ w \in Back!ToSet(list) THEN list' \in Back!Placed(w, rWin')
         ELSE UNCHANGED list
      /\ UNCHANGED <<last, ruled, over, awaited, arrived, input, rFocus, vanished, userAt>>
  BY DEF Back!Notify, Back!settling, Back!session
<1>d. r.done \/ Back!Skips(w, r) => t.r = r BY <1>1 DEF Restored
<1> HIDE DEF t
<1>3. /\ rWin' \in [Comers -> Comings] /\ rWin'[w] = t.r /\ \A v \in Comers \ {w} : rWin'[v] = rWin[v]
  BY <1>0, <1>1, <1>2 DEF BackTypes, Restored
<1>4. t.r.state = r.state /\ t.r.parent = r.parent /\ (t.r.rank > 0 => t.r.done) /\ t.r.rank \in Nat
  BY <1>1 DEF Restored, Comings
<1>5. ASSUME NEW v \in Comers PROVE ComingKept(v)'
  <2>1. CASE v # w BY <1>0, <1>2, <1>3, <2>1 DEF ComingKept
  <2>2. CASE v = w
    <3>1. rWin'[w] = t.r /\ userAt' = userAt BY <1>2, <1>3
    <3>2. w \in Dialogs /\ t.r.state = "mapped" => t.r.parent BY <1>0, <1>4 DEF ComingKept, Told
    <3>3. w \in Dialogs \cap X11 => t.r.from = "none"
      <4> HAVE w \in Dialogs \cap X11
      <4>1. r.from = "none" /\ (r.state = "mapped" => r.parent) BY <1>0 DEF ComingKept, Told
      <4>2. Back!Skips(w, r) BY <4>1 DEF Back!Skips
      <4> QED BY <1>d, <4>1, <4>2
    <3>4. userAt[w] # None /\ userAt[w].done => t.r.done /\ t.r.at = userAt[w].at
      BY <1>0, <1>d DEF ComingKept, Told
    <3> QED BY <1>4, <2>2, <3>1, <3>2, <3>3, <3>4 DEF ComingKept
  <2> QED BY <2>1, <2>2
<1>6. StackFits(list', rWin')
  <2>1. list \in Seq(Comers) /\ \A i \in DOMAIN list : list[i] \in Comers /\ LinkedIn(list[i], rWin)
    BY <1>0 DEF StackFits
  <2>2. ASSUME NEW i \in DOMAIN list PROVE LinkedIn(list[i], rWin')
    <3>1. CASE list[i] # w BY <1>3, <2>1, <3>1 DEF LinkedIn
    <3>2. CASE list[i] = w
      <4>1. LinkedIn(w, rWin) BY <2>1, <3>2
      <4>2. t.r.state = rWin[w].state BY <1>4, <4>1 DEF LinkedIn, Told
      <4> QED BY <1>3, <3>2, <4>1, <4>2 DEF LinkedIn
    <3> QED BY <3>1, <3>2
  <2>3. CASE t.r.rank > 0 /\ ~r.done /\ w \in Back!ToSet(list)
    <3>1. list' \in Back!Placed(w, rWin') BY <1>2, <2>3
    <3>2. \E i \in DOMAIN list : list[i] = w BY <2>3 DEF Back!ToSet
    <3> HIDE DEF LinkedIn
    <3> QED BY <2>1, <2>2, <3>1, <3>2, PlacedStacks
  <2>4. CASE ~(t.r.rank > 0 /\ ~r.done /\ w \in Back!ToSet(list))
    <3>1. list' = list BY <1>2, <2>4
    <3>2. ASSUME NEW i \in DOMAIN list PROVE rWin'[list[i]].rank = 0 \/ rWin'[list[i]].rank = rWin[list[i]].rank
      <4>1. CASE list[i] # w BY <1>3, <2>1, <4>1
      <4>2. CASE list[i] = w
        <5>1. w \in Back!ToSet(list) BY <4>2 DEF Back!ToSet
        <5>2. t.r.rank = 0 \/ r.done BY <1>4, <2>4, <5>1
        <5>3. r.done => t.r.rank = rWin[w].rank BY <1>d DEF Told
        <5> QED BY <1>3, <4>2, <5>2, <5>3
      <4> QED BY <4>1, <4>2
    <3> QED BY <1>0, <2>2, <3>1, <3>2, StackStands
  <2> QED BY <2>3, <2>4
<1>7. /\ PlatesFit(plates', rQueue') /\ timer' \in BOOLEAN /\ plates' \in [Back!Titles -> Nat]
      /\ (timer' <=> \E u \in Back!Titles : plates'[u] > 0) /\ rQueue' \in Seq(Entries)
  <2>1. /\ t.plates \in [Back!Titles -> Nat] /\ PlatesFit(t.plates, t.queue) /\ t.queue \in Seq(Entries)
        /\ \A u \in Back!Titles : t.plates[u] <= plates[u]
    BY <1>1 DEF Restored
  <2>2. rQueue' = t.queue /\ plates' = t.plates BY <1>2 DEF Back!Restores
  <2> QED BY <1>2, <2>1, <2>2, TimerStays
<1>8. rFocus' \in Back!Is("mapped")' \cup {None}
  <2>1. rFocus \in Back!Is("mapped") \cup {None} BY DEF BackInv
  <2>2. rWin[w].state = "mapped" => t.r.state = "mapped" BY <1>4 DEF Told
  <2> QED BY <1>2, <1>3, <2>1, <2>2 DEF Back!Is
<1>9. BackTypes'
  <2>1. list' \in Seq(Comers) BY <1>6 DEF StackFits
  <2> QED BY <1>0, <1>2, <1>3, <1>7, <2>1 DEF BackTypes
<1>10. Back!OneSlotEach' /\ Back!HeldForTheChosen'
  BY <1>2 DEF BackInv, Back!OneSlotEach, Back!HeldForTheChosen
<1> QED BY <1>5, <1>6, <1>7, <1>8, <1>9, <1>10 DEF BackInv

\* The fields of a window.
LEMMA ComingFields ==
  ASSUME NEW n \in Comings
  PROVE  /\ n.state \in {"away", "ready", "mapped"} /\ n.named \in BOOLEAN /\ n.title \in Back!Titles
         /\ n.parent \in BOOLEAN /\ n.done \in BOOLEAN /\ n.from \in {"none", "queue", "last"}
         /\ n.chosen \in BOOLEAN /\ n.rank \in Nat /\ n.at \in Int /\ n.sat \in BOOLEAN
         /\ n = [state |-> n.state, named |-> n.named, title |-> n.title, parent |-> n.parent,
                 done |-> n.done, from |-> n.from, chosen |-> n.chosen, rank |-> n.rank,
                 at |-> n.at, sat |-> n.sat]
BY DEF Comings

\* What a request makes of a window (notify_app_id, notify_title).
LEMMA ToldFits ==
  ASSUME BackInv, NEW w \in Comers
  PROVE  /\ rWin[w].state # "mapped" => Told(w, [Back!Made(w) EXCEPT !.named = TRUE])
         /\ \A s \in TitlesOf[w] : Told(w, [Back!Made(w) EXCEPT !.title = s])
<1> DEFINE n == rWin[w]
           m == Back!Made(w)
<1>1. n \in Comings BY DEF BackInv, BackTypes
<1>2. m = IF n.state = "away" THEN [n EXCEPT !.state = "ready"] ELSE n BY DEF Back!Made
<1> HIDE DEF n, m
<1>3. /\ m \in Comings /\ m.state \in {"ready", "mapped"}
      /\ m.state = n.state \/ (n.state = "away" /\ m.state = "ready")
      /\ m.parent = n.parent /\ m.done = n.done /\ m.from = n.from /\ m.rank = n.rank /\ m.at = n.at
  <2>1. CASE n.state = "away"
    <3>1. m = [n EXCEPT !.state = "ready"] BY <1>2, <2>1
    <3> QED BY <1>1, <2>1, <3>1, ComingFields DEF Comings
  <2>2. CASE n.state # "away"
    <3>1. m = n BY <1>2, <2>2
    <3> QED BY <1>1, <2>2, <3>1, ComingFields
  <2> QED BY <2>1, <2>2
<1>4. Told(w, [m EXCEPT !.named = TRUE])
  <2> DEFINE r == [m EXCEPT !.named = TRUE]
  <2>1. r \in Comings BY <1>3, ComingFields DEF Comings
  <2>2. /\ r.state = m.state /\ r.parent = m.parent /\ r.done = m.done /\ r.from = m.from
        /\ r.rank = m.rank /\ r.at = m.at
    BY <1>3, ComingFields
  <2> HIDE DEF r
  <2>3. Told(w, r) BY <1>3, <2>1, <2>2 DEF Told, n
  <2> QED BY <2>3 DEF r
<1>5. ASSUME NEW s \in TitlesOf[w] PROVE Told(w, [m EXCEPT !.title = s])
  <2> DEFINE r == [m EXCEPT !.title = s]
  <2>0. s \in Back!Titles BY DEF Back!Titles
  <2>1. r \in Comings BY <1>3, <2>0, ComingFields DEF Comings
  <2>2. /\ r.state = m.state /\ r.parent = m.parent /\ r.done = m.done /\ r.from = m.from
        /\ r.rank = m.rank /\ r.at = m.at
    BY <1>3, ComingFields
  <2> HIDE DEF r
  <2>3. Told(w, r) BY <1>3, <2>1, <2>2 DEF Told, n
  <2> QED BY <2>3 DEF r
<1> QED BY <1>4, <1>5 DEF m

\* The requests keep the desk's (notify_app_id, notify_title).
LEMMA BackTold ==
  ASSUME BackInv, NEW w \in Comers, Back!NotifyAppId(w) \/ Back!NotifyTitle(w)
  PROVE  BackInv'
<1>1. CASE Back!NotifyAppId(w)
  <2> DEFINE r == [Back!Made(w) EXCEPT !.named = TRUE]
  <2>1. Told(w, r) BY <1>1, ToldFits DEF Back!NotifyAppId
  <2>2. Back!Notify(w, r) BY <1>1 DEF Back!NotifyAppId
  <2> HIDE DEF r
  <2> QED BY <2>1, <2>2, BackNotify
<1>2. CASE Back!NotifyTitle(w)
  <2>0. PICK s \in TitlesOf[w] : Back!Notify(w, [Back!Made(w) EXCEPT !.title = s])
    BY <1>2 DEF Back!NotifyTitle
  <2> DEFINE r == [Back!Made(w) EXCEPT !.title = s]
  <2>1. Told(w, r) BY ToldFits
  <2>2. Back!Notify(w, r) BY <2>0
  <2> HIDE DEF r
  <2> QED BY <2>1, <2>2, BackNotify
<1> QED BY <1>1, <1>2

\* Nothing the desk's list and the focus are about changes in a step that writes
\* none of it.
LEMMA BackQuiet ==
  ASSUME BackInv, rWin' = rWin, list' = list, rFocus' = rFocus, userAt' = userAt,
         UNCHANGED <<awaited, arrived, input, over>>,
         rQueue' \in Seq(Entries), last' \in Seq(Slots), plates' \in [Back!Titles -> Nat], timer' \in BOOLEAN,
         PlatesFit(plates', rQueue'), timer' <=> \E u \in Back!Titles : plates'[u] > 0,
         Back!OneSlot(last')
  PROVE  BackInv'
<1>1. BackTypes' BY DEF BackInv, BackTypes
<1>2. StackFits(list, rWin)' /\ \A w \in Comers : ComingKept(w)' BY DEF BackInv, ComingKept
<1>3. Back!OneSlotEach' BY DEF Back!OneSlotEach
<1>4. Back!HeldForTheChosen' BY DEF BackInv, Back!HeldForTheChosen
<1>5. (rFocus \in Back!Is("mapped") \cup {None})' BY DEF BackInv, Back!Is
<1> QED BY <1>1, <1>2, <1>3, <1>4, <1>5 DEF BackInv

\* A dialog's parent comes before it is mapped (set_parent).
LEMMA BackParent == ASSUME BackInv, NEW w \in Comers, Back!SetParent(w) PROVE BackInv'
<1>0. BackTypes /\ StackFits(list, rWin) /\ \A v \in Comers : ComingKept(v) BY DEF BackInv
<1>1. /\ rWin' = [rWin EXCEPT ![w].parent = TRUE] /\ rWin[w].state = "ready"
      /\ UNCHANGED <<rQueue, last, plates, timer, ruled, over, awaited, arrived, input, list, rFocus, userAt>>
  BY DEF Back!SetParent, Back!saved, Back!settling, Back!session
<1> DEFINE n == [rWin[w] EXCEPT !.parent = TRUE]
<1>2. rWin[w] \in Comings /\ rWin \in [Comers -> Comings] BY <1>0 DEF BackTypes
<1>3. /\ n \in Comings /\ n.state = "ready" /\ n.done = rWin[w].done /\ n.from = rWin[w].from
      /\ n.rank = rWin[w].rank /\ n.at = rWin[w].at
  BY <1>1, <1>2, ComingFields DEF Comings
<1>4. rWin'[w] = n /\ \A v \in Comers \ {w} : rWin'[v] = rWin[v] BY <1>1, <1>2
<1>w. rWin' \in [Comers -> Comings] BY <1>1, <1>2, <1>3
<1> HIDE DEF n
<1>5. \A v \in Comers : rWin'[v].state = rWin[v].state /\ rWin'[v].rank = rWin[v].rank
  BY <1>1, <1>3, <1>4
<1>6. ASSUME NEW v \in Comers PROVE ComingKept(v)'
  <2>1. CASE v = w BY <1>0, <1>1, <1>3, <1>4, <2>1 DEF ComingKept
  <2>2. CASE v # w BY <1>0, <1>1, <1>4, <2>2 DEF ComingKept
  <2> QED BY <2>1, <2>2
<1>7. StackFits(list, rWin')
  <2>1. \A i \in DOMAIN list : list[i] \in Comers /\ LinkedIn(list[i], rWin) BY <1>0 DEF StackFits
  <2>2. \A i \in DOMAIN list : LinkedIn(list[i], rWin') BY <1>5, <2>1 DEF LinkedIn
  <2> QED BY <1>0, <1>5, <2>1, <2>2, StackStands
<1>8. BackTypes' BY <1>0, <1>1, <1>w DEF BackTypes
<1>9. (rFocus \in Back!Is("mapped") \cup {None})' BY <1>1, <1>5 DEF BackInv, Back!Is
<1>10. Back!OneSlotEach' /\ Back!HeldForTheChosen' BY <1>1 DEF BackInv, Back!OneSlotEach, Back!HeldForTheChosen
<1>11. PlatesFit(plates, rQueue)' /\ (timer <=> \E u \in Back!Titles : plates[u] > 0)' BY <1>1 DEF BackInv
<1> QED BY <1>1, <1>6, <1>7, <1>8, <1>9, <1>10, <1>11 DEF BackInv

\* A window that is raised or dragged loses its saved place (Unranked).
LEMMA UnrankedFits ==
  ASSUME NEW n \in Comings
  PROVE  /\ Back!Unranked(n) \in Comings /\ Back!Unranked(n).rank = 0 /\ Back!Unranked(n).state = n.state
         /\ Back!Unranked(n).parent = n.parent /\ Back!Unranked(n).done = n.done
         /\ Back!Unranked(n).from = n.from /\ Back!Unranked(n).at = n.at
<1> DEFINE m == Back!Unranked(n)
<1>1. m = [n EXCEPT !.rank = 0] BY DEF Back!Unranked
<1> HIDE DEF m
<1>2. /\ m \in Comings /\ m.rank = 0 /\ m.state = n.state /\ m.parent = n.parent /\ m.done = n.done
      /\ m.from = n.from /\ m.at = n.at
  BY <1>1, ComingFields DEF Comings
<1> QED BY <1>2 DEF m

\* A window maps: it is restored if it was not, takes the focus and the top if it may, and
\* its saved place otherwise (Window::map).
LEMMA BackMap == ASSUME BackInv, NEW w \in Comers, Back!Map(w) PROVE BackInv'
<1> DEFINE r == [rWin[w] EXCEPT !.state = "mapped"]
           t == Back!TryRestore(w, r)
           may == Back!ShouldFocus(t.r)
           back == Back!Reconnects(ProgOf[w])
           takes == may /\ back = {}
           n == IF takes THEN Back!Unranked(t.r) ELSE t.r
<1>0. BackTypes /\ StackFits(list, rWin) /\ ComingKept(w) /\ PlatesFit(plates, rQueue)
      /\ \A v \in Comers : ComingKept(v)
  BY DEF BackInv
<1>w. rWin[w] \in Comings /\ rWin \in [Comers -> Comings] BY <1>0 DEF BackTypes
<1>r. /\ r \in Comings /\ r.state = "mapped" /\ r.parent = rWin[w].parent /\ r.done = rWin[w].done
      /\ r.from = rWin[w].from /\ r.rank = rWin[w].rank /\ r.at = rWin[w].at
  BY <1>w, ComingFields DEF Comings
<1>k. r.rank > 0 => r.done BY <1>0, <1>r DEF ComingKept
<1>a. /\ rWin[w].state = "ready" /\ (w \in Dialogs => rWin[w].parent)
      /\ Back!Restores(t)
      /\ arrived' = (arrived \/ (t.r.from = "queue" /\ t.r.chosen))
      /\ rWin' = [rWin EXCEPT ![w] = n]
      /\ rFocus' = IF takes THEN w ELSE rFocus
      /\ IF takes THEN list' = Back!Raised(w)
         ELSE IF t.r.rank > 0 /\ ~rWin[w].done /\ w \in Back!ToSet(list)
              THEN list' \in Back!Placed(w, rWin') ELSE UNCHANGED list
      /\ UNCHANGED <<last, ruled, over, awaited, input, userAt>>
  BY DEF Back!Map, Back!session
<1> HIDE DEF r
<1>1. Restored(w, r, t) BY <1>0, <1>r, <1>k, Tries
<1>d. r.done \/ Back!Skips(w, r) => t.r = r BY <1>1 DEF Restored
<1>h. takes => Back!ShouldFocus(t.r) OBVIOUS
<1> HIDE DEF t
<1>4. /\ t.r \in Comings /\ t.r.state = "mapped" /\ t.r.parent = rWin[w].parent
      /\ (t.r.rank > 0 => t.r.done) /\ t.r.rank \in Nat
  BY <1>1, <1>r DEF Restored, Comings
<1>n. /\ n \in Comings /\ n.state = "mapped" /\ n.parent = t.r.parent /\ n.done = t.r.done /\ n.from = t.r.from
      /\ n.at = t.r.at /\ (takes => n.rank = 0) /\ (~takes => n = t.r) /\ (n.rank > 0 => n.done)
  <2>1. CASE takes
    <3>1. n = Back!Unranked(t.r) BY <2>1
    <3>2. ~(0 > 0) OBVIOUS
    <3> HIDE DEF n
    <3> QED BY <1>4, <2>1, <3>1, <3>2, UnrankedFits
  <2>2. CASE ~takes
    <3>1. n = t.r BY <2>2
    <3> HIDE DEF n
    <3> QED BY <1>4, <2>2, <3>1
  <2> QED BY <2>1, <2>2
<1> HIDE DEF n, takes
<1>3. rWin' \in [Comers -> Comings] /\ rWin'[w] = n /\ \A v \in Comers \ {w} : rWin'[v] = rWin[v]
  BY <1>a, <1>n, <1>w
<1>5. ASSUME NEW v \in Comers PROVE ComingKept(v)'
  <2>1. CASE v # w BY <1>0, <1>a, <1>3, <2>1 DEF ComingKept
  <2>2. CASE v = w
    <3>1. w \in Dialogs /\ n.state = "mapped" => n.parent BY <1>a, <1>4, <1>n
    <3>2. w \in Dialogs \cap X11 => n.from = "none"
      <4> HAVE w \in Dialogs \cap X11
      <4>1. r.from = "none" /\ r.parent BY <1>0, <1>a, <1>r DEF ComingKept
      <4>2. Back!Skips(w, r) BY <4>1 DEF Back!Skips
      <4> QED BY <1>d, <1>n, <4>1, <4>2
    <3>3. userAt[w] # None /\ userAt[w].done => n.done /\ n.at = userAt[w].at
      BY <1>0, <1>d, <1>r, <1>n DEF ComingKept
    <3> QED BY <1>a, <1>n, <1>3, <2>2, <3>1, <3>2, <3>3 DEF ComingKept
  <2> QED BY <2>1, <2>2
<1>6. StackFits(list', rWin')
  <2>1. list \in Seq(Comers) /\ \A i \in DOMAIN list : list[i] \in Comers /\ LinkedIn(list[i], rWin)
    BY <1>0 DEF StackFits
  <2>2. ASSUME NEW i \in DOMAIN list PROVE LinkedIn(list[i], rWin')
    <3>1. CASE list[i] # w BY <1>3, <2>1, <3>1 DEF LinkedIn
    <3>2. CASE list[i] = w BY <1>3, <1>n, <3>2 DEF LinkedIn
    <3> QED BY <3>1, <3>2
  <2>3. CASE ~takes /\ t.r.rank > 0 /\ ~rWin[w].done /\ w \in Back!ToSet(list)
    <3>1. list' \in Back!Placed(w, rWin') BY <1>a, <2>3
    <3>2. \E i \in DOMAIN list : list[i] = w BY <2>3 DEF Back!ToSet
    <3> QED BY <2>1, <2>2, <3>1, <3>2, PlacedStacks
  <2>4. CASE ~(~takes /\ t.r.rank > 0 /\ ~rWin[w].done /\ w \in Back!ToSet(list))
    <3>1. ASSUME NEW i \in DOMAIN list PROVE rWin'[list[i]].rank = 0 \/ rWin'[list[i]].rank = rWin[list[i]].rank
      <4>1. CASE list[i] # w BY <1>3, <2>1, <4>1
      <4>2. CASE list[i] = w
        <5>1. w \in Back!ToSet(list) BY <4>2 DEF Back!ToSet
        <5>2. n.rank = 0 \/ (r.done /\ n = t.r) BY <1>4, <1>n, <1>r, <2>4, <5>1
        <5>3. r.done => t.r.rank = rWin[w].rank BY <1>d, <1>r
        <5> QED BY <1>3, <4>2, <5>2, <5>3
      <4> QED BY <4>1, <4>2
    <3>2. StackFits(list, rWin') BY <1>0, <2>2, <3>1, StackStands
    <3>3. CASE takes
      <4>1. list' = Append(Back!Drop(list, w), w) BY <1>a, <3>3 DEF Back!Raised
      <4>2. rWin'[w].state = "mapped" /\ rWin'[w].rank = 0 BY <1>3, <1>n, <3>3
      <4> QED BY <3>2, <4>1, <4>2, StackRaises
    <3>4. CASE ~takes
      <4>1. list' = list BY <1>a, <2>4, <3>4
      <4> QED BY <3>2, <4>1
    <3> QED BY <3>3, <3>4
  <2> QED BY <2>3, <2>4
<1>7. /\ PlatesFit(plates', rQueue') /\ timer' \in BOOLEAN /\ plates' \in [Back!Titles -> Nat]
      /\ (timer' <=> \E u \in Back!Titles : plates'[u] > 0) /\ rQueue' \in Seq(Entries)
  <2>1. /\ t.plates \in [Back!Titles -> Nat] /\ PlatesFit(t.plates, t.queue) /\ t.queue \in Seq(Entries)
        /\ \A u \in Back!Titles : t.plates[u] <= plates[u]
    BY <1>1 DEF Restored
  <2>2. rQueue' = t.queue /\ plates' = t.plates BY <1>a DEF Back!Restores
  <2> QED BY <1>a, <2>1, <2>2, TimerStays
<1>8. rFocus' \in Back!Is("mapped")' \cup {None}
  <2>1. rFocus \in Back!Is("mapped") \cup {None} BY DEF BackInv
  <2>2. w \in Back!Is("mapped")' BY <1>3, <1>n DEF Back!Is
  <2>3. rFocus' = w \/ rFocus' = rFocus BY <1>a
  <2>4. Back!Is("mapped") \subseteq Back!Is("mapped")' \cup {w} BY <1>3 DEF Back!Is
  <2> QED BY <2>1, <2>2, <2>3, <2>4
<1>9. BackTypes'
  <2>1. list' \in Seq(Comers) BY <1>6 DEF StackFits
  <2>2. rFocus' \in Comers \cup {None} BY <1>0, <1>a DEF BackTypes
  <2>3. arrived' \in BOOLEAN BY <1>0, <1>a DEF BackTypes
  <2> QED BY <1>0, <1>a, <1>3, <1>7, <2>1, <2>2, <2>3 DEF BackTypes
<1>10. Back!HeldForTheChosen'
  <2> SUFFICES ASSUME awaited, ~arrived', ~input PROVE rFocus' = None
    BY <1>a DEF Back!HeldForTheChosen
  <2>1. ~arrived /\ ~(t.r.from = "queue" /\ t.r.chosen) BY <1>a
  <2>2. ~Back!ShouldFocus(t.r) BY <2>1 DEF Back!ShouldFocus
  <2>3. ~takes BY <1>h, <2>2
  <2> QED BY <1>a, <2>1, <2>3 DEF BackInv, Back!HeldForTheChosen
<1>11. Back!OneSlotEach' BY <1>a DEF BackInv, Back!OneSlotEach
<1> QED BY <1>5, <1>6, <1>7, <1>8, <1>9, <1>10, <1>11 DEF BackInv

\* A window is raised and focused by the user, its saved place gone; where it is, the
\* user may have said (Press, Move).
LEMMA BackRaised ==
  ASSUME BackInv, NEW w \in Comers, rWin[w].state = "mapped", NEW n \in Comings,
         n.state = "mapped", n.parent = rWin[w].parent, n.done = rWin[w].done, n.from = rWin[w].from, n.rank = 0,
         rWin' = [rWin EXCEPT ![w] = n], list' = Back!Raised(w), rFocus' = w, input' = TRUE,
         \/ userAt' = userAt /\ n.at = rWin[w].at
         \/ userAt' = [userAt EXCEPT ![w] = [at |-> n.at, done |-> n.done]],
         UNCHANGED <<rQueue, last, plates, timer, over, awaited, arrived>>
  PROVE  BackInv'
<1>0. BackTypes /\ StackFits(list, rWin) /\ \A v \in Comers : ComingKept(v) BY DEF BackInv
<1>3. rWin' \in [Comers -> Comings] /\ rWin'[w] = n /\ \A v \in Comers \ {w} : rWin'[v] = rWin[v]
  BY <1>0 DEF BackTypes
<1>4. /\ userAt' \in [Comers -> {None} \cup [at : Int, done : BOOLEAN]]
      /\ \A v \in Comers \ {w} : userAt'[v] = userAt[v]
      /\ userAt'[w] = [at |-> n.at, done |-> n.done] \/ (userAt'[w] = userAt[w] /\ n.at = rWin[w].at)
  <2>1. userAt \in [Comers -> {None} \cup [at : Int, done : BOOLEAN]] BY <1>0 DEF BackTypes
  <2>2. [at |-> n.at, done |-> n.done] \in [at : Int, done : BOOLEAN] BY ComingFields
  <2> QED BY <2>1, <2>2
<1>5. ASSUME NEW v \in Comers PROVE ComingKept(v)'
  <2>1. CASE v # w BY <1>0, <1>3, <1>4, <2>1 DEF ComingKept
  <2>2. CASE v = w
    <3>1. ~(0 > 0) OBVIOUS
    <3>2. userAt'[w] # None /\ userAt'[w].done => n.done /\ n.at = userAt'[w].at
      <4>1. CASE userAt'[w] = [at |-> n.at, done |-> n.done]
        <5>1. userAt'[w].at = n.at /\ userAt'[w].done = n.done BY <4>1
        <5> QED BY <5>1
      <4>2. CASE userAt'[w] = userAt[w] /\ n.at = rWin[w].at BY <1>0, <4>2 DEF ComingKept
      <4> QED BY <1>4, <4>1, <4>2
    <3> QED BY <1>0, <1>3, <2>2, <3>1, <3>2 DEF ComingKept
  <2> QED BY <2>1, <2>2
<1>6. StackFits(list', rWin')
  <2>1. \A i \in DOMAIN list : list[i] \in Comers /\ LinkedIn(list[i], rWin) BY <1>0 DEF StackFits
  <2>2. ASSUME NEW i \in DOMAIN list
        PROVE  /\ LinkedIn(list[i], rWin')
               /\ rWin'[list[i]].rank = 0 \/ rWin'[list[i]].rank = rWin[list[i]].rank
    <3>1. CASE list[i] # w BY <1>3, <2>1, <3>1 DEF LinkedIn
    <3>2. CASE list[i] = w BY <1>3, <3>2 DEF LinkedIn
    <3> QED BY <3>1, <3>2
  <2>3. StackFits(list, rWin') BY <1>0, <2>2, StackStands
  <2>4. list' = Append(Back!Drop(list, w), w) BY DEF Back!Raised
  <2>5. rWin'[w].state = "mapped" /\ rWin'[w].rank = 0 BY <1>3
  <2>6. ASSUME NEW W, W = rWin', StackFits(list, W), W[w].state = "mapped", W[w].rank = 0
        PROVE  StackFits(Append(Back!Drop(list, w), w), W)
    BY <2>6, StackRaises
  <2>7. StackFits(Append(Back!Drop(list, w), w), rWin') BY <2>3, <2>5, <2>6
  <2> QED BY <2>4, <2>7
<1>7. (rFocus \in Back!Is("mapped") \cup {None})' BY <1>3 DEF Back!Is
<1>8. BackTypes'
  <2>1. list' \in Seq(Comers) BY <1>6 DEF StackFits
  <2> QED BY <1>0, <1>3, <1>4, <2>1 DEF BackTypes
<1>9. Back!OneSlotEach' /\ Back!HeldForTheChosen' BY DEF BackInv, Back!OneSlotEach, Back!HeldForTheChosen
<1>10. PlatesFit(plates, rQueue)' /\ (timer <=> \E u \in Back!Titles : plates[u] > 0)' BY DEF BackInv
<1> QED BY <1>5, <1>6, <1>7, <1>8, <1>9, <1>10 DEF BackInv

\* The user drags a window (Move).
LEMMA BackMove == ASSUME BackInv, NEW w \in Comers, Back!Move(w) PROVE BackInv'
<1>0. PICK p \in NewPlaces : /\ rWin' = [rWin EXCEPT ![w] = [Back!Unranked(@) EXCEPT !.at = p]]
                             /\ userAt' = [userAt EXCEPT ![w] = [at |-> p, done |-> rWin[w].done]]
  BY DEF Back!Move
<1>1. /\ rWin[w].state = "mapped" /\ input' = TRUE /\ list' = Back!Raised(w) /\ rFocus' = w
      /\ UNCHANGED <<rQueue, last, plates, timer, over, awaited, arrived>>
  BY DEF Back!Move, Back!saved, Back!session
<1> DEFINE m == Back!Unranked(rWin[w])
           n == [m EXCEPT !.at = p]
<1>2. rWin[w] \in Comings /\ rWin \in [Comers -> Comings] BY DEF BackInv, BackTypes
<1>3. /\ m \in Comings /\ m.rank = 0 /\ m.state = "mapped" /\ m.parent = rWin[w].parent
      /\ m.done = rWin[w].done /\ m.from = rWin[w].from
  <2>1. m \in Comings /\ m.rank = 0 /\ m.state = rWin[w].state /\ m.parent = rWin[w].parent
        /\ m.done = rWin[w].done /\ m.from = rWin[w].from
    BY <1>2, UnrankedFits
  <2> HIDE DEF m
  <2> QED BY <1>1, <2>1
<1>p. p \in Int BY RestoreAssumption
<1>6. rWin' = [rWin EXCEPT ![w] = n] BY <1>0, <1>2
<1> HIDE DEF m
<1>4. /\ n \in Comings /\ n.state = "mapped" /\ n.parent = rWin[w].parent /\ n.done = rWin[w].done
      /\ n.from = rWin[w].from /\ n.rank = 0 /\ n.at = p
  BY <1>3, <1>p, ComingFields DEF Comings
<1> HIDE DEF n
<1>5. userAt' = [userAt EXCEPT ![w] = [at |-> n.at, done |-> n.done]] BY <1>0, <1>4
<1> QED BY <1>1, <1>4, <1>5, <1>6, BackRaised

\* A key is pressed, or a window (startup_input_seen).
LEMMA BackPress == ASSUME BackInv, Back!Press PROVE BackInv'
<1>1. /\ input' = TRUE
      /\ UNCHANGED <<rQueue, last, plates, timer, over, awaited, arrived, userAt>>
  BY DEF Back!Press, Back!saved, Back!session
<1>2. CASE UNCHANGED <<rWin, list, rFocus>>
  <2>1. BackTypes' BY <1>1, <1>2 DEF BackInv, BackTypes
  <2>2. StackFits(list, rWin)' /\ \A w \in Comers : ComingKept(w)' BY <1>1, <1>2 DEF BackInv, ComingKept
  <2>3. Back!OneSlotEach' /\ Back!HeldForTheChosen' BY <1>1 DEF BackInv, Back!OneSlotEach, Back!HeldForTheChosen
  <2>4. (rFocus \in Back!Is("mapped") \cup {None})' BY <1>2 DEF BackInv, Back!Is
  <2>5. PlatesFit(plates, rQueue)' /\ (timer <=> \E u \in Back!Titles : plates[u] > 0)' BY <1>1 DEF BackInv
  <2> QED BY <2>1, <2>2, <2>3, <2>4, <2>5 DEF BackInv
<1>3. ASSUME NEW w \in Back!Is("mapped"), rFocus' = w, list' = Back!Raised(w),
             rWin' = [rWin EXCEPT ![w] = Back!Unranked(@)]
      PROVE  BackInv'
  <2> DEFINE n == Back!Unranked(rWin[w])
  <2>1. w \in Comers /\ rWin[w].state = "mapped" BY DEF Back!Is
  <2>2. rWin[w] \in Comings /\ rWin \in [Comers -> Comings] BY <2>1 DEF BackInv, BackTypes
  <2>3. rWin' = [rWin EXCEPT ![w] = n] BY <1>3
  <2>4. /\ n \in Comings /\ n.rank = 0 /\ n.state = rWin[w].state /\ n.parent = rWin[w].parent
        /\ n.done = rWin[w].done /\ n.from = rWin[w].from /\ n.at = rWin[w].at
    BY <2>2, UnrankedFits
  <2> HIDE DEF n
  <2> QED BY <1>1, <1>3, <2>1, <2>3, <2>4, BackRaised
<1> QED BY <1>2, <1>3 DEF Back!Press

\* A window closes, and the next one may take the focus (Window::unmap).
LEMMA BackClose == ASSUME BackInv, NEW w \in Comers, Back!Close(w) PROVE BackInv'
<1>0. BackTypes /\ StackFits(list, rWin) /\ \A v \in Comers : ComingKept(v) BY DEF BackInv
<1>1. /\ rWin' = [rWin EXCEPT ![w] = Back!Away] /\ list' = Back!Drop(list, w)
      /\ IF rFocus = w THEN rFocus' \in (Back!Is("mapped") \ {w}) \cup {None} ELSE UNCHANGED rFocus
      /\ userAt' = [userAt EXCEPT ![w] = None]
      /\ UNCHANGED <<rQueue, last, plates, timer, over, awaited, arrived, input>>
  BY DEF Back!Close, Back!saved, Back!settling, Back!session
<1>2. Back!Away \in Comings BY DEF Back!Away, Comings, Back!Titles
<1>a. Back!Away.state = "away" /\ Back!Away.rank = 0 /\ Back!Away.from = "none" BY DEF Back!Away
<1>3. rWin' \in [Comers -> Comings] /\ rWin'[w] = Back!Away /\ \A v \in Comers \ {w} : rWin'[v] = rWin[v]
  BY <1>0, <1>1, <1>2 DEF BackTypes
<1>4. /\ userAt' \in [Comers -> {None} \cup [at : Int, done : BOOLEAN]] /\ userAt'[w] = None
      /\ \A v \in Comers \ {w} : userAt'[v] = userAt[v]
  BY <1>0, <1>1 DEF BackTypes
<1>5. ASSUME NEW v \in Comers PROVE ComingKept(v)'
  <2>1. CASE v # w BY <1>0, <1>3, <1>4, <2>1 DEF ComingKept
  <2>2. CASE v = w
    <3>1. ~(0 > 0) OBVIOUS
    <3> QED BY <1>3, <1>4, <1>a, <2>2, <3>1 DEF ComingKept
  <2> QED BY <2>1, <2>2
<1>6. StackFits(list', rWin')
  <2> DEFINE m == Back!Drop(list, w)
  <2>1. StackFits(m, rWin) /\ \A i \in DOMAIN m : m[i] # w BY <1>0, StackDrops
  <2> HIDE DEF m
  <2>2. \A i \in DOMAIN m : m[i] \in Comers /\ LinkedIn(m[i], rWin) BY <2>1 DEF StackFits
  <2>3. \A i \in DOMAIN m : rWin'[m[i]] = rWin[m[i]] BY <1>3, <2>1, <2>2
  <2>4. StackFits(m, rWin')
    <3>1. \A i \in DOMAIN m : LinkedIn(m[i], rWin') BY <2>2, <2>3 DEF LinkedIn
    <3> QED BY <2>1, <2>3, <3>1, StackStands
  <2> QED BY <1>1, <2>4 DEF m
<1>7. (rFocus \in Back!Is("mapped") \cup {None})'
  <2>1. rFocus \in Back!Is("mapped") \cup {None} BY DEF BackInv
  <2>2. rFocus' \in (Back!Is("mapped") \ {w}) \cup {None} BY <1>1, <2>1
  <2>3. Back!Is("mapped") \ {w} \subseteq Back!Is("mapped")' BY <1>3 DEF Back!Is
  <2> QED BY <2>2, <2>3
<1>8. BackTypes'
  <2>1. list' \in Seq(Comers) BY <1>6 DEF StackFits
  <2>2. rFocus' \in Comers \cup {None} BY <1>0, <1>1 DEF BackTypes, Back!Is
  <2> QED BY <1>0, <1>1, <1>3, <1>4, <2>1, <2>2 DEF BackTypes
<1>9. Back!HeldForTheChosen'
  <2> SUFFICES ASSUME awaited, ~arrived, ~input PROVE rFocus' = None BY <1>1 DEF Back!HeldForTheChosen
  <2>1. rFocus = None BY DEF BackInv, Back!HeldForTheChosen
  <2>2. rFocus # w BY <2>1, RestoreAssumption
  <2> QED BY <1>1, <2>1, <2>2
<1>10. Back!OneSlotEach' BY <1>1 DEF BackInv, Back!OneSlotEach
<1>11. PlatesFit(plates, rQueue)' /\ (timer <=> \E u \in Back!Titles : plates[u] > 0)' BY <1>1 DEF BackInv
<1> QED BY <1>5, <1>6, <1>7, <1>8, <1>9, <1>10, <1>11 DEF BackInv

\* New windows are linked at the bottom of the list, or by their rank (manage_start).
LEMMA BackManage == ASSUME BackInv, Back!Manage PROVE BackInv'
<1>0. BackTypes /\ StackFits(list, rWin) BY DEF BackInv
<1>1. UNCHANGED <<rQueue, last, plates, timer, over, awaited, arrived, input, rWin, rFocus, userAt>>
  BY DEF Back!Manage, Back!saved, Back!settling, Back!session
<1> DEFINE S == Back!Linked \cup Back!ToSet(list)
<1>2. list' \in Back!SetToSeqs(S) /\ Back!Ascending(list', rWin) BY DEF Back!Manage
<1>3. S \subseteq Comers BY <1>0 DEF Back!Linked, Back!Is, Back!ToSet, BackTypes
<1>4. \A v \in S : LinkedIn(v, rWin)
  BY <1>0 DEF Back!Linked, Back!Is, Back!ToSet, LinkedIn, StackFits
<1> HIDE DEF S
<1>5. list' \in Seq(Comers) /\ Distinct(list') /\ \A i \in DOMAIN list' : list'[i] \in S
  <2> SUFFICES ASSUME NEW m, m = list'
               PROVE  m \in Seq(Comers) /\ Distinct(m) /\ \A i \in DOMAIN m : m[i] \in S
    OBVIOUS
  <2> QED BY <1>2, <1>3, Orders
<1>6. StackFits(list', rWin') BY <1>1, <1>2, <1>4, <1>5 DEF StackFits
<1>7. BackTypes' BY <1>0, <1>1, <1>5 DEF BackTypes
<1>8. \A w \in Comers : ComingKept(w)' BY <1>1 DEF BackInv, ComingKept
<1>9. Back!OneSlotEach' /\ Back!HeldForTheChosen' BY <1>1 DEF BackInv, Back!OneSlotEach, Back!HeldForTheChosen
<1>10. (rFocus \in Back!Is("mapped") \cup {None})' BY <1>1 DEF BackInv, Back!Is
<1>11. PlatesFit(plates, rQueue)' /\ (timer <=> \E u \in Back!Titles : plates[u] > 0)' BY <1>1 DEF BackInv
<1> QED BY <1>6, <1>7, <1>8, <1>9, <1>10, <1>11 DEF BackInv

\* The plates that are left go (handle_restore_placeholder_timeout).
LEMMA BackSweep == ASSUME BackInv, Back!Sweep PROVE BackInv'
<1>1. /\ timer' = FALSE /\ plates' = [u \in Back!Titles |-> 0]
      /\ UNCHANGED <<rQueue, last, over, awaited, arrived, input, rWin, list, rFocus, userAt>>
  BY DEF Back!Sweep, Back!settling, Back!session
<1>2. rQueue \in Seq(Entries) /\ last \in Seq(Slots) /\ Back!OneSlot(last)
  BY DEF BackInv, BackTypes, Back!OneSlotEach
<1>3. plates' \in [Back!Titles -> Nat] /\ \A u \in Back!Titles : plates'[u] = 0 BY <1>1
<1>4. PlatesFit(plates', rQueue)
  <2> SUFFICES ASSUME NEW u \in Back!Titles PROVE plates'[u] <= Cardinality({i \in DOMAIN rQueue : rQueue[i].title = u})
    BY DEF PlatesFit
  <2> DEFINE D == DOMAIN rQueue
             T == {i \in D : rQueue[i].title = u}
  <2>1. Len(rQueue) \in Nat /\ D = 1..Len(rQueue) BY <1>2
  <2>2. IsFiniteSet(D) BY <2>1, FS_Interval
  <2> HIDE DEF D
  <2>3. T \subseteq D OBVIOUS
  <2> HIDE DEF T
  <2>4. Cardinality(T) \in Nat BY <2>2, <2>3, FS_Subset, FS_CardinalityType
  <2>5. plates'[u] <= Cardinality(T) BY <1>3, <2>4
  <2> QED BY <2>5 DEF T, D
<1>5. ~ \E u \in Back!Titles : plates'[u] > 0
  <2>1. ~(0 > 0) OBVIOUS
  <2> QED BY <1>3, <2>1
<1>6. rQueue' \in Seq(Entries) /\ last' \in Seq(Slots) /\ Back!OneSlot(last') /\ PlatesFit(plates', rQueue')
  BY <1>1, <1>2, <1>4
<1>7. timer' \in BOOLEAN /\ (timer' <=> \E u \in Back!Titles : plates'[u] > 0) BY <1>1, <1>5
<1> QED BY <1>1, <1>3, <1>6, <1>7, BackQuiet

\* A step that writes only the programs that vanished (Expire), or nothing.
LEMMA BackStands ==
  ASSUME BackInv,
         UNCHANGED <<rQueue, last, plates, timer, over, awaited, arrived, input, rWin, list, rFocus, userAt>>
  PROVE  BackInv'
<1>1. /\ rQueue' \in Seq(Entries) /\ last' \in Seq(Slots) /\ plates' \in [Back!Titles -> Nat]
      /\ timer' \in BOOLEAN /\ Back!OneSlot(last') /\ PlatesFit(plates', rQueue')
  BY DEF BackInv, BackTypes, Back!OneSlotEach
<1>2. timer' <=> \E u \in Back!Titles : plates'[u] > 0 BY DEF BackInv
<1> QED BY <1>1, <1>2, BackQuiet

\* RECONNECT_FOCUS_GRACE passes.
LEMMA BackExpire == ASSUME BackInv, Back!Expire PROVE BackInv'
<1>1. UNCHANGED <<rQueue, last, plates, timer, over, awaited, arrived, input, rWin, list, rFocus, userAt>>
  BY DEF Back!Expire, Back!saved, Back!settling, Back!session
<1> QED BY <1>1, BackStands

\* The session file is read, and its entries get their plates (load_state,
\* create_restore_placeholders).
LEMMA BackInit == ASSUME Back!Init PROVE BackInv
<1>1. PICK f \in Files :
          /\ rQueue = f.queue /\ last = f.last /\ over = f.over
          /\ plates = [u \in Back!Titles |->
                 Back!Cardinality({i \in DOMAIN f.queue : f.queue[i].title = u /\ f.queue[i].runs})]
          /\ timer = (\E u \in Back!Titles : plates[u] > 0)
          /\ awaited = (\E e \in Back!ToSet(f.queue) : e.focused)
  BY DEF Back!Init
<1>2. /\ arrived = FALSE /\ rWin = [w \in Comers |-> Back!Away] /\ list = <<>>
      /\ rFocus = None /\ input = FALSE /\ userAt = [w \in Comers |-> None]
  BY DEF Back!Init
<1>3. rQueue \in Seq(Entries) /\ last \in Seq(Slots) /\ Back!OneSlot(last) /\ over \in BOOLEAN
  BY <1>1, RestoreAssumption
<1>4. ASSUME NEW u \in Back!Titles
      PROVE  plates[u] \in Nat /\ plates[u] <= Cardinality({i \in DOMAIN rQueue : rQueue[i].title = u})
  <2> DEFINE D == DOMAIN rQueue
             T == {i \in D : rQueue[i].title = u}
             R == {i \in D : rQueue[i].title = u /\ rQueue[i].runs}
  <2>1. Len(rQueue) \in Nat /\ D = 1..Len(rQueue) BY <1>3
  <2>2. IsFiniteSet(D) BY <2>1, FS_Interval
  <2>e. plates[u] = Back!Cardinality(R) BY <1>1
  <2> HIDE DEF D
  <2>3. T \subseteq D /\ R \subseteq T OBVIOUS
  <2> HIDE DEF T, R
  <2>4. IsFiniteSet(T) BY <2>2, <2>3, FS_Subset
  <2>5. Cardinality(R) <= Cardinality(T) /\ IsFiniteSet(R) BY <2>3, <2>4, FS_Subset
  <2>6. Cardinality(R) \in Nat BY <2>5, FS_CardinalityType
  <2>7. Back!Cardinality(R) = Cardinality(R) BY DEF Back!Cardinality, Cardinality
  <2>8. plates[u] \in Nat /\ plates[u] <= Cardinality(T) BY <2>5, <2>6, <2>7, <2>e
  <2> QED BY <2>8 DEF T, D
<1>5. plates \in [Back!Titles -> Nat] /\ PlatesFit(plates, rQueue)
  <2>1. plates = [u \in Back!Titles |-> plates[u]] BY <1>1
  <2> QED BY <1>4, <2>1 DEF PlatesFit
<1>6. timer \in BOOLEAN /\ awaited \in BOOLEAN BY <1>1
<1>a. Back!Away \in Comings /\ Back!Away.state = "away" /\ Back!Away.rank = 0 /\ Back!Away.from = "none"
  BY DEF Back!Away, Comings, Back!Titles
<1>7. \A w \in Comers : rWin[w] = Back!Away /\ userAt[w] = None BY <1>2
<1>8. BackTypes
  <2>1. rWin \in [Comers -> Comings] /\ userAt \in [Comers -> {None} \cup [at : Int, done : BOOLEAN]]
    BY <1>2, <1>a
  <2>2. {timer, awaited, arrived, input, over} \subseteq BOOLEAN BY <1>2, <1>3, <1>6
  <2>3. list \in Seq(Comers) /\ rFocus \in Comers \cup {None} BY <1>2
  <2> QED BY <1>3, <1>5, <2>1, <2>2, <2>3 DEF BackTypes
<1>9. \A w \in Comers : ComingKept(w)
  <2>1. ~(0 > 0) OBVIOUS
  <2> QED BY <1>7, <1>a, <2>1 DEF ComingKept
<1>10. StackFits(list, rWin)
  <2>1. DOMAIN list = {} BY <1>2
  <2> QED BY <1>2, <2>1 DEF StackFits, Distinct, Back!Ascending
<1>11. Back!OneSlotEach /\ Back!HeldForTheChosen BY <1>2, <1>3 DEF Back!OneSlotEach, Back!HeldForTheChosen
<1>12. timer <=> \E u \in Back!Titles : plates[u] > 0 BY <1>1
<1> QED BY <1>2, <1>5, <1>8, <1>9, <1>10, <1>11, <1>12 DEF BackInv

\* Entries that are not of one known program; lists in which all are so.
Apart(x, y) == x.prog # Unknown => x.prog # y.prog
SlotLists == {l \in Seq(Slots) : \A i, j \in DOMAIN l : i < j => Apart(l[i], l[j])}

\* Two such lists with nothing of one program between them, one behind the other.
LEMMA SlotsJoin ==
  ASSUME NEW a \in SlotLists, NEW b \in SlotLists,
         \A i \in DOMAIN a, j \in DOMAIN b : Apart(a[i], b[j])
  PROVE  /\ a \o b \in SlotLists
         /\ \A i \in DOMAIN (a \o b) : \/ \E j \in DOMAIN a : (a \o b)[i] = a[j]
                                     \/ \E j \in DOMAIN b : (a \o b)[i] = b[j]
<1> DEFINE c == a \o b
<1>1. a \in Seq(Slots) /\ b \in Seq(Slots) BY DEF SlotLists
<1>2. /\ c \in Seq(Slots) /\ Len(c) = Len(a) + Len(b)
      /\ \A i \in 1..(Len(a) + Len(b)) : c[i] = IF i <= Len(a) THEN a[i] ELSE b[i - Len(a)]
  BY <1>1, ConcatProperties, Zenon
<1> HIDE DEF c
<1>3. /\ Len(a) \in Nat /\ DOMAIN a = 1..Len(a) /\ Len(b) \in Nat /\ DOMAIN b = 1..Len(b)
      /\ DOMAIN c = 1..Len(c)
  BY <1>1, <1>2, LenProperties
<1>4. ASSUME NEW i \in DOMAIN c
      PROVE  \/ i <= Len(a) /\ i \in DOMAIN a /\ c[i] = a[i]
             \/ i > Len(a) /\ i - Len(a) \in DOMAIN b /\ c[i] = b[i - Len(a)]
  BY <1>2, <1>3
<1>5. ASSUME NEW i \in DOMAIN c, NEW j \in DOMAIN c, i < j PROVE Apart(c[i], c[j])
  <2>0. i \in Nat /\ j \in Nat BY <1>2, <1>3
  <2>1. CASE i \in DOMAIN a /\ c[i] = a[i] /\ j \in DOMAIN a /\ c[j] = a[j] BY <1>5, <2>1 DEF SlotLists
  <2>2. CASE i \in DOMAIN a /\ c[i] = a[i] /\ j - Len(a) \in DOMAIN b /\ c[j] = b[j - Len(a)] BY <2>2
  <2>3. CASE i - Len(a) \in DOMAIN b /\ c[i] = b[i - Len(a)] /\ j - Len(a) \in DOMAIN b /\ c[j] = b[j - Len(a)]
    <3>1. i - Len(a) < j - Len(a) BY <1>3, <1>5, <2>0
    <3> QED BY <2>3, <3>1 DEF SlotLists
  <2>4. ~(i > Len(a) /\ j <= Len(a)) BY <1>3, <1>5, <2>0
  <2> QED BY <1>4, <2>1, <2>2, <2>3, <2>4
<1>6. c \in SlotLists BY <1>2, <1>5 DEF SlotLists
<1>7. \A i \in DOMAIN c : (\E j \in DOMAIN a : c[i] = a[j]) \/ (\E j \in DOMAIN b : c[i] = b[j]) BY <1>4
<1> QED BY <1>6, <1>7 DEF c

\* Some of such a list, in its order (Vec::retain).
LEMMA SlotsLeft ==
  ASSUME NEW l \in SlotLists, NEW S
  PROVE  /\ Back!Only(l, S) \in SlotLists
         /\ \A i \in DOMAIN Back!Only(l, S) :
              Back!Only(l, S)[i] \in S /\ \E j \in DOMAIN l : Back!Only(l, S)[i] = l[j]
<1> DEFINE m == Back!Only(l, S)
<1>1. l \in Seq(Slots) BY DEF SlotLists
<1>2. m \in Seq(Slots) /\ Follows(m, l, Len(l), S) BY <1>1, OnlyFollows
<1>3. DOMAIN l = 1..Len(l) BY <1>1, LenProperties
<1> HIDE DEF m
<1>4. ASSUME NEW i \in DOMAIN m, NEW j \in DOMAIN m, i < j PROVE Apart(m[i], m[j])
  <2>1. PICK p \in DOMAIN l, q \in DOMAIN l : p < q /\ m[i] = l[p] /\ m[j] = l[q]
    BY <1>2, <1>3, <1>4 DEF Follows
  <2> QED BY <2>1 DEF SlotLists
<1>5. \A i \in DOMAIN m : m[i] \in S /\ \E j \in DOMAIN l : m[i] = l[j] BY <1>2, <1>3 DEF Follows
<1> QED BY <1>2, <1>4, <1>5 DEF SlotLists, m

\* A stretch of such a list.
LEMMA SlotsPart ==
  ASSUME NEW l \in SlotLists, NEW p \in 1..(Len(l) + 1), NEW q \in 0..Len(l)
  PROVE  /\ SubSeq(l, p, q) \in SlotLists
         /\ \A i \in DOMAIN SubSeq(l, p, q) : \E j \in DOMAIN l : p <= j /\ j <= q /\ SubSeq(l, p, q)[i] = l[j]
<1> DEFINE m == SubSeq(l, p, q)
<1>1. l \in Seq(Slots) /\ Len(l) \in Nat /\ DOMAIN l = 1..Len(l) /\ \A i \in DOMAIN l : l[i] \in Slots
  BY DEF SlotLists
<1>2. p \in Int /\ q \in Int /\ \A i \in p..q : i \in DOMAIN l /\ l[i] \in Slots BY <1>1
<1>3. /\ m \in Seq(Slots) /\ Len(m) = IF p <= q THEN q - p + 1 ELSE 0
      /\ \A i \in 1..(q - p + 1) : m[i] = l[p + i - 1]
  BY <1>2, SubSeqProperties
<1> HIDE DEF m
<1>4. DOMAIN m = 1..Len(m) BY <1>3, LenProperties
<1>5. ASSUME NEW i \in DOMAIN m
      PROVE  p + i - 1 \in DOMAIN l /\ p <= p + i - 1 /\ p + i - 1 <= q /\ m[i] = l[p + i - 1]
  <2>1. p <= q /\ i \in 1..(q - p + 1) BY <1>2, <1>3, <1>4
  <2>2. p + i - 1 \in p..q BY <1>2, <2>1
  <2> QED BY <1>2, <1>3, <2>1, <2>2
<1>6. ASSUME NEW i \in DOMAIN m, NEW j \in DOMAIN m, i < j PROVE Apart(m[i], m[j])
  <2>0. Len(m) \in Nat BY <1>2, <1>3
  <2>1. p + i - 1 < p + j - 1 BY <1>2, <1>4, <1>6, <2>0
  <2> QED BY <1>5, <2>1 DEF SlotLists
<1> QED BY <1>3, <1>5, <1>6 DEF SlotLists, m

\* A window's state takes the slot of its program, or a new one (save_state).
LEMMA SlotTaken ==
  ASSUME BackTypes, NEW l \in SlotLists, NEW w \in Comers
  PROVE  Back!SaveOne(l, w) \in SlotLists
<1> DEFINE p == ProgOf[w]
           e == [title |-> rWin[w].title, prog |-> p, at |-> rWin[w].at]
           slots == {i \in DOMAIN l : Back!SameProgram(l[i], p)}
           k == Back!Min(slots)
           rest == Back!Only(SubSeq(l, k + 1, Len(l)), {s \in Back!ToSet(l) : p = Unknown \/ s.prog # p})
<1>1. Back!SaveOne(l, w) = IF slots = {} THEN Append(l, e) ELSE SubSeq(l, 1, k - 1) \o <<e>> \o rest
  BY DEF Back!SaveOne
<1>2. e \in Slots
  <2>1. rWin[w].title \in Back!Titles /\ rWin[w].at \in Int BY DEF BackTypes, Comings
  <2>2. p \in Progs BY DEF Progs
  <2> HIDE DEF p
  <2> QED BY <2>1, <2>2 DEF Slots
<1>p. e.prog = p OBVIOUS
<1> HIDE DEF e, p
<1>3. <<e>> \in SlotLists /\ DOMAIN <<e>> = {1} /\ <<e>>[1] = e
  <2>1. <<e>> \in Seq(Slots) /\ DOMAIN <<e>> = {1} /\ <<e>>[1] = e BY <1>2
  <2>2. \A i, j \in DOMAIN <<e>> : ~(i < j) BY <2>1
  <2> QED BY <2>1, <2>2 DEF SlotLists
<1>4. l \in Seq(Slots) /\ Len(l) \in Nat /\ DOMAIN l = 1..Len(l) BY DEF SlotLists
<1>5. CASE slots = {}
  <2>1. \A i \in DOMAIN l, j \in DOMAIN <<e>> : Apart(l[i], <<e>>[j])
    BY <1>3, <1>5, <1>p DEF Back!SameProgram, Apart
  <2>2. Append(l, e) = l \o <<e>> BY <1>2, <1>4, AppendIsConcat
  <2> QED BY <1>1, <1>3, <1>5, <2>1, <2>2, SlotsJoin
<1>6. CASE slots # {}
  <2>1. slots \in SUBSET Int /\ 1 \in Int /\ \A x \in slots : 1 <= x BY <1>4
  <2>2. k \in slots /\ \A y \in slots : k <= y
    <3> HIDE DEF slots
    <3> QED BY <1>6, <2>1, LeastOf
  <2>3. k \in DOMAIN l /\ k \in 1..Len(l) BY <1>4, <2>2
  <2> HIDE DEF k
  <2> DEFINE a == SubSeq(l, 1, k - 1)
             b == SubSeq(l, k + 1, Len(l))
             S == {s \in Back!ToSet(l) : p = Unknown \/ s.prog # p}
  <2>4. a \in SlotLists /\ \A i \in DOMAIN a : \E j \in DOMAIN l : j < k /\ a[i] = l[j]
    <3>1. 1 \in 1..(Len(l) + 1) /\ k - 1 \in 0..Len(l) /\ \A j \in DOMAIN l : j <= k - 1 => j < k BY <1>4, <2>3
    <3>2. /\ SubSeq(l, 1, k - 1) \in SlotLists
          /\ \A i \in DOMAIN SubSeq(l, 1, k - 1) :
               \E j \in DOMAIN l : 1 <= j /\ j <= k - 1 /\ SubSeq(l, 1, k - 1)[i] = l[j]
      BY <3>1, SlotsPart
    <3> HIDE DEF slots
    <3> QED BY <3>1, <3>2
  <2>5. b \in SlotLists /\ \A i \in DOMAIN b : \E j \in DOMAIN l : k < j /\ b[i] = l[j]
    <3>1. Len(l) \in 0..Len(l) /\ k + 1 \in 1..(Len(l) + 1) /\ \A j \in DOMAIN l : k + 1 <= j => k < j BY <1>4, <2>3
    <3>2. /\ SubSeq(l, k + 1, Len(l)) \in SlotLists
          /\ \A i \in DOMAIN SubSeq(l, k + 1, Len(l)) :
               \E j \in DOMAIN l : k + 1 <= j /\ j <= Len(l) /\ SubSeq(l, k + 1, Len(l))[i] = l[j]
      BY <3>1, SlotsPart
    <3> HIDE DEF slots
    <3> QED BY <3>1, <3>2
  <2>6. rest = Back!Only(b, S) OBVIOUS
  <2> HIDE DEF a, b, S, rest
  <2>7. /\ rest \in SlotLists
        /\ \A i \in DOMAIN rest : rest[i] \in S /\ \E j \in DOMAIN b : rest[i] = b[j]
    BY <2>5, <2>6, SlotsLeft
  <2>8. \A i \in DOMAIN a : Apart(a[i], e)
    <3> TAKE i \in DOMAIN a
    <3>1. PICK j \in DOMAIN l : j < k /\ a[i] = l[j] BY <2>4
    <3>2. j \notin slots BY <1>4, <2>2, <2>3, <3>1
    <3> QED BY <1>p, <3>1, <3>2 DEF Back!SameProgram, Apart
  <2>9. \A i \in DOMAIN rest : Apart(e, rest[i]) BY <1>p, <2>7 DEF S, Apart
  <2>10. \A i \in DOMAIN a, j \in DOMAIN rest : Apart(a[i], rest[j])
    <3> TAKE i \in DOMAIN a, j \in DOMAIN rest
    <3>1. PICK x \in DOMAIN l : x < k /\ a[i] = l[x] BY <2>4
    <3>2. PICK y \in DOMAIN b : rest[j] = b[y] BY <2>7
    <3>3. PICK u \in DOMAIN l : k < u /\ b[y] = l[u] BY <2>5
    <3>4. x < u BY <1>4, <2>3, <3>1, <3>3
    <3> QED BY <3>1, <3>2, <3>3, <3>4 DEF SlotLists
  <2> DEFINE c == a \o <<e>>
  <2>11. /\ c \in SlotLists
         /\ \A i \in DOMAIN c : (\E j \in DOMAIN a : c[i] = a[j]) \/ (\E j \in DOMAIN <<e>> : c[i] = <<e>>[j])
    <3>1. \A i \in DOMAIN a, j \in DOMAIN <<e>> : Apart(a[i], <<e>>[j]) BY <1>3, <2>8
    <3> QED BY <1>3, <2>4, <3>1, SlotsJoin
  <2>12. SubSeq(l, 1, k - 1) \o <<e>> \o rest = c \o rest BY DEF a
  <2> HIDE DEF c
  <2>13. \A i \in DOMAIN c, j \in DOMAIN rest : Apart(c[i], rest[j])
    BY <1>3, <2>9, <2>10, <2>11
  <2>14. c \o rest \in SlotLists BY <2>7, <2>11, <2>13, SlotsJoin
  <2>15. Back!SaveOne(l, w) = SubSeq(l, 1, k - 1) \o <<e>> \o rest BY <1>1, <1>6 DEF k, rest
  <2> QED BY <2>12, <2>14, <2>15
<1> QED BY <1>5, <1>6

\* The lists the states are saved in, one window after the other.
Saves(f, l, o, n) == /\ f \in [0..n -> SlotLists] /\ f[0] = l
                     /\ \A i \in 1..n : f[i] = Back!SaveOne(f[i - 1], o[i])

\* Whatever windows are saved, and in whatever order, one slot of a program is left
\* (save_state).
LEMMA AllSaved ==
  ASSUME BackTypes, NEW l \in SlotLists, NEW o \in Seq(Comers)
  PROVE  Back!SaveAll(l, o) \in SlotLists
<1> DEFINE G == {n \in Nat : \E f : Saves(f, l, o, n)}
<1>1. Len(o) \in Nat OBVIOUS
<1>2. 0 \in G
  <2> DEFINE f == [i \in 0..0 |-> l]
  <2>1. Saves(f, l, o, 0) BY DEF Saves
  <2> QED BY <2>1
<1>3. ASSUME NEW n \in 1..Len(o), n - 1 \in G PROVE n \in G
  <2>1. PICK f : Saves(f, l, o, n - 1) BY <1>3
  <2>2. n \in Nat /\ n - 1 \in 0..(n - 1) /\ n # 0 /\ o[n] \in Comers BY <1>1
  <2> DEFINE m == Back!SaveOne(f[n - 1], o[n])
  <2>3. m \in SlotLists
    <3>1. f[n - 1] \in SlotLists BY <2>1, <2>2 DEF Saves
    <3> QED BY <2>2, <3>1, SlotTaken
  <2>e. m = Back!SaveOne(f[n - 1], o[n]) OBVIOUS
  <2> HIDE DEF m
  <2> DEFINE h == [i \in 0..n |-> IF i = n THEN m ELSE f[i]]
  <2>4. DOMAIN h = 0..n /\ h[0] = l /\ h[n] = m BY <2>1, <2>2 DEF Saves
  <2>5. \A i \in 0..(n - 1) : h[i] = f[i] /\ f[i] \in SlotLists BY <2>1, <2>2 DEF Saves
  <2>6. \A i \in 0..n : i \in 0..(n - 1) \/ i = n BY <2>2
  <2>7. h \in [0..n -> SlotLists] BY <2>3, <2>4, <2>5, <2>6
  <2> HIDE DEF h
  <2>8. ASSUME NEW i \in 1..n PROVE h[i] = Back!SaveOne(h[i - 1], o[i])
    <3>1. i - 1 \in 0..(n - 1) BY <2>2
    <3>2. h[i - 1] = f[i - 1] BY <2>5, <3>1
    <3>3. CASE i = n BY <2>4, <2>e, <3>2, <3>3
    <3>4. CASE i # n
      <4>1. i \in 1..(n - 1) /\ i \in 0..(n - 1) BY <2>2, <3>4
      <4>2. f[i] = Back!SaveOne(f[i - 1], o[i]) BY <2>1, <4>1 DEF Saves
      <4>3. h[i] = f[i] BY <2>5, <4>1
      <4> QED BY <3>2, <4>2, <4>3
    <3> QED BY <3>3, <3>4
  <2>9. Saves(h, l, o, n) BY <2>4, <2>7, <2>8 DEF Saves
  <2> QED BY <2>2, <2>9
<1> HIDE DEF G
<1>4. Len(o) \in G
  <2>1. \A i \in 0..Len(o) : i \in G BY <1>1, <1>2, <1>3, CountUp
  <2>2. Len(o) \in 0..Len(o) BY <1>1
  <2> QED BY <2>1, <2>2
<1>5. PICK f : Saves(f, l, o, Len(o)) BY <1>4 DEF G
<1> DEFINE Eq(k) == k = [i \in 0..Len(o) |-> IF i = 0 THEN l ELSE Back!SaveOne(k[i - 1], o[i])]
           grown == CHOOSE k : Eq(k)
<1>6. Back!SaveAll(l, o) = grown[Len(o)] BY DEF Back!SaveAll
<1>7. Eq(f)
  <2> DEFINE r == [i \in 0..Len(o) |-> IF i = 0 THEN l ELSE Back!SaveOne(f[i - 1], o[i])]
  <2>1. DOMAIN f = 0..Len(o) /\ DOMAIN r = 0..Len(o) BY <1>5 DEF Saves
  <2>2. ASSUME NEW i \in 0..Len(o) PROVE f[i] = r[i]
    <3>1. CASE i = 0 BY <1>5, <3>1 DEF Saves
    <3>2. CASE i # 0
      <4>1. i \in 1..Len(o) BY <1>1, <3>2
      <4> QED BY <1>5, <3>2, <4>1 DEF Saves
    <3> QED BY <3>1, <3>2
  <2> HIDE DEF r
  <2>3. f = [i \in 0..Len(o) |-> f[i]] BY <1>5 DEF Saves
  <2>4. r = [i \in 0..Len(o) |-> r[i]] BY DEF r
  <2> QED BY <2>2, <2>3, <2>4 DEF r
<1>8. Eq(grown)
  <2> HIDE DEF Eq
  <2> QED BY <1>7
<1> HIDE DEF grown
<1>9. grown[0] = l /\ \A i \in 1..Len(o) : grown[i] = Back!SaveOne(grown[i - 1], o[i])
  <2>1. grown = [i \in 0..Len(o) |-> IF i = 0 THEN l ELSE Back!SaveOne(grown[i - 1], o[i])] BY <1>8
  <2>2. 0 \in 0..Len(o) /\ \A i \in 1..Len(o) : i \in 0..Len(o) /\ i # 0 BY <1>1
  <2> HIDE DEF Eq
  <2> QED BY <2>1, <2>2
<1> DEFINE Fine == {i \in 0..Len(o) : grown[i] \in SlotLists}
<1>10. 0 \in Fine BY <1>1, <1>9
<1>11. ASSUME NEW i \in 1..Len(o), i - 1 \in Fine PROVE i \in Fine
  <2>1. o[i] \in Comers /\ i \in 0..Len(o) BY <1>1
  <2>2. grown[i - 1] \in SlotLists BY <1>11
  <2>3. Back!SaveOne(grown[i - 1], o[i]) \in SlotLists BY <2>1, <2>2, SlotTaken
  <2> QED BY <1>9, <2>1, <2>3
<1> HIDE DEF Fine
<1>12. \A i \in 0..Len(o) : i \in Fine BY <1>1, <1>10, <1>11, CountUp
<1>13. Len(o) \in 0..Len(o) BY <1>1
<1>14. grown[Len(o)] \in SlotLists BY <1>12, <1>13 DEF Fine
<1> QED BY <1>6, <1>14

\* Some windows in an order.
LEMMA InOrderOf == ASSUME NEW S \in SUBSET Comers PROVE Back!SetToSeq(S) \in Seq(Comers)
<1> DEFINE n == Cardinality(S)
           o == Back!SetToSeq(S)
<1>1. IsFiniteSet(S) BY RestoreAssumption, FS_Subset
<1>2. n \in Nat /\ ExistsBijection(1..n, S) BY <1>1, FS_CardinalityType
<1>3. Back!Cardinality(S) = n BY DEF Back!Cardinality, Cardinality
<1> DEFINE Lists == {f \in [1..n -> S] : \A x, y \in 1..n : x # y => f[x] # f[y]}
<1>4. o = CHOOSE f \in Lists : TRUE
  <2>1. Back!SetToSeqs(S) = Lists BY <1>3 DEF Back!SetToSeqs
  <2> QED BY <2>1 DEF Back!SetToSeq
<1> HIDE DEF n, o
<1>5. \E f : f \in Lists
  <2>1. PICK f : f \in Bijection(1..n, S) BY <1>2 DEF ExistsBijection
  <2>2. f \in [1..n -> S] /\ \A x, y \in 1..n : f[x] = f[y] => x = y BY <2>1 DEF Bijection, Injection, IsInjective
  <2> QED BY <2>2
<1>6. o \in [1..n -> S] BY <1>4, <1>5
<1>7. o \in [1..n -> Comers] BY <1>6
<1>8. o \in Seq(Comers) BY <1>2, <1>7
<1> QED BY <1>8 DEF o

\* The states of the windows are saved (save_state).
LEMMA BackSave == ASSUME BackInv, Back!SaveState PROVE BackInv'
<1> DEFINE o == Back!SetToSeq({w \in Comers : Back!Kept(w)})
           l == Back!SaveAll(last, o)
           S == {s \in Back!ToSet(l) : s.title # Untitled /\ ~Back!Scrubbed(s)}
<1>1. /\ last' = Back!Only(l, S)
      /\ UNCHANGED <<rQueue, plates, timer, over, awaited, arrived, input, rWin, list, rFocus, userAt>>
  BY DEF Back!SaveState, Back!settling, Back!session
<1>2. BackTypes /\ last \in Seq(Slots) /\ Back!OneSlot(last) BY DEF BackInv, BackTypes, Back!OneSlotEach
<1>3. last \in SlotLists
  <2>1. DOMAIN last = 1..Len(last) /\ Len(last) \in Nat BY <1>2
  <2>2. \A i, j \in DOMAIN last : i < j => i # j BY <2>1
  <2> QED BY <1>2, <2>2 DEF Back!OneSlot, SlotLists, Apart
<1>4. o \in Seq(Comers)
  <2>1. {w \in Comers : Back!Kept(w)} \in SUBSET Comers OBVIOUS
  <2> QED BY <2>1, InOrderOf
<1> HIDE DEF o
<1>5. l \in SlotLists BY <1>2, <1>3, <1>4, AllSaved
<1>s. \A s \in S : s.title # Untitled OBVIOUS
<1> HIDE DEF l, S
<1>6. last' \in SlotLists /\ \A i \in DOMAIN last' : last'[i] \in S
  <2>1. Back!Only(l, S) \in SlotLists /\ \A i \in DOMAIN Back!Only(l, S) : Back!Only(l, S)[i] \in S
    BY <1>5, SlotsLeft
  <2> QED BY <1>1, <2>1
<1>7. last' \in Seq(Slots) /\ Back!OneSlot(last')
  <2> SUFFICES ASSUME NEW m, m = last' PROVE m \in Seq(Slots) /\ Back!OneSlot(m) OBVIOUS
  <2>1. m \in SlotLists /\ \A i \in DOMAIN m : m[i] \in S BY <1>6
  <2>2. m \in Seq(Slots) /\ DOMAIN m = 1..Len(m) /\ Len(m) \in Nat BY <2>1 DEF SlotLists
  <2>3. ASSUME NEW i \in DOMAIN m, NEW j \in DOMAIN m, i # j, m[i].prog # Unknown
        PROVE  m[i].prog # m[j].prog
    <3>1. i < j \/ j < i BY <2>2, <2>3
    <3> QED BY <2>1, <2>3, <3>1 DEF SlotLists, Apart
  <2>4. \A e \in Back!ToSet(m) : e.title # Untitled BY <1>s, <2>1 DEF Back!ToSet
  <2> QED BY <2>2, <2>3, <2>4 DEF Back!OneSlot
<1>8. /\ rQueue' \in Seq(Entries) /\ plates' \in [Back!Titles -> Nat] /\ timer' \in BOOLEAN
      /\ PlatesFit(plates', rQueue')
  BY <1>1, <1>2 DEF BackInv, BackTypes
<1>9. timer' <=> \E u \in Back!Titles : plates'[u] > 0 BY <1>1 DEF BackInv
<1> QED BY <1>1, <1>7, <1>8, <1>9, BackQuiet

\* A step of the part, or of another.
LEMMA BackNext == ASSUME BackInv, [Back!Next]_(Back!restoreVars) PROVE BackInv'
<1>1. ASSUME NEW w \in Comers, Back!NotifyAppId(w) \/ Back!NotifyTitle(w) PROVE BackInv' BY <1>1, BackTold
<1>2. ASSUME NEW w \in Comers, Back!SetParent(w) PROVE BackInv' BY <1>2, BackParent
<1>3. ASSUME NEW w \in Comers, Back!Map(w) PROVE BackInv' BY <1>3, BackMap
<1>4. ASSUME NEW w \in Comers, Back!Close(w) PROVE BackInv' BY <1>4, BackClose
<1>5. ASSUME NEW w \in Comers, Back!Move(w) PROVE BackInv' BY <1>5, BackMove
<1>6. ASSUME Back!Manage \/ Back!SaveState \/ Back!Sweep \/ Back!Press \/ Back!Expire PROVE BackInv'
  BY <1>6, BackManage, BackSave, BackSweep, BackPress, BackExpire
<1>7. CASE UNCHANGED Back!restoreVars
  <2>1. UNCHANGED <<rQueue, last, plates, timer, over, awaited, arrived, input, rWin, list, rFocus, userAt>>
    BY <1>7 DEF Back!restoreVars
  <2> QED BY <2>1, BackStands
<1> QED BY <1>1, <1>2, <1>3, <1>4, <1>5, <1>6, <1>7 DEF Back!Next

\* A list in which nothing is twice is as long as what it holds is large.
LEMMA DistinctLength ==
  ASSUME NEW E, NEW l \in Seq(E), Distinct(l)
  PROVE  Cardinality(Back!ToSet(l)) = Len(l)
<1> DEFINE S == Back!ToSet(l)
<1>1. Len(l) \in Nat /\ DOMAIN l = 1..Len(l) OBVIOUS
<1>2. S = {l[i] : i \in 1..Len(l)} BY <1>1 DEF Back!ToSet
<1> HIDE DEF S
<1>3. l \in Bijection(1..Len(l), S)
  <2>0. l = [i \in 1..Len(l) |-> l[i]] OBVIOUS
  <2>1. \A i \in 1..Len(l) : l[i] \in S BY <1>2
  <2>2. l \in [1..Len(l) -> S] BY <2>0, <2>1
  <2>3. l \in Injection(1..Len(l), S) BY <1>1, <2>2 DEF Distinct, Injection, IsInjective
  <2>4. l \in Surjection(1..Len(l), S) BY <1>1, <1>2, <2>2 DEF Surjection
  <2> QED BY <2>3, <2>4 DEF Bijection
<1>4. ExistsBijection(1..Len(l), S) BY <1>3 DEF ExistsBijection
<1>5. IsFiniteSet(1..Len(l)) BY <1>1, FS_Interval
<1>6. Cardinality(S) = Len(l) BY <1>1, <1>4, <1>5, FS_Bijection, FS_CountingElements
<1> QED BY <1>6 DEF S

\* What the desk's invariant says of what was restored.
LEMMA BackSound == BackInv => Back!TypeOK /\ Back!RestoreIsSound
<1> HAVE BackInv
<1>1. BackTypes /\ StackFits(list, rWin) /\ \A w \in Comers : ComingKept(w) BY DEF BackInv
<1>2. Back!ToSet(list) \subseteq Back!Linked
  <2> SUFFICES ASSUME NEW i \in DOMAIN list PROVE list[i] \in Back!Linked BY DEF Back!ToSet
  <2>1. list[i] \in Comers /\ LinkedIn(list[i], rWin) BY <1>1 DEF StackFits
  <2> QED BY <2>1 DEF LinkedIn, Back!Linked, Back!Is
<1>3. Len(list) = Back!Cardinality(Back!ToSet(list))
  <2>1. Cardinality(Back!ToSet(list)) = Len(list) BY <1>1, DistinctLength DEF StackFits
  <2>2. Back!Cardinality(Back!ToSet(list)) = Cardinality(Back!ToSet(list)) BY DEF Back!Cardinality, Cardinality
  <2> QED BY <2>1, <2>2
<1>4. Back!TypeOK
  <2>1. plates \in [Back!Titles -> Nat] /\ {timer, awaited, arrived, input} \subseteq BOOLEAN BY <1>1 DEF BackTypes
  <2>2. rFocus \in Back!Is("mapped") \cup {None} BY DEF BackInv
  <2> QED BY <1>2, <1>3, <2>1, <2>2 DEF Back!TypeOK
<1>5. Back!PlatesStandForEntries
  <2>1. ASSUME NEW u \in Back!Titles
        PROVE  plates[u] <= Back!Cardinality({i \in DOMAIN rQueue : rQueue[i].title = u})
    <3> DEFINE T == {i \in DOMAIN rQueue : rQueue[i].title = u}
    <3>1. plates[u] <= Cardinality(T) BY DEF BackInv, PlatesFit
    <3> HIDE DEF T
    <3>2. Back!Cardinality(T) = Cardinality(T) BY DEF Back!Cardinality, Cardinality
    <3>3. plates[u] <= Back!Cardinality(T) BY <3>1, <3>2
    <3> QED BY <3>3 DEF T
  <2>2. timer <=> \E u \in Back!Titles : plates[u] > 0 BY DEF BackInv
  <2> QED BY <2>1, <2>2 DEF Back!PlatesStandForEntries
<1>6. Back!StackAsSaved BY <1>1 DEF StackFits, Back!StackAsSaved
<1>7. Back!DialogsTakeNothing /\ Back!RestoredStay
  BY <1>1, RestoreAssumption DEF ComingKept, Back!DialogsTakeNothing, Back!RestoredStay
<1>8. Back!OneSlotEach /\ Back!HeldForTheChosen BY DEF BackInv
<1> QED BY <1>4, <1>5, <1>6, <1>7, <1>8 DEF Back!RestoreIsSound

--------------------
(* The parts together.                                                     *)

\* A step of the whole is a step of each part, or leaves it alone.
LEMMA PartSteps ==
    ASSUME [Next]_vars
    PROVE  /\ [Cam!Next]_(Cam!camVars) /\ [Grid!Next]_(Grid!patchVars) /\ [Geom!Next]_(Geom!vars)
           /\ [Mini!Next]_(Mini!vars) /\ [Surf!Next]_(Surf!vars) /\ [Night!Next]_(Night!nightVars)
           /\ [Sel!Next]_(Sel!selectionVars) /\ [Modes!Next]_(Modes!modeVars)
           /\ [Back!Next]_(Back!restoreVars)
<1>0. /\ (Cam!Next \/ UNCHANGED camVars) /\ (Grid!Next \/ UNCHANGED patchVars) /\ (Geom!Next \/ UNCHANGED geomVars)
      /\ (Mini!Next \/ UNCHANGED minVars) /\ (Surf!Next \/ UNCHANGED surfVars) /\ (Night!Next \/ UNCHANGED nightVars)
      /\ (Sel!Next \/ UNCHANGED selVars) /\ (Modes!Next \/ UNCHANGED modeVars) /\ (Back!Next \/ UNCHANGED backVars)
  BY Zenon DEF Next, vars
<1>1. [Cam!Next]_(Cam!camVars) BY <1>0 DEF camVars, Cam!camVars, Cam!flight, Cam!blur
<1>2. [Grid!Next]_(Grid!patchVars) BY <1>0 DEF patchVars, Grid!patchVars
<1>3. [Geom!Next]_(Geom!vars) BY <1>0 DEF geomVars, Geom!vars, Geom!layout, Geom!xside, Geom!client, Geom!outs, Geom!passes
<1>4. [Mini!Next]_(Mini!vars) BY <1>0 DEF minVars, Mini!vars, Mini!program
<1>5. [Surf!Next]_(Surf!vars) BY <1>0 DEF surfVars, Surf!vars, Surf!xvars, Surf!obj, Surf!hooks, Surf!wm, Surf!seat
<1>6. [Night!Next]_(Night!nightVars) BY <1>0 DEF nightVars, Night!nightVars
<1>7. [Sel!Next]_(Sel!selectionVars) BY <1>0 DEF selVars, Sel!selectionVars
<1>8. [Modes!Next]_(Modes!modeVars) BY <1>0 DEF modeVars, Modes!modeVars
<1>9. [Back!Next]_(Back!restoreVars) BY <1>0 DEF backVars, Back!restoreVars
<1> QED BY <1>1, <1>2, <1>3, <1>4, <1>5, <1>6, <1>7, <1>8, <1>9

\* Each part keeps its invariant, whoever moves.
PartsHold ==
    CamInv /\ GridInv /\ GeomInv /\ MiniInv /\ SurfInv /\ NightInv /\ SelInv /\ ModesInv /\ BackInv
LEMMA PartInvariants == (Init => PartsHold) /\ (PartsHold /\ [Next]_vars => PartsHold')
<1>1. Init => PartsHold
  BY CamInit, GridInit, GeomInit, MiniInit, SurfInit, NightInit, SelInit, ModesInit, BackInit
     DEF Init, PartsHold
<1>2. PartsHold /\ [Next]_vars => PartsHold'
  BY PartSteps, CamNext, GridNext, GeomNext, MiniNext, SurfNext, NightNext, SelNext, ModesNext, BackNext
     DEF PartsHold
<1> QED BY <1>1, <1>2

\* In every instance buffers and blur are the camera's, a grid patch is drawn only at its own
\* anchor and not again and again, an X11 window is as was asked of X, the minimum of a program
\* with a floor is one, nothing freed is named, the colour table is the clock's, a selection is
\* of what is there, a home outlives every mode, and a new window gets back only its own
\* (camera.rs, grid_patches.rs, xwayland_window.rs, night_light.rs, window_manager.rs, session.rs).
THEOREM DeskSound == Spec => []DesktopIsSound
<1>1. PartsHold => DesktopIsSound
  BY CamSound, GridSound, GeomSound, MiniSound, SurfSound, NightSound, SelSound, ModesSound, BackSound
     DEF PartsHold, DesktopIsSound
<1> QED BY <1>1, PartInvariants, PTL DEF Spec

\* A caller that waits for the view to settle is told so when it has, cells are taken
\* from the grid when the patch covers where they were, a client's table stands while it
\* holds the output, a frame out of the queue leaves none to ask for, and what was
\* carried together lands together, by the grid or off it as the mode says
\* (camera.rs, grid_patches.rs, night_light.rs, window_manager.rs).
THEOREM DesktopMoves == Spec => DesktopSteps
<1>1. PartsHold /\ [Next]_vars =>
        [answer = "waits" /\ answer' = "settled" => ~anim /\ cPass = "idle" /\ laid = cam]_(Cam!camVars)
  BY PartSteps, CamSettles DEF PartsHold
<1>2. [Next]_vars =>
        [hold /\ cells /\ ~cells' /\ ~Grid!NoneShows =>
               /\ pending' = None /\ acked' = None
               /\ Grid!Reaches(current'.patch, gAt', gAt' + Grid!Width(z'))]_(Grid!patchVars)
  BY PartSteps, CellsAreCovered
<1>3. PartsHold /\ [Next]_vars =>
        [\A o \in Outputs : (held[o] /\ hw'[o] # hw[o]) => hw'[o] \in {Ramp, 0}]_(Night!nightVars)
  BY PartSteps, RampKept DEF PartsHold
<1>4. PartsHold /\ [Next]_vars =>
        [\A o \in Outputs : (damage[o] /\ ~damage'[o] /\ ~tearing[o] /\ config # None)
                               => ~Night!WantsCommit(config, fresh, o)']_(Night!nightVars)
  BY PartSteps, FramesAreNeeded DEF PartsHold
<1>5. PartsHold /\ [Next]_vars =>
        [Sel!Released /\ UNCHANGED status =>
              Sel!Cardinality({selAt'[w] - groupW[w] : w \in {v \in DOMAIN groupW : Sel!Selectable(v)}}
                          \cup {desk'[i] - groupI[i] : i \in Sel!Known}
                          \cup {selAt'[w] - op.from : w \in {op.win} \ {None}}) <= 1]_(Sel!selectionVars)
  BY PartSteps, GroupLands DEF PartsHold
<1>6. PartsHold /\ [Next]_vars =>
        [Sel!Released /\ UNCHANGED status =>
             \A w \in DOMAIN groupW \cup ({op.win} \ {None}) :
                 Sel!Selectable(w) /\ (w = op.win \/ selAt'[w] # groupW[w])
                 => tiled'[w] = Sel!Aligned(selAt'[w])]_(Sel!selectionVars)
  BY PartSteps, GroupLands DEF PartsHold
<1> QED
  BY <1>1, <1>2, <1>3, <1>4, <1>5, <1>6, PartInvariants, PTL
     DEF Spec, DesktopSteps, Cam!SettledHoldsStill, Grid!CellsGoWhenCovered, Night!RampStands,
         Night!NoRedrawStorm, Sel!LandsTogether, Sel!LandsByGrid

=============================================================================
