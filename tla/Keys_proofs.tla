---------------------------- MODULE Keys_proofs ------------------------------
(***************************************************************************)
(* What holds of keys for any keyboards, virtual ones among them, any      *)
(* groups they form and any seats (Keyboards): no key sticks, a group      *)
(* counts what its keyboards hold, and a seat has a keyboard of its own.   *)
(*                                                                         *)
(* A keyboard's count in its group is a number of keyboards, and a group's *)
(* references are a number of keyboards and seats.  Most of the lemmas say *)
(* how one handler changes such a set; where the code goes through a list  *)
(* (what a keyboard holds, the keyboards of a seat), SetsUp is induction   *)
(* over its subsets.                                                       *)
(***************************************************************************)
EXTENDS Input_proofs

-----------------------------------------------------------------------------
(* States, and the inductive invariant.                                    *)

Devs == Hardware \cup Virtual
SeatNames == {"default", "other"}
Slot == 1..(Cardinality(Devs) + Cardinality(SeatNames))
Takers == {"binding", "portal", "grab", "focus"}
Keyboard == [plugged : BOOLEAN, seat : SeatNames \cup {None}, group : Slot \cup {None},
             held : SUBSET Keycodes, down : SUBSET Keycodes, cfg : Configs]
Group == [refs : Nat, seat : SeatNames, virtual : BOOLEAN, cfg : Configs,
          by : [Keycodes -> Takers \cup {None}], n : [Keycodes -> Nat]]
KeyState == [kbd : [Devs -> Keyboard], grp : [Slot -> Group], order : [SeatNames -> Seq(Slot)],
             active : [SeatNames -> Slot \cup {None}], entered : [SeatNames -> {"window", "menu", None}],
             told : [SeatNames -> SUBSET Keycodes], listed : [SeatNames -> SUBSET Keycodes],
             mods : [SeatNames -> SUBSET Keycodes], shortcuts : SUBSET Keycodes,
             imKeys : SUBSET Keycodes, imMods : SUBSET Keycodes]

\* The keyboards of a group, those of them that hold a key, and the seats it is made up for.
Its(s, y) == {d \in Devs : s.kbd[d].group = y}
Holders(s, y, k) == {d \in Its(s, y) : k \in s.kbd[d].held}
MadeFor(syn, y) == {q \in SeatNames : syn[q] = y}

\* A group is that of its keyboards and of its seat, and is there for them.
Member(s, d) ==
    LET y == s.kbd[d].group IN
    y # None =>
        /\ s.kbd[d].plugged /\ s.grp[y].refs > 0 /\ s.grp[y].seat = s.kbd[d].seat
        /\ s.grp[y].virtual <=> d \in Virtual
        /\ d \in Hardware => s.grp[y].cfg = s.kbd[d].cfg
        /\ d \in Virtual => Its(s, y) = {d}
Listed(s) == \A y \in Slot, q \in SeatNames :
                y \in Elems(s.order[q]) <=> s.grp[y].refs > 0 /\ s.grp[y].seat = q
Referred(s, syn) == \A y \in Slot : s.grp[y].refs = Cardinality(Its(s, y)) + Cardinality(MadeFor(syn, y))
MadeUp(s, syn) ==
    \A q \in SeatNames : syn[q] # None =>
        /\ s.grp[syn[q]].refs > 0 /\ s.grp[syn[q]].seat = q /\ s.grp[syn[q]].virtual
        /\ s.active[q] # None /\ Its(s, syn[q]) = {}
ActiveLives(s) ==
    \A q \in SeatNames : s.active[q] # None => s.grp[s.active[q]].refs > 0 /\ s.grp[s.active[q]].seat = q
Linked(s, syn) ==
    /\ syn \in [SeatNames -> Slot \cup {None}]
    /\ \A d \in Devs : Member(s, d)
    /\ Listed(s) /\ Referred(s, syn) /\ MadeUp(s, syn) /\ ActiveLives(s)

\* A group knows who took a key exactly while it counts it; what a client, an input
\* method or a portal takes for held some group will release.
Taken(s) == \A y \in Slot, k \in Keycodes : s.grp[y].by[k] = None <=> s.grp[y].n[k] = 0
HoldsFor(s, y, k, who) == s.grp[y].refs > 0 /\ s.grp[y].by[k] = who
Released(s, wo) ==
    /\ \A q \in SeatNames : \A k \in s.told[q] \ s.listed[q] :
          \E y \in Slot : HoldsFor(s, y, k, "focus") /\ s.grp[y].seat = q
    /\ \A k \in s.imKeys : \E y \in Slot : HoldsFor(s, y, k, "grab")
    /\ \A k \in s.shortcuts : \E y \in Slot : HoldsFor(s, y, k, "portal")
    /\ \A q \in SeatNames : s.entered[q] = None => s.told[q] = {}
    /\ ~wo.grab => s.imKeys = {}

KeysGood(s, syn, wo) == s \in KeyState /\ Linked(s, syn) /\ Taken(s) /\ Released(s, wo)

\* No key is counted more often than it is held.
Counted(s) == \A y \in Slot, k \in Keycodes : s.grp[y].n[k] <= Cardinality(Holders(s, y, k))

Worlds == [locked : BOOLEAN, grab : BOOLEAN, overview : BOOLEAN, menu : BOOLEAN,
           claim : [Keycodes -> {"none", "binding", "kept", "portal"}]]

\* A keyboard is in a group of a seat that is there; one that is not plugged in is nowhere.
Seated(s, syn, se) ==
    /\ se \in [SeatNames -> {"absent", "live", "leaving"}] /\ se["default"] = "live"
    /\ \A d \in Devs : s.kbd[d].seat # None => se[s.kbd[d].seat] = "live" /\ s.kbd[d].group # None
    /\ \A q \in SeatNames : se[q] = "absent" => syn[q] = None
HeldIsDown(s) ==
    \A d \in Devs : /\ s.kbd[d].held \subseteq s.kbd[d].down
                    /\ ~s.kbd[d].plugged => s.kbd[d].down = {} /\ s.kbd[d].seat = None

\* The inductive invariant.
KeysInv ==
    /\ KeysGood(st, synthetic, world) /\ Counted(st)
    /\ Seated(st, synthetic, seats) /\ HeldIsDown(st)
    /\ kFocused \in [SeatNames -> BOOLEAN] /\ world \in Worlds /\ kConf \in Configs
    /\ changes \in 0..MaxChanges

\* What the names stand for.
LEMMA KeyNames ==
  /\ Keys!Devices = Devs /\ Keys!Seats = SeatNames /\ Keys!Slots = Slot
  /\ Keys!Consumers = Takers
  /\ IsFiniteSet(Devs) /\ Cardinality(Devs) \in Nat /\ IsFiniteSet(SeatNames) /\ Cardinality(SeatNames) = 2
  /\ None \notin Slot /\ None \notin SeatNames /\ None \notin Takers
  /\ Slot \subseteq Nat \ {0}
<1>1. Keys!Devices = Devs /\ Keys!Seats = SeatNames /\ Keys!Consumers = Takers
  BY DEF Keys!Devices, Devs, Keys!Seats, SeatNames, Keys!Consumers, Takers
<1>2. Keys!Slots = Slot
  <2>1. Keys!Cardinality(Devs) = Cardinality(Devs) BY DEF Keys!Cardinality, Cardinality
  <2>2. Keys!Cardinality(SeatNames) = Cardinality(SeatNames) BY DEF Keys!Cardinality, Cardinality
  <2> QED BY <1>1, <2>1, <2>2 DEF Keys!Slots, Slot
<1>3. IsFiniteSet(Devs) BY KeyAssumption, FS_Union DEF Devs
<1>4. Cardinality(Devs) \in Nat BY <1>3, FS_CardinalityType
<1>5. IsFiniteSet(SeatNames) /\ Cardinality(SeatNames) = 2
  <2>1. IsFiniteSet({"default"}) /\ Cardinality({"default"}) = 1 BY FS_Singleton
  <2>2. SeatNames = {"default"} \cup {"other"} /\ "other" \notin {"default"} BY DEF SeatNames
  <2>3. IsFiniteSet(SeatNames) /\ Cardinality(SeatNames) = 1 + 1 BY <2>1, <2>2, FS_AddElement
  <2> QED BY <2>3
<1>6. Slot \subseteq Nat \ {0} BY DEF Slot
<1>7. None \notin Slot BY <1>6, KeyAssumption
<1>8. None \notin SeatNames /\ None \notin Takers BY KeyAssumption DEF SeatNames, Takers
<1> QED BY <1>1, <1>2, <1>3, <1>4, <1>5, <1>6, <1>7, <1>8

\* The fields of a state.
LEMMA KeyFields ==
  ASSUME NEW s \in KeyState
  PROVE  /\ \A d \in Devs : s.kbd[d] \in Keyboard
         /\ \A y \in Slot : s.grp[y] \in Group
         /\ \A q \in SeatNames : /\ s.order[q] \in Seq(Slot) /\ s.active[q] \in Slot \cup {None}
                                 /\ s.told[q] \subseteq Keycodes /\ s.listed[q] \subseteq Keycodes
BY DEF KeyState

\* Counting the keyboards of a group.
LEMMA ItsFinite ==
  ASSUME NEW s, NEW y, NEW k
  PROVE  /\ IsFiniteSet(Its(s, y)) /\ Cardinality(Its(s, y)) \in Nat
         /\ IsFiniteSet(Holders(s, y, k)) /\ Cardinality(Holders(s, y, k)) \in Nat
         /\ Cardinality(Its(s, y)) <= Cardinality(Devs)
         /\ Cardinality(Holders(s, y, k)) <= Cardinality(Its(s, y))
<1>1. Its(s, y) \in SUBSET Devs /\ Holders(s, y, k) \in SUBSET Its(s, y) BY DEF Its, Holders
<1>2. IsFiniteSet(Its(s, y)) /\ Cardinality(Its(s, y)) <= Cardinality(Devs) BY <1>1, KeyNames, FS_Subset
<1>3. IsFiniteSet(Holders(s, y, k)) /\ Cardinality(Holders(s, y, k)) <= Cardinality(Its(s, y))
  BY <1>1, <1>2, FS_Subset
<1> QED BY <1>2, <1>3, FS_CardinalityType

-----------------------------------------------------------------------------
(* A key through its group.                                                *)

\* wlr_seat_set_keyboard changes the seat's keyboard, and what its client knows of modifiers.
SetTo(s, r, q, y) ==
    /\ r \in KeyState /\ r.active = [s.active EXCEPT ![q] = y]
    /\ r.kbd = s.kbd /\ r.grp = s.grp /\ r.order = s.order /\ r.entered = s.entered
    /\ r.told = s.told /\ r.listed = s.listed /\ r.shortcuts = s.shortcuts /\ r.imKeys = s.imKeys

\* What a group holds are keys.
LEMMA HeldType == \A s, y : Keys!Held(s, y) \subseteq Keycodes
BY DEF Keys!Held

\* wlr_seat_set_keyboard is such a change.
LEMMA SetKeyboardIs ==
  ASSUME NEW s \in KeyState, NEW q \in SeatNames, NEW y \in Slot \cup {None}
  PROVE  SetTo(s, Keys!SetKeyboard(s, q, y), q, y)
<1> DEFINE md == IF s.entered[q] = None \/ y = None THEN s.mods[q] ELSE Keys!Held(s, y) \cap Mods
           r == [s EXCEPT !.active[q] = y, !.mods[q] = md]
<1>1. md \subseteq Keycodes BY HeldType DEF KeyState
<1> HIDE DEF md
<1>2. CASE s.active[q] = y
  <2>1. Keys!SetKeyboard(s, q, y) = s BY <1>2 DEF Keys!SetKeyboard
  <2>2. [s.active EXCEPT ![q] = y] = s.active BY <1>2 DEF KeyState
  <2> QED BY <2>1, <2>2 DEF SetTo
<1>3. CASE s.active[q] # y
  <2>1. Keys!SetKeyboard(s, q, y) = r BY <1>3 DEF Keys!SetKeyboard, md
  <2>2. r \in KeyState BY <1>1 DEF KeyState
  <2>3. /\ r.active = [s.active EXCEPT ![q] = y] /\ r.kbd = s.kbd /\ r.grp = s.grp /\ r.order = s.order
        /\ r.entered = s.entered /\ r.told = s.told /\ r.listed = s.listed
        /\ r.shortcuts = s.shortcuts /\ r.imKeys = s.imKeys
    BY DEF KeyState
  <2> QED BY <2>1, <2>2, <2>3 DEF SetTo
<1> QED BY <1>2, <1>3

\* What the handing over of a key changes: the seat's keyboard, and what those that
\* take keys have heard.
Heard(s, r, q, k, by, press, wo) ==
    /\ \A e \in SeatNames : r.told[e] \ r.listed[e] \subseteq
          (s.told[e] \ s.listed[e]) \cup (IF press /\ by = "focus" /\ e = q THEN {k} ELSE {})
    /\ ~press /\ by = "focus" /\ (s.entered[q] = None => s.told[q] = {}) => k \notin r.told[q]
    /\ \A e \in SeatNames : s.entered[e] = None => r.told[e] = s.told[e]
    /\ r.shortcuts \subseteq s.shortcuts \cup (IF press /\ by = "portal" THEN {k} ELSE {})
    /\ ~press /\ by = "portal" => k \notin r.shortcuts
    /\ r.imKeys \subseteq s.imKeys \cup (IF press /\ by = "grab" THEN {k} ELSE {})
    /\ ~press /\ by = "grab" /\ (~wo.grab => s.imKeys = {}) => k \notin r.imKeys
    /\ ~wo.grab => r.imKeys = s.imKeys
Handed(s, r, y) ==
    LET q == s.grp[y].seat IN
    /\ r \in KeyState /\ r.kbd = s.kbd /\ r.grp = s.grp /\ r.order = s.order /\ r.entered = s.entered
    /\ r.active = s.active \/ r.active = [s.active EXCEPT ![q] = y]

\* The handing over of a key, to each of those that take keys.
LEMMA DeliverIs ==
  ASSUME NEW s \in KeyState, NEW y \in Slot, NEW k \in Keycodes, NEW by \in Takers, NEW press \in BOOLEAN
  PROVE  LET r == Keys!Deliver(s, y, k, by, press) IN
         Handed(s, r, y) /\ Heard(s, r, s.grp[y].seat, k, by, press, world)
<1> DEFINE q == s.grp[y].seat
           kept == Keys!SetKeyboard(s, q, y)
           r == Keys!Deliver(s, y, k, by, press)
<1>1. q \in SeatNames BY DEF KeyState, Group
<1> HIDE DEF q
<1>2. SetTo(s, kept, q, y) BY <1>1, SetKeyboardIs
<1>3. Keys!Toggled(s.shortcuts, k, press) \subseteq s.shortcuts \cup (IF press THEN {k} ELSE {})
      /\ (~press => k \notin Keys!Toggled(s.shortcuts, k, press))
  BY DEF Keys!Toggled
<1>4. Keys!Toggled(s.imKeys, k, press) \subseteq s.imKeys \cup (IF press THEN {k} ELSE {})
      /\ (~press => k \notin Keys!Toggled(s.imKeys, k, press))
  BY DEF Keys!Toggled
<1>5. Keys!Toggled(s.told[q], k, press) \subseteq s.told[q] \cup (IF press THEN {k} ELSE {})
      /\ (~press => k \notin Keys!Toggled(s.told[q], k, press))
  BY DEF Keys!Toggled
<1>6. /\ s.shortcuts \subseteq Keycodes /\ s.imKeys \subseteq Keycodes /\ s.told \in [SeatNames -> SUBSET Keycodes]
      /\ s.listed \in [SeatNames -> SUBSET Keycodes]
  BY DEF KeyState
<1> DEFINE sc == Keys!Toggled(s.shortcuts, k, press)
           ik == Keys!Toggled(s.imKeys, k, press)
           tq == Keys!Toggled(s.told[q], k, press)
<1>7. sc \subseteq Keycodes /\ ik \subseteq Keycodes /\ tq \subseteq Keycodes BY <1>1, <1>6 DEF Keys!Toggled
<1> HIDE DEF kept, sc, ik, tq
<1>8. ASSUME r = s, by = "binding" \/ (by = "grab" /\ ~world.grab) \/ (by = "focus" /\ press)
      PROVE  Handed(s, r, y) /\ Heard(s, r, q, k, by, press, world)
  <2>1. Handed(s, s, y) BY DEF Handed
  <2>2. Heard(s, s, q, k, by, press, world) BY <1>8 DEF Heard
  <2> HIDE DEF r
  <2> QED BY <1>8, <2>1, <2>2
<1>9. ASSUME by = "portal" PROVE Handed(s, r, y) /\ Heard(s, r, q, k, by, press, world)
  <2>1. r = [s EXCEPT !.shortcuts = sc] BY <1>9 DEF Keys!Deliver, sc
  <2> HIDE DEF r
  <2>2. r \in KeyState BY <1>7, <2>1 DEF KeyState
  <2>3. /\ r.kbd = s.kbd /\ r.grp = s.grp /\ r.order = s.order /\ r.entered = s.entered /\ r.active = s.active
        /\ r.told = s.told /\ r.listed = s.listed /\ r.shortcuts = sc /\ r.imKeys = s.imKeys
    BY <2>1 DEF KeyState
  <2>4. Handed(s, r, y) BY <2>2, <2>3 DEF Handed
  <2>5. Heard(s, r, q, k, by, press, world) BY <1>3, <1>9, <2>3 DEF Heard, sc
  <2> QED BY <2>4, <2>5
<1>10. ASSUME by = "grab", world.grab PROVE Handed(s, r, y) /\ Heard(s, r, q, k, by, press, world)
  <2>1. r = [s EXCEPT !.imKeys = ik] BY <1>10 DEF Keys!Deliver, ik
  <2> HIDE DEF r
  <2>2. r \in KeyState BY <1>7, <2>1 DEF KeyState
  <2>3. /\ r.kbd = s.kbd /\ r.grp = s.grp /\ r.order = s.order /\ r.entered = s.entered /\ r.active = s.active
        /\ r.told = s.told /\ r.listed = s.listed /\ r.shortcuts = s.shortcuts /\ r.imKeys = ik
    BY <2>1 DEF KeyState
  <2>4. Handed(s, r, y) BY <2>2, <2>3 DEF Handed
  <2>5. Heard(s, r, q, k, by, press, world) BY <1>4, <1>10, <2>3 DEF Heard, ik
  <2> QED BY <2>4, <2>5
<1>11. ASSUME by = "focus", ~(press /\ world.overview), s.entered[q] = None
       PROVE  Handed(s, r, y) /\ Heard(s, r, q, k, by, press, world)
  <2>1. r = kept BY <1>11 DEF Keys!Deliver, q, kept
  <2> HIDE DEF r
  <2>2. Handed(s, r, y) BY <1>2, <2>1 DEF SetTo, Handed, q
  <2>3. Heard(s, r, q, k, by, press, world) BY <1>2, <1>11, <2>1 DEF SetTo, Heard
  <2> QED BY <2>2, <2>3
<1>12. ASSUME by = "focus", ~(press /\ world.overview), s.entered[q] # None
       PROVE  Handed(s, r, y) /\ Heard(s, r, q, k, by, press, world)
  <2>1. r = [kept EXCEPT !.told[q] = Keys!Toggled(@, k, press), !.listed[q] = @ \ {k}]
    BY <1>12 DEF Keys!Deliver, q, kept
  <2>0. kept.told[q] = s.told[q] /\ kept \in KeyState BY <1>2 DEF SetTo
  <2>2. r = [kept EXCEPT !.told[q] = tq, !.listed[q] = kept.listed[q] \ {k}]
    BY <2>0, <2>1 DEF tq
  <2> HIDE DEF r
  <2>3. r \in KeyState BY <1>1, <1>7, <2>0, <2>2 DEF KeyState
  <2>4. /\ r.kbd = kept.kbd /\ r.grp = kept.grp /\ r.order = kept.order /\ r.entered = kept.entered
        /\ r.active = kept.active /\ r.shortcuts = kept.shortcuts /\ r.imKeys = kept.imKeys
        /\ r.told = [kept.told EXCEPT ![q] = tq] /\ r.listed = [kept.listed EXCEPT ![q] = kept.listed[q] \ {k}]
    BY <2>0, <2>2 DEF KeyState
  <2>5. Handed(s, r, y) BY <1>2, <2>3, <2>4 DEF SetTo, Handed, q
  <2>6. \A e \in SeatNames : e # q => r.told[e] = s.told[e] /\ r.listed[e] = s.listed[e]
    BY <1>2, <1>6, <2>4 DEF SetTo
  <2>7. r.told[q] = tq /\ r.listed[q] = s.listed[q] \ {k} /\ r.shortcuts = s.shortcuts /\ r.imKeys = s.imKeys
    BY <1>1, <1>2, <1>6, <2>4 DEF SetTo
  <2>8. r.told[q] \ r.listed[q] \subseteq (s.told[q] \ s.listed[q]) \cup (IF press THEN {k} ELSE {})
    BY <1>5, <2>7 DEF tq
  <2>9. ~press => k \notin r.told[q] BY <1>5, <2>7 DEF tq
  <2>10. Heard(s, r, q, k, by, press, world) BY <1>12, <2>6, <2>7, <2>8, <2>9 DEF Heard
  <2> QED BY <2>5, <2>10
<1>13. by = "binding" => r = s BY DEF Keys!Deliver
<1>14. by = "grab" /\ ~world.grab => r = s BY DEF Keys!Deliver
<1>15. by = "focus" /\ press /\ world.overview => r = s BY DEF Keys!Deliver
<1> HIDE DEF r
<1>16. by \in {"binding", "portal", "grab", "focus"} BY DEF Takers
<1>17. Handed(s, r, y) /\ Heard(s, r, q, k, by, press, world)
  <2>1. CASE by = "binding" BY <1>8, <1>13, <2>1
  <2>2. CASE by = "grab" BY <1>8, <1>10, <1>14, <2>2
  <2>3. CASE by = "focus" BY <1>8, <1>11, <1>12, <1>15, <2>3
  <2> QED BY <1>9, <1>16, <2>1, <2>2, <2>3
<1> QED BY <1>17 DEF q, r

\* handle_group_modifiers changes the seat's keyboard, and nothing else that keys depend on.
LEMMA ModifiersIs ==
  ASSUME NEW s \in KeyState, NEW y \in Slot
  PROVE  LET r == Keys!Modifiers(s, y) IN
         /\ Handed(s, r, y) /\ r.told = s.told /\ r.listed = s.listed
         /\ r.shortcuts = s.shortcuts /\ r.imKeys = s.imKeys
<1> DEFINE q == s.grp[y].seat
           hm == Keys!Held(s, y) \cap Mods
           kept == Keys!SetKeyboard(s, q, y)
           r == Keys!Modifiers(s, y)
<1>1. q \in SeatNames BY DEF KeyState, Group
<1>2. hm \subseteq Keycodes BY HeldType
<1> HIDE DEF q, hm
<1>3. SetTo(s, kept, q, y) BY <1>1, SetKeyboardIs
<1> HIDE DEF kept
<1>4. r = [s EXCEPT !.imMods = hm] \/ r = kept \/ r = [kept EXCEPT !.mods[q] = hm]
  BY DEF Keys!Modifiers, q, hm, kept
<1> HIDE DEF r
<1>5. CASE r = [s EXCEPT !.imMods = hm]
  <2>1. r \in KeyState BY <1>2, <1>5 DEF KeyState
  <2>2. /\ r.kbd = s.kbd /\ r.grp = s.grp /\ r.order = s.order /\ r.entered = s.entered /\ r.active = s.active
        /\ r.told = s.told /\ r.listed = s.listed /\ r.shortcuts = s.shortcuts /\ r.imKeys = s.imKeys
    BY <1>5 DEF KeyState
  <2> QED BY <2>1, <2>2 DEF Handed, r
<1>6. CASE r = kept BY <1>3, <1>6 DEF SetTo, Handed, q, r
<1>7. CASE r = [kept EXCEPT !.mods[q] = hm]
  <2>0. kept \in KeyState BY <1>3 DEF SetTo
  <2>1. r \in KeyState BY <1>1, <1>2, <1>7, <2>0 DEF KeyState
  <2>2. /\ r.kbd = kept.kbd /\ r.grp = kept.grp /\ r.order = kept.order /\ r.entered = kept.entered
        /\ r.active = kept.active /\ r.told = kept.told /\ r.listed = kept.listed
        /\ r.shortcuts = kept.shortcuts /\ r.imKeys = kept.imKeys
    BY <1>7, <2>0 DEF KeyState
  <2> QED BY <1>3, <2>1, <2>2 DEF SetTo, Handed, q, r
<1> QED BY <1>4, <1>5, <1>6, <1>7

\* The same keyboards in the same groups, which are what they were.
SameKbd(s, r) == \A d \in Devs :
    /\ r.kbd[d].group = s.kbd[d].group
    /\ s.kbd[d].group # None => /\ r.kbd[d].plugged = s.kbd[d].plugged /\ r.kbd[d].seat = s.kbd[d].seat
                                /\ r.kbd[d].cfg = s.kbd[d].cfg
SameGrp(s, r) == \A y \in Slot : /\ r.grp[y].refs = s.grp[y].refs /\ r.grp[y].seat = s.grp[y].seat
                                 /\ r.grp[y].virtual = s.grp[y].virtual /\ r.grp[y].cfg = s.grp[y].cfg

\* A seat's keyboard may become another of its groups.
LEMMA LinkedStays ==
  ASSUME NEW s \in KeyState, NEW r \in KeyState, NEW syn, Linked(s, syn),
         SameKbd(s, r), SameGrp(s, r), r.order = s.order,
         \A e \in SeatNames : \/ r.active[e] = s.active[e]
                              \/ r.active[e] \in Slot /\ s.grp[r.active[e]].refs > 0 /\ s.grp[r.active[e]].seat = e
  PROVE  Linked(r, syn) /\ \A z : Its(r, z) = Its(s, z)
<1>0. None \notin Slot BY KeyNames
<1>1. \A z : Its(r, z) = Its(s, z) BY DEF SameKbd, Its
<1>2. \A d \in Devs : Member(r, d)
  <2> SUFFICES ASSUME NEW d \in Devs, s.kbd[d].group # None PROVE Member(r, d)
    BY DEF Member, SameKbd
  <2>1. Member(s, d) BY DEF Linked
  <2>2. s.kbd[d].group \in Slot BY KeyFields DEF Keyboard
  <2>3. /\ r.kbd[d].group = s.kbd[d].group /\ r.kbd[d].plugged = s.kbd[d].plugged
        /\ r.kbd[d].seat = s.kbd[d].seat /\ r.kbd[d].cfg = s.kbd[d].cfg
    BY DEF SameKbd
  <2>4. \A y \in Slot : /\ r.grp[y].refs = s.grp[y].refs /\ r.grp[y].seat = s.grp[y].seat
                        /\ r.grp[y].virtual = s.grp[y].virtual /\ r.grp[y].cfg = s.grp[y].cfg
    BY DEF SameGrp
  <2> QED BY <1>1, <2>1, <2>2, <2>3, <2>4 DEF Member
<1>3. Listed(r) BY DEF Linked, Listed, SameGrp
<1>4. Referred(r, syn) BY <1>1 DEF Linked, Referred, SameGrp
<1>6. ActiveLives(r)
  <2> SUFFICES ASSUME NEW e \in SeatNames, r.active[e] # None
               PROVE  r.grp[r.active[e]].refs > 0 /\ r.grp[r.active[e]].seat = e
    BY DEF ActiveLives
  <2>0. r.active[e] \in Slot BY KeyFields
  <2>1. CASE r.active[e] = s.active[e]
    <3>2. s.grp[s.active[e]].refs > 0 /\ s.grp[s.active[e]].seat = e BY <2>1 DEF Linked, ActiveLives
    <3> QED BY <2>0, <2>1, <3>2 DEF SameGrp
  <2>2. CASE s.grp[r.active[e]].refs > 0 /\ s.grp[r.active[e]].seat = e BY <2>0, <2>2 DEF SameGrp
  <2> QED BY <2>1, <2>2
<1>7. MadeUp(r, syn)
  <2> SUFFICES ASSUME NEW e \in SeatNames, syn[e] # None
               PROVE  /\ r.grp[syn[e]].refs > 0 /\ r.grp[syn[e]].seat = e /\ r.grp[syn[e]].virtual
                      /\ r.active[e] # None /\ Its(r, syn[e]) = {}
    BY DEF MadeUp
  <2>1. syn[e] \in Slot BY DEF Linked
  <2>2. /\ s.grp[syn[e]].refs > 0 /\ s.grp[syn[e]].seat = e /\ s.grp[syn[e]].virtual
        /\ s.active[e] # None /\ Its(s, syn[e]) = {}
    BY DEF Linked, MadeUp
  <2>3. r.active[e] # None BY <1>0, <2>2
  <2> QED BY <1>1, <2>1, <2>2, <2>3 DEF SameGrp
<1>8. syn \in [SeatNames -> Slot \cup {None}] BY DEF Linked
<1> QED BY <1>1, <1>2, <1>3, <1>4, <1>6, <1>7, <1>8 DEF Linked

\* A key's count and who took it.
Noting(s, r, y, k, b, c) ==
    r.grp = [s.grp EXCEPT ![y] = [s.grp[y] EXCEPT !.by = [s.grp[y].by EXCEPT ![k] = b],
                                                  !.n = [s.grp[y].n EXCEPT ![k] = c]]]

\* Such a change is of one count in one group.
LEMMA NotingIs ==
  ASSUME NEW s \in KeyState, NEW r, NEW y \in Slot, NEW k \in Keycodes,
         NEW b \in Takers \cup {None}, NEW c \in Nat, Noting(s, r, y, k, b, c)
  PROVE  /\ r.grp \in [Slot -> Group] /\ SameGrp(s, r)
         /\ r.grp[y].by[k] = b /\ r.grp[y].n[k] = c
         /\ \A z \in Slot, j \in Keycodes : z # y \/ j # k =>
               r.grp[z].by[j] = s.grp[z].by[j] /\ r.grp[z].n[j] = s.grp[z].n[j]
<1> DEFINE x == s.grp[y]
           x2 == [x EXCEPT !.by = [x.by EXCEPT ![k] = b], !.n = [x.n EXCEPT ![k] = c]]
<1>1. x \in Group BY DEF KeyState
<1>2. s.grp \in [Slot -> Group] BY DEF KeyState
<1> HIDE DEF x
<1>3. /\ x2 \in Group /\ x2.refs = x.refs /\ x2.seat = x.seat /\ x2.virtual = x.virtual /\ x2.cfg = x.cfg
      /\ x2.by = [x.by EXCEPT ![k] = b] /\ x2.n = [x.n EXCEPT ![k] = c]
  BY <1>1 DEF Group
<1>4. /\ x2.by[k] = b /\ x2.n[k] = c
      /\ \A j \in Keycodes : j # k => x2.by[j] = x.by[j] /\ x2.n[j] = x.n[j]
  BY <1>1, <1>3 DEF Group
<1>5. r.grp = [s.grp EXCEPT ![y] = x2] BY DEF Noting, x
<1> HIDE DEF x2
<1>6. r.grp[y] = x2 /\ \A z \in Slot : z # y => r.grp[z] = s.grp[z] BY <1>2, <1>5
<1>7. r.grp \in [Slot -> Group] BY <1>2, <1>3, <1>5
<1>8. SameGrp(s, r)
  <2> SUFFICES ASSUME NEW z \in Slot
               PROVE  /\ r.grp[z].refs = s.grp[z].refs /\ r.grp[z].seat = s.grp[z].seat
                      /\ r.grp[z].virtual = s.grp[z].virtual /\ r.grp[z].cfg = s.grp[z].cfg
    BY DEF SameGrp
  <2>1. CASE z = y BY <1>3, <1>6, <2>1 DEF x
  <2>2. CASE z # y BY <1>6, <2>2
  <2> QED BY <2>1, <2>2
<1>9. ASSUME NEW z \in Slot, NEW j \in Keycodes, z # y \/ j # k
      PROVE  r.grp[z].by[j] = s.grp[z].by[j] /\ r.grp[z].n[j] = s.grp[z].n[j]
  <2>1. CASE z = y BY <1>4, <1>6, <1>9, <2>1 DEF x
  <2>2. CASE z # y BY <1>6, <2>2
  <2> QED BY <2>1, <2>2
<1> QED BY <1>4, <1>6, <1>7, <1>8, <1>9

\* What that leaves of the groups.
NotedIn(s, r, y, k, b, c) ==
    /\ r.grp \in [Slot -> Group] /\ SameGrp(s, r)
    /\ r.grp[y].by[k] = b /\ r.grp[y].n[k] = c
    /\ \A z \in Slot, j \in Keycodes : z # y \/ j # k =>
          r.grp[z].by[j] = s.grp[z].by[j] /\ r.grp[z].n[j] = s.grp[z].n[j]

\* The same, by its name.
LEMMA NotingLeaves ==
  ASSUME NEW s, NEW r, NEW y, NEW k, NEW b, NEW c, s \in KeyState, y \in Slot, k \in Keycodes,
         b \in Takers \cup {None}, c \in Nat, Noting(s, r, y, k, b, c)
  PROVE  NotedIn(s, r, y, k, b, c)
BY NotingIs DEF NotedIn

\* A change of who took a key and of its count, taken apart.
NotedAs(s, y, k, b, c) == [s EXCEPT !.grp[y].by[k] = b, !.grp[y].n[k] = c]

\* A change taken apart is such a change, and of nothing else.
LEMMA NotedIs ==
  ASSUME NEW s \in KeyState, NEW y \in Slot, NEW k \in Keycodes, NEW b \in Takers \cup {None}, NEW c \in Nat
  PROVE  LET w == NotedAs(s, y, k, b, c) IN
         /\ Noting(s, w, y, k, b, c) /\ w \in KeyState /\ w.kbd = s.kbd /\ w.order = s.order
         /\ w.entered = s.entered /\ w.active = s.active /\ w.told = s.told /\ w.listed = s.listed
         /\ w.shortcuts = s.shortcuts /\ w.imKeys = s.imKeys
<1>1. s.grp \in [Slot -> Group] BY DEF KeyState
<1>2. s.grp[y] \in Group BY <1>1
<1> DEFINE x1 == [s.grp[y] EXCEPT !.by = [s.grp[y].by EXCEPT ![k] = b]]
           x2 == [x1 EXCEPT !.n = [x1.n EXCEPT ![k] = c]]
           g1 == [s.grp EXCEPT ![y] = x1]
           sa == [s EXCEPT !.grp = g1]
           w == NotedAs(s, y, k, b, c)
<1>3. [s EXCEPT !.grp[y].by[k] = b] = sa OBVIOUS
<1>4. w = [sa EXCEPT !.grp[y].n[k] = c] BY <1>3 DEF NotedAs
<1>5. [sa EXCEPT !.grp[y].n[k] = c]
        = [sa EXCEPT !.grp = [sa.grp EXCEPT ![y] = [sa.grp[y] EXCEPT !.n = [sa.grp[y].n EXCEPT ![k] = c]]]]
  OBVIOUS
<1>6. x2 = [s.grp[y] EXCEPT !.by = [s.grp[y].by EXCEPT ![k] = b], !.n = [s.grp[y].n EXCEPT ![k] = c]]
  BY <1>2 DEF Group
<1> HIDE DEF x2, x1
<1>7. g1[y] = x1 BY <1>1
<1>8. [g1 EXCEPT ![y] = x2] = [s.grp EXCEPT ![y] = x2] BY <1>1
<1> HIDE DEF g1
<1>9. sa.grp = g1 BY DEF KeyState
<1>10. \A z : [sa EXCEPT !.grp = z] = [s EXCEPT !.grp = z] BY DEF KeyState
<1> HIDE DEF sa, w
<1>11. [sa.grp EXCEPT ![y] = [sa.grp[y] EXCEPT !.n = [sa.grp[y].n EXCEPT ![k] = c]]] = [s.grp EXCEPT ![y] = x2]
  BY <1>7, <1>8, <1>9 DEF x2
<1> DEFINE gr == [s.grp EXCEPT ![y] = x2]
<1>12. w = [sa EXCEPT !.grp = gr] BY <1>4, <1>5, <1>11
<1>14. gr = [s.grp EXCEPT ![y] = [s.grp[y] EXCEPT !.by = [s.grp[y].by EXCEPT ![k] = b],
                                                  !.n = [s.grp[y].n EXCEPT ![k] = c]]]
  BY <1>6
<1> HIDE DEF gr
<1>13. w = [s EXCEPT !.grp = gr] BY <1>10, <1>12
<1>15. /\ w.grp = gr /\ w.kbd = s.kbd /\ w.order = s.order
       /\ w.entered = s.entered /\ w.active = s.active /\ w.told = s.told /\ w.listed = s.listed
       /\ w.shortcuts = s.shortcuts /\ w.imKeys = s.imKeys
  BY <1>13 DEF KeyState
<1>16. Noting(s, w, y, k, b, c) BY <1>14, <1>15 DEF Noting
<1>17. w.grp \in [Slot -> Group] BY <1>16, NotingIs
<1>18. w \in KeyState BY <1>13, <1>15, <1>17 DEF KeyState
<1> QED BY <1>15, <1>16, <1>18 DEF w

\* Who takes a key is somebody.
LEMMA ConsumerIs ==
  ASSUME NEW s, NEW y, NEW k
  PROVE  Keys!Consumer(s, y, k) \in Takers /\ (Keys!Consumer(s, y, k) = "grab" => world.grab)
<1> DEFINE a == world.claim[k] = "kept" \/ (world.claim[k] = "binding" /\ ~world.locked)
           b == world.claim[k] = "portal" /\ ~world.locked
           c == world.claim[k] = "none" /\ ~world.locked /\ world.grab /\ ~s.grp[y].virtual
<1>1. Keys!Consumer(s, y, k) = IF a THEN "binding" ELSE IF b THEN "portal" ELSE IF c THEN "grab" ELSE "focus"
  BY DEF Keys!Consumer
<1>2. c => world.grab OBVIOUS
<1> HIDE DEF a, b, c
<1> QED BY <1>1, <1>2 DEF Takers

\* What a key changes in all.
KeyStep(s, r, y, k, b, c, by, press) ==
    /\ r \in KeyState /\ r.kbd = s.kbd /\ r.order = s.order /\ r.entered = s.entered
    /\ r.active = s.active \/ r.active = [s.active EXCEPT ![s.grp[y].seat] = y]
    /\ Noting(s, r, y, k, b, c)
    /\ Heard(s, r, s.grp[y].seat, k, by, press, world)

\* handle_group_key.
LEMMA GroupKeyIs ==
  ASSUME NEW s \in KeyState, NEW y \in Slot, NEW k \in Keycodes, NEW press \in BOOLEAN,
         press \/ s.grp[y].by[k] # None
  PROVE  LET by == IF press THEN Keys!Consumer(s, y, k) ELSE s.grp[y].by[k] IN
         /\ by \in Takers
         /\ KeyStep(s, Keys!GroupKey(s, y, k, press), y, k, IF press THEN by ELSE None,
                    IF press THEN 1 ELSE 0, by, press)
<1> DEFINE by == IF press THEN Keys!Consumer(s, y, k) ELSE s.grp[y].by[k]
           b == IF press THEN by ELSE None
           c == IF press THEN 1 ELSE 0
           noted == NotedAs(s, y, k, b, c)
           handed == Keys!Deliver(noted, y, k, by, press)
           r == Keys!GroupKey(s, y, k, press)
           q == s.grp[y].seat
<1>1. by \in Takers
  <2>1. s.grp[y].by[k] \in Takers \cup {None} BY DEF KeyState, Group
  <2> QED BY <2>1, ConsumerIs
<1>2. b \in Takers \cup {None} /\ c \in Nat BY <1>1
<1>3. r = IF k \in Mods THEN Keys!Modifiers(handed, y) ELSE handed BY DEF Keys!GroupKey, NotedAs
<1> HIDE DEF by, b, c
<1>4. /\ Noting(s, noted, y, k, b, c)
      /\ noted \in KeyState /\ noted.kbd = s.kbd /\ noted.order = s.order /\ noted.entered = s.entered
      /\ noted.active = s.active /\ noted.told = s.told /\ noted.listed = s.listed
      /\ noted.shortcuts = s.shortcuts /\ noted.imKeys = s.imKeys
  BY <1>2, NotedIs
<1> HIDE DEF noted
<1>5. SameGrp(s, noted) BY <1>2, <1>4, NotingIs
<1>7. noted.grp[y].seat = q BY <1>5 DEF SameGrp
<1>8. Handed(noted, handed, y) /\ Heard(noted, handed, q, k, by, press, world)
  BY <1>1, <1>4, <1>7, DeliverIs
<1> HIDE DEF handed, q
<1>9. handed \in KeyState /\ handed.grp = noted.grp BY <1>8 DEF Handed
<1>10. KeyStep(s, handed, y, k, b, c, by, press)
  BY <1>4, <1>7, <1>8, <1>9 DEF KeyStep, Handed, Heard, Noting, q
<1>11. CASE k \notin Mods BY <1>1, <1>3, <1>10, <1>11 DEF by, b, c
<1>12. CASE k \in Mods
  <2> DEFINE fin == Keys!Modifiers(handed, y)
  <2>1. /\ Handed(handed, fin, y) /\ fin.told = handed.told /\ fin.listed = handed.listed
        /\ fin.shortcuts = handed.shortcuts /\ fin.imKeys = handed.imKeys
    BY <1>9, ModifiersIs
  <2>2. r = fin BY <1>3, <1>12
  <2> HIDE DEF fin, r
  <2>3. handed.grp[y].seat = q BY <1>7, <1>9
  <2>4. /\ fin \in KeyState /\ fin.kbd = s.kbd /\ fin.order = s.order /\ fin.entered = s.entered
        /\ Noting(s, fin, y, k, b, c)
    BY <1>10, <2>1 DEF KeyStep, Handed, Noting
  <2>5. fin.active = s.active \/ fin.active = [s.active EXCEPT ![q] = y]
    <3>1. handed.active = s.active \/ handed.active = [s.active EXCEPT ![q] = y] BY <1>10 DEF KeyStep, q
    <3>2. fin.active = handed.active \/ fin.active = [handed.active EXCEPT ![q] = y] BY <2>1, <2>3 DEF Handed
    <3>3. [[s.active EXCEPT ![q] = y] EXCEPT ![q] = y] = [s.active EXCEPT ![q] = y] OBVIOUS
    <3> QED BY <3>1, <3>2, <3>3
  <2>6. Heard(s, fin, q, k, by, press, world) BY <1>10, <2>1 DEF KeyStep, Heard, q
  <2>7. KeyStep(s, fin, y, k, b, c, by, press) BY <2>4, <2>5, <2>6 DEF KeyStep, q
  <2> QED BY <1>1, <2>2, <2>7 DEF by, b, c, r
<1> QED BY <1>11, <1>12

\* A key's way through its group keeps what is known of keys.
LEMMA KeyStepKeeps ==
  ASSUME NEW s, NEW r, NEW syn, KeysGood(s, syn, world),
         NEW y \in Slot, s.grp[y].refs > 0, NEW k \in Keycodes, NEW b \in Takers \cup {None}, NEW c \in Nat,
         NEW by \in Takers, NEW press \in BOOLEAN,
         KeyStep(s, r, y, k, b, c, by, press), b = None <=> c = 0,
         \/ b = by /\ s.grp[y].by[k] \in {b, None}
         \/ ~press /\ s.grp[y].by[k] = by
  PROVE  KeysGood(r, syn, world)
<1> DEFINE q == s.grp[y].seat
<1>1. s \in KeyState /\ Linked(s, syn) /\ Taken(s) /\ Released(s, world) BY DEF KeysGood
<1>2. /\ r \in KeyState /\ r.kbd = s.kbd /\ r.order = s.order /\ r.entered = s.entered
      /\ r.active = s.active \/ r.active = [s.active EXCEPT ![q] = y]
      /\ Noting(s, r, y, k, b, c) /\ Heard(s, r, q, k, by, press, world)
  BY DEF KeyStep
<1>3. /\ SameGrp(s, r) /\ r.grp[y].by[k] = b /\ r.grp[y].n[k] = c
      /\ \A z \in Slot, j \in Keycodes : z # y \/ j # k =>
            r.grp[z].by[j] = s.grp[z].by[j] /\ r.grp[z].n[j] = s.grp[z].n[j]
  BY <1>1, <1>2, NotingIs
<1>4. Linked(r, syn)
  <2>1. SameKbd(s, r) BY <1>2 DEF SameKbd
  <2>2. s.active \in [SeatNames -> Slot \cup {None}] BY <1>1 DEF KeyState
  <2>3. ASSUME NEW e \in SeatNames
        PROVE  \/ r.active[e] = s.active[e]
               \/ r.active[e] \in Slot /\ s.grp[r.active[e]].refs > 0 /\ s.grp[r.active[e]].seat = e
    <3>1. CASE r.active = s.active BY <3>1
    <3>2. CASE r.active = [s.active EXCEPT ![q] = y] /\ e # q BY <2>2, <3>2
    <3>3. CASE r.active = [s.active EXCEPT ![q] = y] /\ e = q
      <4>1. r.active[e] = y BY <2>2, <3>3
      <4> QED BY <3>3, <4>1
    <3> QED BY <1>2, <3>1, <3>2, <3>3
  <2> QED BY <1>1, <1>2, <1>3, <2>1, <2>3, LinkedStays
<1>5. Taken(r)
  <2> SUFFICES ASSUME NEW z \in Slot, NEW j \in Keycodes PROVE r.grp[z].by[j] = None <=> r.grp[z].n[j] = 0
    BY DEF Taken
  <2>1. CASE z = y /\ j = k BY <1>3, <2>1
  <2>2. CASE z # y \/ j # k BY <1>1, <1>3, <2>2 DEF Taken
  <2> QED BY <2>1, <2>2
<1>6. ASSUME NEW z \in Slot, NEW j \in Keycodes, NEW who \in Takers, HoldsFor(s, z, j, who),
             ~(z = y /\ j = k /\ ~press /\ by = who)
      PROVE  HoldsFor(r, z, j, who)
  <2>1. CASE z = y /\ j = k
    <3>1. s.grp[y].by[k] = who /\ who # None BY <1>6, <2>1, KeyNames DEF HoldsFor
    <3>2. b = who BY <1>6, <2>1, <3>1
    <3> QED BY <1>3, <1>6, <2>1, <3>2 DEF HoldsFor, SameGrp
  <2>2. CASE z # y \/ j # k BY <1>3, <1>6, <2>2 DEF HoldsFor, SameGrp
  <2> QED BY <2>1, <2>2
<1>7. press => HoldsFor(r, y, k, by) BY <1>3 DEF HoldsFor, SameGrp
<1>8. {"focus", "grab", "portal"} \subseteq Takers BY DEF Takers
<1>9. Released(r, world)
  <2>1. ASSUME NEW e \in SeatNames, NEW j \in r.told[e] \ r.listed[e]
        PROVE  \E z \in Slot : HoldsFor(r, z, j, "focus") /\ r.grp[z].seat = e
    <3>0. j \in Keycodes BY <1>2, KeyFields
    <3>1. j \in s.told[e] \ s.listed[e] \/ (press /\ by = "focus" /\ e = q /\ j = k)
      BY <1>2 DEF Heard
    <3>2. CASE j \in s.told[e] \ s.listed[e]
      <4>1. PICK z \in Slot : HoldsFor(s, z, j, "focus") /\ s.grp[z].seat = e BY <1>1, <3>2 DEF Released
      <4>2. ~(z = y /\ j = k /\ ~press /\ by = "focus")
        <5> SUFFICES ASSUME z = y, j = k, ~press, by = "focus" PROVE FALSE OBVIOUS
        <5>1. e = q BY <4>1
        <5>2. s.entered[q] = None => s.told[q] = {} BY <1>1, <5>1 DEF Released
        <5> QED BY <1>2, <5>1, <5>2 DEF Heard
      <4>3. HoldsFor(r, z, j, "focus") BY <1>6, <1>8, <3>0, <4>1, <4>2
      <4> QED BY <1>3, <4>1, <4>3 DEF SameGrp
    <3>3. CASE press /\ by = "focus" /\ e = q /\ j = k BY <1>3, <1>7, <3>3 DEF SameGrp
    <3> QED BY <3>1, <3>2, <3>3
  <2>2. ASSUME NEW j \in r.imKeys PROVE \E z \in Slot : HoldsFor(r, z, j, "grab")
    <3>0. j \in Keycodes BY <1>2 DEF KeyState
    <3>1. j \in s.imKeys \/ (press /\ by = "grab" /\ j = k) BY <1>2 DEF Heard
    <3>2. CASE j \in s.imKeys
      <4>1. PICK z \in Slot : HoldsFor(s, z, j, "grab") BY <1>1, <3>2 DEF Released
      <4>2. ~(z = y /\ j = k /\ ~press /\ by = "grab") BY <1>1, <1>2 DEF Heard, Released
      <4> QED BY <1>6, <1>8, <3>0, <4>1, <4>2
    <3>3. CASE press /\ by = "grab" /\ j = k BY <1>7, <3>3
    <3> QED BY <3>1, <3>2, <3>3
  <2>3. ASSUME NEW j \in r.shortcuts PROVE \E z \in Slot : HoldsFor(r, z, j, "portal")
    <3>0. j \in Keycodes BY <1>2 DEF KeyState
    <3>1. j \in s.shortcuts \/ (press /\ by = "portal" /\ j = k) BY <1>2 DEF Heard
    <3>2. CASE j \in s.shortcuts
      <4>1. PICK z \in Slot : HoldsFor(s, z, j, "portal") BY <1>1, <3>2 DEF Released
      <4>2. ~(z = y /\ j = k /\ ~press /\ by = "portal") BY <1>2 DEF Heard
      <4> QED BY <1>6, <1>8, <3>0, <4>1, <4>2
    <3>3. CASE press /\ by = "portal" /\ j = k BY <1>7, <3>3
    <3> QED BY <3>1, <3>2, <3>3
  <2>4. \A e \in SeatNames : r.entered[e] = None => r.told[e] = {} BY <1>1, <1>2 DEF Heard, Released
  <2>5. ~world.grab => r.imKeys = {} BY <1>1, <1>2 DEF Heard, Released
  <2> QED BY <2>1, <2>2, <2>3, <2>4, <2>5 DEF Released
<1> QED BY <1>2, <1>4, <1>5, <1>9 DEF KeysGood

\* What one key passed through a group leaves: only that key's count moved, and by one at most.
KeyPassed(s, r, syn, y, k, press) ==
  /\ KeysGood(r, syn, world) /\ r.kbd = s.kbd /\ r.order = s.order /\ SameGrp(s, r)
  /\ \A z \in Slot, j \in Keycodes : z # y \/ j # k => r.grp[z].n[j] = s.grp[z].n[j]
  /\ r.grp[y].n[k] <= s.grp[y].n[k] + 1
  /\ ~press => r.grp[y].n[k] = 0 \/ r.grp[y].n[k] + 1 <= s.grp[y].n[k]

\* KeyboardGroup::process_key: a press is counted at most once, a release takes one off.
LEMMA ProcessKeyKeeps ==
  ASSUME NEW s, NEW syn, KeysGood(s, syn, world),
         NEW y \in Slot, s.grp[y].refs > 0, NEW k \in Keycodes, NEW press \in BOOLEAN
  PROVE  KeyPassed(s, Keys!ProcessKey(s, y, k, press), syn, y, k, press)
<1> DEFINE x == s.grp[y]
           r == Keys!ProcessKey(s, y, k, press)
           Fine(u) == KeyPassed(s, u, syn, y, k, press)
<1>1. s \in KeyState /\ Taken(s) BY DEF KeysGood
<1>2. /\ s.grp[y].by[k] \in Takers \cup {None} /\ s.grp[y].n[k] \in Nat
      /\ s.grp[y].by[k] = None <=> s.grp[y].n[k] = 0
  BY <1>1 DEF KeyState, Group, Taken
<1>3. ASSUME NEW w, NEW b \in Takers \cup {None}, NEW c \in Nat, NEW by \in Takers, NEW isOn \in BOOLEAN,
             KeyStep(s, w, y, k, b, c, by, isOn), b = None <=> c = 0,
             (b = by /\ s.grp[y].by[k] \in {b, None}) \/ (~isOn /\ s.grp[y].by[k] = by),
             c <= s.grp[y].n[k] + 1, ~press => c = 0 \/ c + 1 <= s.grp[y].n[k]
      PROVE  Fine(w)
  <2>1. KeysGood(w, syn, world) BY <1>3, KeyStepKeeps
  <2>2. Noting(s, w, y, k, b, c) /\ w.kbd = s.kbd /\ w.order = s.order BY <1>3 DEF KeyStep
  <2>3. /\ SameGrp(s, w) /\ w.grp[y].n[k] = c
        /\ \A z \in Slot, j \in Keycodes : z # y \/ j # k => w.grp[z].n[j] = s.grp[z].n[j]
    <3>1. /\ s \in KeyState /\ y \in Slot /\ k \in Keycodes /\ b \in Takers \cup {None} /\ c \in Nat
          /\ Noting(s, w, y, k, b, c)
      BY <1>1, <2>2
    <3>2. NotedIn(s, w, y, k, b, c) BY <3>1, NotingLeaves, Zenon
    <3> QED BY <3>2 DEF NotedIn
  <2> QED BY <1>3, <2>1, <2>2, <2>3 DEF KeyPassed
<1>4. Fine(s)
       \/ (~press /\ s.grp[y].by[k] # None)
  <2>1. SameGrp(s, s) BY DEF SameGrp
  <2> QED BY <1>2, <2>1 DEF KeyPassed
<1>5. ASSUME s.grp[y].by[k] # None, NEW c \in Nat \ {0},
             c <= s.grp[y].n[k] + 1, ~press => c + 1 <= s.grp[y].n[k]
      PROVE  Fine([s EXCEPT !.grp[y].n[k] = c])
  <2> DEFINE w == [s EXCEPT !.grp[y].n[k] = c]
             by == s.grp[y].by[k]
  <2>0. s.grp[y] \in Group /\ s.grp[y].by \in [Keycodes -> Takers \cup {None}] BY <1>1 DEF KeyState, Group
  <2>1. w = [s EXCEPT !.grp = [s.grp EXCEPT ![y] = [s.grp[y] EXCEPT !.n = [s.grp[y].n EXCEPT ![k] = c]]]]
    BY <1>1 DEF KeyState, Group
  <2>2. [s.grp[y].by EXCEPT ![k] = by] = s.grp[y].by BY <2>0
  <2>3. [s.grp[y] EXCEPT !.n = [s.grp[y].n EXCEPT ![k] = c]]
          = [s.grp[y] EXCEPT !.by = [s.grp[y].by EXCEPT ![k] = by], !.n = [s.grp[y].n EXCEPT ![k] = c]]
    BY <2>0, <2>2 DEF Group
  <2> DEFINE gr == [s.grp EXCEPT ![y] = [s.grp[y] EXCEPT !.by = [s.grp[y].by EXCEPT ![k] = by],
                                                         !.n = [s.grp[y].n EXCEPT ![k] = c]]]
  <2>4. w = [s EXCEPT !.grp = gr] BY <2>1, <2>3
  <2> HIDE DEF w, gr
  <2>5. w.grp = gr BY <1>1, <2>4 DEF KeyState
  <2>6. Noting(s, w, y, k, by, c) BY <2>5 DEF Noting, gr
  <2>7. by \in Takers BY <1>2, <1>5
  <2>8. w.grp \in [Slot -> Group] BY <1>1, <2>6, <2>7, NotingIs
  <2>9. /\ w \in KeyState /\ w.kbd = s.kbd /\ w.order = s.order /\ w.entered = s.entered /\ w.active = s.active
        /\ w.told = s.told /\ w.listed = s.listed /\ w.shortcuts = s.shortcuts /\ w.imKeys = s.imKeys
    BY <1>1, <2>4, <2>5, <2>8 DEF KeyState
  <2>10. Heard(s, w, s.grp[y].seat, k, by, TRUE, world) BY <2>9 DEF Heard
  <2>11. KeyStep(s, w, y, k, by, c, by, TRUE) BY <2>6, <2>9, <2>10 DEF KeyStep
  <2>12. by # None /\ c # 0 BY <1>5
  <2> HIDE DEF by, Fine
  <2>13. s.grp[y].by[k] = by BY DEF by
  <2> QED BY <1>3, <1>5, <2>7, <2>11, <2>12, <2>13 DEF w
<1>6. ASSUME s.grp[y].by[k] = None, press PROVE Fine(Keys!GroupKey(s, y, k, TRUE))
  <2> DEFINE by == Keys!Consumer(s, y, k)
             w == Keys!GroupKey(s, y, k, TRUE)
  <2>1. by \in Takers /\ KeyStep(s, w, y, k, by, 1, by, TRUE) BY <1>1, GroupKeyIs
  <2>2. by # None BY <2>1, KeyNames
  <2>3. by = by /\ s.grp[y].by[k] \in {by, None} BY <1>6
  <2> HIDE DEF by, w, Fine
  <2>4. 1 \in Nat /\ 1 <= s.grp[y].n[k] + 1 /\ (by = None <=> 1 = 0) BY <1>2, <2>2
  <2>5. by \in Takers \cup {None} BY <2>1
  <2>6. Fine(w) BY <1>3, <1>6, <2>1, <2>3, <2>4, <2>5
  <2> QED BY <2>6 DEF w
<1>7. ASSUME s.grp[y].by[k] # None, ~press PROVE Fine(Keys!GroupKey(s, y, k, FALSE))
  <2> DEFINE by == s.grp[y].by[k]
             w == Keys!GroupKey(s, y, k, FALSE)
  <2>1. by \in Takers /\ KeyStep(s, w, y, k, None, 0, by, FALSE) BY <1>1, <1>7, GroupKeyIs
  <2>2. s.grp[y].by[k] = by OBVIOUS
  <2> HIDE DEF by, w, Fine
  <2>4. 0 \in Nat /\ 0 <= s.grp[y].n[k] + 1 /\ (None = None <=> 0 = 0) BY <1>2
  <2>6. Fine(w) BY <1>3, <1>7, <2>1, <2>2, <2>4
  <2> QED BY <2>6 DEF w
<1>8. r = IF s.grp[y].by[k] = None
          THEN IF press /\ Keys!Cardinality(Keys!Held(s, y)) < MaxHeld THEN Keys!GroupKey(s, y, k, TRUE) ELSE s
          ELSE IF press THEN [s EXCEPT !.grp[y].n[k] = s.grp[y].n[k] + 1]
          ELSE IF s.grp[y].n[k] = 1 THEN Keys!GroupKey(s, y, k, FALSE)
          ELSE [s EXCEPT !.grp[y].n[k] = s.grp[y].n[k] - 1]
  <2>1. CASE s.grp[y].by[k] = None BY <2>1 DEF Keys!ProcessKey
  <2>2. CASE s.grp[y].by[k] # None /\ press BY <2>2 DEF Keys!ProcessKey
  <2>3. CASE s.grp[y].by[k] # None /\ ~press BY <2>3 DEF Keys!ProcessKey
  <2> QED BY <2>1, <2>2, <2>3
<1> HIDE DEF r, Fine
<1>9. Fine(r)
  <2>1. CASE s.grp[y].by[k] = None /\ press BY <1>4, <1>6, <1>8, <2>1
  <2>2. CASE s.grp[y].by[k] = None /\ ~press BY <1>4, <1>8, <2>2
  <2>3. CASE s.grp[y].by[k] # None /\ press
    <3>1. s.grp[y].n[k] + 1 \in Nat \ {0} /\ s.grp[y].n[k] + 1 <= s.grp[y].n[k] + 1 BY <1>2
    <3>2. r = [s EXCEPT !.grp[y].n[k] = s.grp[y].n[k] + 1] BY <1>8, <2>3
    <3> QED BY <1>5, <2>3, <3>1, <3>2
  <2>4. CASE s.grp[y].by[k] # None /\ ~press /\ s.grp[y].n[k] = 1 BY <1>7, <1>8, <2>4
  <2>5. CASE s.grp[y].by[k] # None /\ ~press /\ s.grp[y].n[k] # 1
    <3> DEFINE c == s.grp[y].n[k] - 1
    <3>1. c \in Nat \ {0} /\ c <= s.grp[y].n[k] + 1 /\ c + 1 <= s.grp[y].n[k] BY <1>2, <2>5
    <3>2. r = [s EXCEPT !.grp[y].n[k] = c] BY <1>8, <2>5
    <3> HIDE DEF c
    <3> QED BY <1>5, <2>5, <3>1, <3>2
  <2> QED BY <2>1, <2>2, <2>3, <2>4, <2>5
<1> QED BY <1>9 DEF Fine, r

\* A keyboard's held keys change, and no other's.
HeldAfter(s, d, k, press) == IF press THEN s.kbd[d].held \cup {k} ELSE s.kbd[d].held \ {k}
HoldersWith(s, d, h, z, j) == (Holders(s, z, j) \ {d}) \cup (IF s.kbd[d].group = z /\ j \in h THEN {d} ELSE {})
HeldOnly(s, r, d, h) == r.kbd = [s.kbd EXCEPT ![d] = [s.kbd[d] EXCEPT !.held = h]]

\* What becomes of a state in which one keyboard holds other keys.
LEMMA HeldOnlyIs ==
  ASSUME NEW s \in KeyState, NEW r, NEW d \in Devs, NEW h \in SUBSET Keycodes, HeldOnly(s, r, d, h)
  PROVE  /\ r.kbd \in [Devs -> Keyboard] /\ r.kbd[d].held = h
         /\ \A e \in Devs : /\ e # d => r.kbd[e] = s.kbd[e]
                            /\ r.kbd[e].plugged = s.kbd[e].plugged /\ r.kbd[e].seat = s.kbd[e].seat
                            /\ r.kbd[e].group = s.kbd[e].group /\ r.kbd[e].cfg = s.kbd[e].cfg
                            /\ r.kbd[e].down = s.kbd[e].down
         /\ SameKbd(s, r)
         /\ \A z : Its(r, z) = Its(s, z)
<1> DEFINE v == [s.kbd[d] EXCEPT !.held = h]
<1>1. s.kbd \in [Devs -> Keyboard] /\ s.kbd[d] \in Keyboard BY DEF KeyState
<1>2. /\ v \in Keyboard /\ v.held = h /\ v.plugged = s.kbd[d].plugged /\ v.seat = s.kbd[d].seat
      /\ v.group = s.kbd[d].group /\ v.cfg = s.kbd[d].cfg /\ v.down = s.kbd[d].down
  BY <1>1 DEF Keyboard
<1>3. r.kbd = [s.kbd EXCEPT ![d] = v] BY DEF HeldOnly
<1> HIDE DEF v
<1>4. r.kbd \in [Devs -> Keyboard] /\ r.kbd[d] = v /\ \A e \in Devs : e # d => r.kbd[e] = s.kbd[e]
  BY <1>1, <1>2, <1>3
<1>5. \A e \in Devs : /\ r.kbd[e].plugged = s.kbd[e].plugged /\ r.kbd[e].seat = s.kbd[e].seat
                      /\ r.kbd[e].group = s.kbd[e].group /\ r.kbd[e].cfg = s.kbd[e].cfg
                      /\ r.kbd[e].down = s.kbd[e].down
  BY <1>2, <1>4
<1>6. \A z : Its(r, z) = Its(s, z) BY <1>5 DEF Its
<1>8. SameKbd(s, r) BY <1>5 DEF SameKbd
<1> QED BY <1>2, <1>4, <1>5, <1>6, <1>8

\* It changes the holders of a key by that keyboard alone.
LEMMA HeldHolders ==
  ASSUME NEW s \in KeyState, NEW r, NEW d \in Devs, NEW h \in SUBSET Keycodes, HeldOnly(s, r, d, h), NEW z, NEW j
  PROVE  Holders(r, z, j) = HoldersWith(s, d, h, z, j)
<1>1. /\ r.kbd[d].held = h
      /\ \A e \in Devs : (e # d => r.kbd[e] = s.kbd[e]) /\ r.kbd[e].group = s.kbd[e].group
  BY HeldOnlyIs
<1> QED BY <1>1 DEF Holders, Its, HoldersWith

\* What is known of keys depends on keyboards by their groups, and on who has been told
\* what by who will release it.
LEMMA GoodStill ==
  ASSUME NEW s, NEW r \in KeyState, NEW syn, NEW wo, NEW wo2, KeysGood(s, syn, wo), SameKbd(s, r),
         r.grp = s.grp, r.order = s.order, r.active = s.active, Released(r, wo2)
  PROVE  KeysGood(r, syn, wo2) /\ \A z : Its(r, z) = Its(s, z)
<1>1. s \in KeyState /\ Linked(s, syn) /\ Taken(s) BY DEF KeysGood
<1>2. SameGrp(s, r) BY DEF SameGrp
<1>3. Linked(r, syn) /\ \A z : Its(r, z) = Its(s, z) BY <1>1, <1>2, LinkedStays
<1>4. Taken(r) BY <1>1 DEF Taken
<1> QED BY <1>3, <1>4 DEF KeysGood

\* A keyboard's held keys by themselves are of no matter to the groups.
LEMMA HeldGood ==
  ASSUME NEW s, NEW syn, NEW wo, KeysGood(s, syn, wo), NEW d \in Devs, NEW h \in SUBSET Keycodes
  PROVE  LET r == [s EXCEPT !.kbd[d].held = h] IN
         /\ KeysGood(r, syn, wo) /\ HeldOnly(s, r, d, h) /\ r.grp = s.grp /\ r.order = s.order
<1> DEFINE r == [s EXCEPT !.kbd[d].held = h]
<1>1. s \in KeyState /\ Released(s, wo) BY DEF KeysGood
<1>2. r = [s EXCEPT !.kbd = [s.kbd EXCEPT ![d] = [s.kbd[d] EXCEPT !.held = h]]] BY <1>1 DEF KeyState, Keyboard
<1> HIDE DEF r
<1>3. HeldOnly(s, r, d, h) BY <1>1, <1>2 DEF HeldOnly, KeyState
<1>4. r.kbd \in [Devs -> Keyboard] /\ SameKbd(s, r) BY <1>1, <1>3, HeldOnlyIs
<1>5. /\ r \in KeyState /\ r.grp = s.grp /\ r.order = s.order /\ r.entered = s.entered /\ r.active = s.active
      /\ r.told = s.told /\ r.listed = s.listed /\ r.shortcuts = s.shortcuts /\ r.imKeys = s.imKeys
  <2>1. r = [s EXCEPT !.kbd = r.kbd] BY <1>1, <1>2 DEF KeyState
  <2> QED BY <1>1, <1>4, <2>1 DEF KeyState
<1>6. Released(r, wo) BY <1>1, <1>5 DEF Released, HoldsFor
<1> QED BY <1>3, <1>4, <1>5, <1>6, GoodStill DEF r

\* handle_key: a keyboard's count in its group goes with what it holds.
LEMMA DeviceKeyKeeps ==
  ASSUME NEW s, NEW syn, KeysGood(s, syn, world), Counted(s), NEW d \in Devs, NEW k \in Keycodes, NEW press \in BOOLEAN,
         press => k \notin s.kbd[d].held /\ Cardinality(s.kbd[d].held) < MaxHeld
  PROVE  LET r == Keys!DeviceKey(s, d, k, press)
         IN  /\ KeysGood(r, syn, world) /\ Counted(r) /\ r.order = s.order /\ SameGrp(s, r)
             /\ HeldOnly(s, r, d, HeldAfter(s, d, k, press))
<1> DEFINE y == s.kbd[d].group
           h == HeldAfter(s, d, k, press)
           noted == [s EXCEPT !.kbd[d].held = h]
           r == Keys!DeviceKey(s, d, k, press)
<1>1. s \in KeyState /\ Linked(s, syn) /\ s.kbd[d].held \subseteq Keycodes /\ y \in Slot \cup {None}
  BY KeyFields DEF KeysGood, Keyboard
<1>2. h \in SUBSET Keycodes BY <1>1 DEF HeldAfter
<1>3. press => Keys!Cardinality(s.kbd[d].held) < MaxHeld BY DEF Keys!Cardinality, Cardinality
<1>4. r = IF y = None THEN noted ELSE Keys!ProcessKey(noted, y, k, press)
  <2>1. CASE press
    <3>1. [s EXCEPT !.kbd[d].held = IF ~press THEN @ \ {k} ELSE IF Keys!Cardinality(@) < MaxHeld THEN @ \cup {k} ELSE @] = noted
      BY <1>3, <2>1 DEF HeldAfter
    <3> QED BY <3>1 DEF Keys!DeviceKey
  <2>2. CASE ~press
    <3>1. [s EXCEPT !.kbd[d].held = IF ~press THEN @ \ {k} ELSE IF Keys!Cardinality(@) < MaxHeld THEN @ \cup {k} ELSE @] = noted
      BY <2>2 DEF HeldAfter
    <3> QED BY <3>1 DEF Keys!DeviceKey
  <2> QED BY <2>1, <2>2
<1>h. h = IF press THEN s.kbd[d].held \cup {k} ELSE s.kbd[d].held \ {k} BY DEF HeldAfter
<1> HIDE DEF h
<1>5. KeysGood(noted, syn, world) /\ HeldOnly(s, noted, d, h) /\ noted.grp = s.grp /\ noted.order = s.order
  BY <1>2, HeldGood
<1> HIDE DEF noted, r
<1>6. \A z, j : Holders(noted, z, j) = (Holders(s, z, j) \ {d}) \cup (IF y = z /\ j \in h THEN {d} ELSE {})
  <2>1. s \in KeyState /\ HeldOnly(s, noted, d, h) BY <1>1, <1>5
  <2>2. \A z, j : Holders(noted, z, j) = HoldersWith(s, d, h, z, j) BY <1>2, <2>1, HeldHolders
  <2> QED BY <2>2 DEF HoldersWith
<1>7. \A z, j : z # y \/ j # k => Holders(noted, z, j) = Holders(s, z, j)
  <2> SUFFICES ASSUME NEW z, NEW j, z # y \/ j # k PROVE Holders(noted, z, j) = Holders(s, z, j) OBVIOUS
  <2>1. d \in Holders(s, z, j) <=> y = z /\ j \in s.kbd[d].held BY DEF Holders, Its
  <2>2. CASE z # y
    <3>1. d \notin Holders(s, z, j) BY <2>1, <2>2
    <3>2. Holders(noted, z, j) = (Holders(s, z, j) \ {d}) \cup {} BY <1>6, <2>2
    <3> QED BY <3>1, <3>2
  <2>3. CASE j # k
    <3>1. j \in h <=> j \in s.kbd[d].held BY <1>h, <2>3
    <3> QED BY <1>6, <2>1, <3>1
  <2> QED BY <2>2, <2>3
<1>8. /\ press => Cardinality(Holders(noted, y, k)) = Cardinality(Holders(s, y, k)) + 1
      /\ ~press => Cardinality(Holders(noted, y, k)) + 1 >= Cardinality(Holders(s, y, k))
  <2>1. IsFiniteSet(Holders(s, y, k)) /\ Cardinality(Holders(s, y, k)) \in Nat BY ItsFinite
  <2>2. d \in Holders(s, y, k) <=> k \in s.kbd[d].held BY DEF Holders, Its
  <2>3. CASE press
    <3>1. d \notin Holders(s, y, k) BY <2>2, <2>3
    <3>2. Holders(noted, y, k) = Holders(s, y, k) \cup {d} BY <1>6, <1>h, <2>3, <3>1
    <3> QED BY <2>1, <2>3, <3>1, <3>2, FS_AddElement
  <2>4. CASE ~press
    <3>1. Holders(noted, y, k) = Holders(s, y, k) \ {d} BY <1>6, <1>h, <2>4
    <3>2. Cardinality(Holders(s, y, k) \ {d}) = IF d \in Holders(s, y, k) THEN Cardinality(Holders(s, y, k)) - 1
                                                 ELSE Cardinality(Holders(s, y, k))
      BY <2>1, FS_RemoveElement
    <3> QED BY <2>1, <2>4, <3>1, <3>2
  <2> QED BY <2>3, <2>4
<1>9. CASE y = None
  <2>1. \A z \in Slot, j \in Keycodes : Holders(noted, z, j) = Holders(s, z, j) BY <1>7, <1>9, KeyNames
  <2>2. Counted(noted) BY <1>5, <2>1 DEF Counted
  <2>3. SameGrp(s, noted) BY <1>5 DEF SameGrp
  <2> QED BY <1>4, <1>5, <1>9, <2>2, <2>3 DEF h, r
<1>10. CASE y # None
  <2>1. y \in Slot /\ s.grp[y].refs > 0 BY <1>1, <1>10 DEF Linked, Member
  <2>2. noted.grp[y].refs > 0 BY <1>5, <2>1
  <2>3. r = Keys!ProcessKey(noted, y, k, press) BY <1>4, <1>10
  <2>4. /\ KeysGood(r, syn, world) /\ r.kbd = noted.kbd /\ r.order = noted.order /\ SameGrp(noted, r)
        /\ \A z \in Slot, j \in Keycodes : z # y \/ j # k => r.grp[z].n[j] = noted.grp[z].n[j]
        /\ r.grp[y].n[k] <= noted.grp[y].n[k] + 1
        /\ ~press => r.grp[y].n[k] = 0 \/ r.grp[y].n[k] + 1 <= noted.grp[y].n[k]
    <3>1. KeysGood(noted, syn, world) /\ y \in Slot /\ noted.grp[y].refs > 0 BY <1>5, <2>1, <2>2
    <3>2. KeyPassed(noted, Keys!ProcessKey(noted, y, k, press), syn, y, k, press) BY <3>1, ProcessKeyKeeps, Zenon
    <3>3. KeyPassed(noted, r, syn, y, k, press) BY <2>3, <3>2, Zenon
    <3> QED BY <3>3 DEF KeyPassed
  <2>5. \A z, j : Holders(r, z, j) = Holders(noted, z, j) BY <2>4 DEF Holders, Its
  <2>6. Counted(r)
    <3> SUFFICES ASSUME NEW z \in Slot, NEW j \in Keycodes PROVE r.grp[z].n[j] <= Cardinality(Holders(r, z, j))
      BY DEF Counted
    <3>1. CASE z # y \/ j # k
      <4>1. r.grp[z].n[j] = s.grp[z].n[j] BY <1>5, <2>4, <3>1
      <4>2. Holders(r, z, j) = Holders(s, z, j) BY <1>7, <2>5, <3>1
      <4> QED BY <4>1, <4>2 DEF Counted
    <3>2. CASE z = y /\ j = k
      <4>1. s.grp[y].n[k] <= Cardinality(Holders(s, y, k)) BY <2>1 DEF Counted
      <4>2. s.grp[y].n[k] \in Nat /\ r.grp[y].n[k] \in Nat
        <5>1. s.grp[y] \in Group /\ r.grp[y] \in Group BY <1>1, <2>1, <2>4 DEF KeysGood, KeyState
        <5> QED BY <5>1 DEF Group
      <4>3. Cardinality(Holders(s, y, k)) \in Nat /\ Cardinality(Holders(noted, y, k)) \in Nat BY ItsFinite
      <4>4. r.grp[y].n[k] <= Cardinality(Holders(noted, y, k)) BY <1>5, <1>8, <2>4, <4>1, <4>2, <4>3
      <4> QED BY <2>5, <3>2, <4>4
    <3> QED BY <3>1, <3>2
  <2>7. SameGrp(s, r) BY <1>5, <2>4 DEF SameGrp
  <2>8. HeldOnly(s, r, d, h) BY <1>5, <2>4 DEF HeldOnly
  <2> QED BY <1>5, <2>4, <2>6, <2>7, <2>8 DEF h, r
<1> QED BY <1>9, <1>10

\* A press that a full keyboard does not note, and that its group does not count.
LEMMA UnnotedKeeps ==
  ASSUME NEW s, NEW syn, KeysGood(s, syn, world), Counted(s), NEW d \in Devs, NEW k \in Keycodes,
         k \notin s.kbd[d].held, ~(Cardinality(s.kbd[d].held) < MaxHeld), NEW press \in BOOLEAN, press,
         LET r == Keys!DeviceKey(s, d, k, press) IN k \in r.kbd[d].held \/ r.grp = s.grp
  PROVE  LET r == Keys!DeviceKey(s, d, k, press) IN KeysGood(r, syn, world) /\ Counted(r) /\ r.kbd = s.kbd
<1> DEFINE y == s.kbd[d].group
           r == Keys!DeviceKey(s, d, k, press)
<1>1. s \in KeyState /\ Linked(s, syn) /\ y \in Slot \cup {None} BY KeyFields DEF KeysGood, Keyboard
<1>2. r = IF y = None THEN s ELSE Keys!ProcessKey(s, y, k, press)
  <2>1. ~(Keys!Cardinality(s.kbd[d].held) < MaxHeld) BY DEF Keys!Cardinality, Cardinality
  <2>2. [s EXCEPT !.kbd[d].held = IF ~press THEN @ \ {k} ELSE IF Keys!Cardinality(@) < MaxHeld THEN @ \cup {k} ELSE @] = s
    BY <1>1, <2>1 DEF KeyState, Keyboard
  <2> QED BY <2>2 DEF Keys!DeviceKey
<1> HIDE DEF r
<1>3. CASE y = None BY <1>2, <1>3 DEF r
<1>4. CASE y # None
  <2>1. y \in Slot /\ s.grp[y].refs > 0 BY <1>1, <1>4 DEF Linked, Member
  <2>2. KeyPassed(s, Keys!ProcessKey(s, y, k, press), syn, y, k, press) BY <2>1, ProcessKeyKeeps, Zenon
  <2>3. KeyPassed(s, r, syn, y, k, press) BY <1>2, <1>4, <2>2
  <2>4. KeysGood(r, syn, world) /\ r.kbd = s.kbd BY <2>3 DEF KeyPassed
  <2>5. r.grp = s.grp BY <2>4 DEF r
  <2>6. Counted(r) BY <2>4, <2>5 DEF Counted, Holders, Its
  <2> QED BY <2>4, <2>6 DEF r
<1> QED BY <1>3, <1>4

-----------------------------------------------------------------------------
(* What is done to each of a set, in some order.                           *)

\* Induction over the subsets of a finite set.
LEMMA SetsUp ==
  ASSUME NEW S, IsFiniteSet(S), NEW G,
         \A X \in SUBSET S : (\A x \in X : X \ {x} \in G) => X \in G
  PROVE  \A X \in SUBSET S : X \in G
<1> DEFINE N == {n \in Nat : \A X \in SUBSET S : Cardinality(X) <= n => X \in G}
<1>1. \A X \in SUBSET S : IsFiniteSet(X) /\ Cardinality(X) \in Nat /\ Cardinality(X) <= Cardinality(S)
  BY FS_Subset, FS_CardinalityType
<1>2. Cardinality(S) \in Nat BY FS_CardinalityType
<1>3. 0 \in N
  <2>1. ASSUME NEW X \in SUBSET S, Cardinality(X) <= 0 PROVE X \in G
    <3>1. X = {} BY <1>1, <2>1, FS_EmptySet
    <3> QED BY <3>1
  <2> QED BY <2>1
<1>4. ASSUME NEW n \in 1..Cardinality(S), n - 1 \in N PROVE n \in N
  <2>1. ASSUME NEW X \in SUBSET S, Cardinality(X) <= n PROVE X \in G
    <3>1. ASSUME NEW x \in X PROVE X \ {x} \in G
      <4>1. Cardinality(X \ {x}) = Cardinality(X) - 1 BY <1>1, FS_RemoveElement
      <4>2. X \ {x} \in SUBSET S /\ Cardinality(X \ {x}) <= n - 1 BY <1>1, <1>2, <2>1, <4>1
      <4> QED BY <1>4, <4>2
    <3> QED BY <3>1
  <2>2. n \in Nat BY <1>2
  <2> QED BY <2>1, <2>2
<1> HIDE DEF N
<1>5. Cardinality(S) \in N
  <2>1. \A i \in 0..Cardinality(S) : i \in N BY <1>2, <1>3, <1>4, CountUp
  <2>2. Cardinality(S) \in 0..Cardinality(S) BY <1>2
  <2> QED BY <2>1, <2>2
<1> QED BY <1>1, <1>5 DEF N

\* What is done to one of them, after the others: a key that a keyboard lets go of, by
\* itself or of its group only, and a keyboard that lets go, or leaves its seat.
Did(how, d, x, s) ==
    CASE how = "up" -> Keys!DeviceKey(s, d, x, FALSE)
      [] how = "off" -> Keys!ProcessKey(s, d, x, FALSE)
      [] how = "idle" -> Keys!ReleasePressed(s, x)
      [] how = "move" -> Keys!Reassign(s, x, IF x \in Virtual THEN None ELSE "default")
Turn(how, d, base, f, X) ==
    IF X = {} THEN base ELSE Did(how, d, CHOOSE x \in X : TRUE, f[X \ {CHOOSE x \in X : TRUE}])
Turns(how, d, base, f, S) == f = [X \in SUBSET S |-> Turn(how, d, base, f, X)]

\* What comes of it exists.
LEMMA TurnsExist ==
  ASSUME NEW S, IsFiniteSet(S), NEW how, NEW d, NEW base
  PROVE  \E f : Turns(how, d, base, f, S)
<1> DEFINE Small(n) == {X \in SUBSET S : Cardinality(X) <= n}
           N == {n \in Nat : \E f : f = [X \in Small(n) |-> Turn(how, d, base, f, X)]}
<1>1. \A X \in SUBSET S : IsFiniteSet(X) /\ Cardinality(X) \in Nat /\ Cardinality(X) <= Cardinality(S)
  BY FS_Subset, FS_CardinalityType
<1>2. Cardinality(S) \in Nat BY FS_CardinalityType
<1>3. 0 \in N
  <2> DEFINE f == [X \in Small(0) |-> base]
  <2>1. \A X \in Small(0) : X = {} BY <1>1, FS_EmptySet
  <2>2. \A X \in Small(0) : Turn(how, d, base, f, X) = base BY <2>1 DEF Turn
  <2>3. f = [X \in Small(0) |-> Turn(how, d, base, f, X)] BY <2>2
  <2> QED BY <2>3
<1>4. ASSUME NEW n \in 1..Cardinality(S), n - 1 \in N PROVE n \in N
  <2>1. PICK f : f = [X \in Small(n - 1) |-> Turn(how, d, base, f, X)] BY <1>4
  <2> DEFINE h == [X \in Small(n) |-> Turn(how, d, base, f, X)]
  <2>2. ASSUME NEW X \in Small(n - 1) PROVE X \in Small(n) /\ h[X] = f[X]
    <3>1. X \in Small(n) BY <1>1, <1>2
    <3>2. f[X] = Turn(how, d, base, f, X)
      <4> HIDE DEF Small
      <4> QED BY <2>1
    <3> HIDE DEF Small
    <3> QED BY <3>1, <3>2
  <2>3. ASSUME NEW X \in Small(n) PROVE Turn(how, d, base, f, X) = Turn(how, d, base, h, X)
    <3>1. CASE X = {} BY <3>1 DEF Turn
    <3>2. CASE X # {}
      <4> DEFINE x == CHOOSE z \in X : TRUE
      <4>1. x \in X BY <3>2
      <4>2. Cardinality(X \ {x}) = Cardinality(X) - 1 BY <1>1, <4>1, FS_RemoveElement
      <4>3. X \ {x} \in Small(n - 1) BY <1>1, <1>2, <4>2
      <4>4. h[X \ {x}] = f[X \ {x}] BY <2>2, <4>3
      <4> HIDE DEF h
      <4> QED BY <3>2, <4>4 DEF Turn
    <3> QED BY <3>1, <3>2
  <2>4. h = [X \in Small(n) |-> Turn(how, d, base, h, X)]
    <3> HIDE DEF Small
    <3> DEFINE w == [X \in Small(n) |-> Turn(how, d, base, h, X)]
    <3>1. \A X \in Small(n) : h[X] = w[X] BY <2>3
    <3> QED BY <3>1
  <2>5. n \in Nat BY <1>2
  <2> HIDE DEF h, Small
  <2> QED BY <2>4, <2>5
<1>5. Cardinality(S) \in N
  <2> HIDE DEF N
  <2>1. \A i \in 0..Cardinality(S) : i \in N BY <1>2, <1>3, <1>4, CountUp
  <2>2. Cardinality(S) \in 0..Cardinality(S) BY <1>2
  <2> QED BY <2>1, <2>2
<1>6. Small(Cardinality(S)) = SUBSET S BY <1>1
<1>7. PICK f : f = [X \in Small(Cardinality(S)) |-> Turn(how, d, base, f, X)] BY <1>5
<1> HIDE DEF Small
<1> QED BY <1>6, <1>7 DEF Turns

\* It takes them one after the other.
LEMMA TurnsGo ==
  ASSUME NEW S, NEW how, NEW d, NEW base, NEW f, Turns(how, d, base, f, S)
  PROVE  /\ f[{}] = base
         /\ \A X \in SUBSET S : X # {} => \E x \in X : f[X] = Did(how, d, x, f[X \ {x}])
<1>1. ASSUME NEW X \in SUBSET S PROVE f[X] = Turn(how, d, base, f, X) BY DEF Turns
<1>2. f[{}] = base BY <1>1 DEF Turn
<1>3. ASSUME NEW X \in SUBSET S, X # {} PROVE \E x \in X : f[X] = Did(how, d, x, f[X \ {x}])
  <2> DEFINE x == CHOOSE z \in X : TRUE
  <2>1. x \in X BY <1>3
  <2>2. f[X] = Did(how, d, x, f[X \ {x}]) BY <1>1, <1>3 DEF Turn
  <2> QED BY <2>1, <2>2
<1> QED BY <1>2, <1>3

\* wlr_keyboard_finish.
LEMMA FinishIs ==
  ASSUME NEW s, NEW d, IsFiniteSet(s.kbd[d].down)
  PROVE  \E f : Turns("up", d, s, f, s.kbd[d].down) /\ Keys!Finish(s, d) = f[s.kbd[d].down]
<1> DEFINE S == s.kbd[d].down
           Next1(f, X) == IF X = {} THEN s
                          ELSE LET x == CHOOSE z \in X : TRUE IN Keys!DeviceKey(f[X \ {x}], d, x, FALSE)
           Runs1(f) == f = [X \in SUBSET S |-> Next1(f, X)]
           iter == CHOOSE f : Runs1(f)
<1>1. \A f, X : Next1(f, X) = Turn("up", d, s, f, X) BY DEF Turn, Did
<1>2. Keys!Finish(s, d) = iter[S] BY DEF Keys!Finish, Keys!FoldSet, Keys!MapThenFoldSet
<1> HIDE DEF Next1
<1>3. \A f : Runs1(f) <=> Turns("up", d, s, f, S)
  <2> SUFFICES ASSUME NEW f PROVE Runs1(f) <=> Turns("up", d, s, f, S) OBVIOUS
  <2>1. [X \in SUBSET S |-> Next1(f, X)] = [X \in SUBSET S |-> Turn("up", d, s, f, X)] BY <1>1
  <2> QED BY <2>1 DEF Turns
<1> HIDE DEF Runs1
<1>4. \E f : Runs1(f) BY <1>3, TurnsExist
<1>5. Runs1(iter) BY <1>4
<1> HIDE DEF iter
<1> QED BY <1>2, <1>3, <1>5

\* Two changes of what a keyboard holds are one.
LEMMA HeldOnlyTwice ==
  ASSUME NEW s \in KeyState, NEW u \in KeyState, NEW r, NEW d \in Devs, NEW h \in SUBSET Keycodes,
         NEW i \in SUBSET Keycodes, HeldOnly(s, u, d, h), HeldOnly(u, r, d, i)
  PROVE  HeldOnly(s, r, d, i)
<1> DEFINE v == [s.kbd[d] EXCEPT !.held = h]
           w == [u.kbd[d] EXCEPT !.held = i]
<1>1. s.kbd \in [Devs -> Keyboard] /\ s.kbd[d] \in Keyboard BY DEF KeyState
<1>2. u.kbd = [s.kbd EXCEPT ![d] = v] /\ r.kbd = [u.kbd EXCEPT ![d] = w] BY DEF HeldOnly
<1>3. [v EXCEPT !.held = i] = [s.kbd[d] EXCEPT !.held = i] BY <1>1 DEF Keyboard
<1> HIDE DEF v
<1>4. u.kbd[d] = v BY <1>1, <1>2
<1>5. w = [s.kbd[d] EXCEPT !.held = i] BY <1>3, <1>4
<1> HIDE DEF w
<1>6. r.kbd = [s.kbd EXCEPT ![d] = w] BY <1>1, <1>2
<1> QED BY <1>5, <1>6 DEF HeldOnly

\* wlr_keyboard_finish lets go of all that is down.
LEMMA FinishKeeps ==
  ASSUME NEW s, NEW syn, KeysGood(s, syn, world), Counted(s), NEW d \in Devs
  PROVE  LET r == Keys!Finish(s, d) IN
         /\ KeysGood(r, syn, world) /\ Counted(r)
         /\ HeldOnly(s, r, d, s.kbd[d].held \ s.kbd[d].down)
<1> DEFINE S == s.kbd[d].down
           hd == s.kbd[d].held
           Fine(u, X) == KeysGood(u, syn, world) /\ Counted(u) /\ HeldOnly(s, u, d, hd \ X)
<1>1. s \in KeyState BY DEF KeysGood
<1>2. s.kbd[d] \in Keyboard BY <1>1, KeyFields
<1>3. S \subseteq Keycodes /\ hd \subseteq Keycodes BY <1>2 DEF Keyboard
<1>4. IsFiniteSet(S) BY <1>3, KeyAssumption, FS_Subset
<1>5. PICK f : Turns("up", d, s, f, S) /\ Keys!Finish(s, d) = f[S] BY <1>4, FinishIs
<1>6. /\ f[{}] = s
      /\ \A X \in SUBSET S : X # {} => \E x \in X : f[X] = Did("up", d, x, f[X \ {x}])
  BY <1>5, TurnsGo
<1>7. Fine(s, {})
  <2>1. [s.kbd[d] EXCEPT !.held = hd] = s.kbd[d] BY <1>2 DEF Keyboard
  <2>2. HeldOnly(s, s, d, hd) BY <1>1, <2>1 DEF HeldOnly, KeyState
  <2>3. hd \ {} = hd OBVIOUS
  <2> QED BY <2>2, <2>3
<1> DEFINE G == {X \in SUBSET S : Fine(f[X], X)}
<1>8. ASSUME NEW X \in SUBSET S, \A x \in X : X \ {x} \in G PROVE X \in G
  <2>1. CASE X = {} BY <1>6, <1>7, <2>1
  <2>2. CASE X # {}
    <3>1. PICK x \in X : f[X] = Did("up", d, x, f[X \ {x}]) BY <1>6, <2>2
    <3> DEFINE u == f[X \ {x}]
               h == hd \ (X \ {x})
    <3>2. KeysGood(u, syn, world) /\ Counted(u) /\ HeldOnly(s, u, d, h) BY <1>8
    <3>3. f[X] = Keys!DeviceKey(u, d, x, FALSE) BY <3>1 DEF Did
    <3> HIDE DEF u
    <3>4. x \in Keycodes /\ h \in SUBSET Keycodes BY <1>3
    <3>5. u \in KeyState /\ u.kbd[d].held = h BY <1>1, <3>2, <3>4, HeldOnlyIs DEF KeysGood
    <3>6. /\ KeysGood(f[X], syn, world) /\ Counted(f[X])
          /\ HeldOnly(u, f[X], d, u.kbd[d].held \ {x})
      <4> DEFINE off == FALSE
      <4>1. off \in BOOLEAN /\ ~off /\ f[X] = Keys!DeviceKey(u, d, x, off) BY <3>3
      <4> HIDE DEF off
      <4>2. KeysGood(f[X], syn, world) /\ Counted(f[X]) /\ HeldOnly(u, f[X], d, HeldAfter(u, d, x, off))
        BY <3>2, <3>4, <4>1, DeviceKeyKeeps
      <4>3. HeldAfter(u, d, x, off) = u.kbd[d].held \ {x} BY <4>1 DEF HeldAfter
      <4> QED BY <4>2, <4>3
    <3>7. u.kbd[d].held \ {x} = hd \ X BY <3>5
    <3>8. hd \ X \in SUBSET Keycodes BY <1>3
    <3>9. HeldOnly(s, f[X], d, hd \ X) BY <1>1, <3>2, <3>4, <3>5, <3>6, <3>7, <3>8, HeldOnlyTwice
    <3> QED BY <3>6, <3>9
  <2> QED BY <2>1, <2>2
<1> HIDE DEF G
<1>9. S \in G
  <2>1. \A X \in SUBSET S : (\A x \in X : X \ {x} \in G) => X \in G BY <1>8
  <2> HIDE DEF S
  <2>2. \A X \in SUBSET S : X \in G BY <1>4, <2>1, SetsUp
  <2> QED BY <2>2
<1> QED BY <1>5, <1>9 DEF G

\* Keyboard::release_pressed.
LEMMA ReleaseIs ==
  ASSUME NEW s, NEW d, IsFiniteSet(s.kbd[d].held), s.kbd[d].group # None
  PROVE  \E f : /\ Turns("off", s.kbd[d].group, [s EXCEPT !.kbd[d].held = {}], f, s.kbd[d].held)
                /\ Keys!ReleasePressed(s, d) = f[s.kbd[d].held]
<1> DEFINE S == s.kbd[d].held
           y == s.kbd[d].group
           base == [s EXCEPT !.kbd[d].held = {}]
           Next1(f, X) == IF X = {} THEN base
                          ELSE LET x == CHOOSE z \in X : TRUE IN Keys!ProcessKey(f[X \ {x}], y, x, FALSE)
           Runs1(f) == f = [X \in SUBSET S |-> Next1(f, X)]
           iter == CHOOSE f : Runs1(f)
<1>1. \A f, X : Next1(f, X) = Turn("off", y, base, f, X) BY DEF Turn, Did
<1>2. Keys!ReleasePressed(s, d) = iter[S] BY DEF Keys!ReleasePressed, Keys!FoldSet, Keys!MapThenFoldSet
<1> HIDE DEF Next1
<1>3. \A f : Runs1(f) <=> Turns("off", y, base, f, S)
  <2> SUFFICES ASSUME NEW f PROVE Runs1(f) <=> Turns("off", y, base, f, S) OBVIOUS
  <2>1. [X \in SUBSET S |-> Next1(f, X)] = [X \in SUBSET S |-> Turn("off", y, base, f, X)] BY <1>1
  <2> QED BY <2>1 DEF Turns
<1> HIDE DEF Runs1
<1>4. \E f : Runs1(f) BY <1>3, TurnsExist
<1>5. Runs1(iter) BY <1>4
<1> HIDE DEF iter
<1> QED BY <1>2, <1>3, <1>5

\* Keyboard::release_pressed: the keyboard holds nothing, and its counts have gone with it.
LEMMA ReleaseStillGood ==
  ASSUME NEW s, NEW syn, KeysGood(s, syn, world), Counted(s), NEW d \in Devs
  PROVE  LET r == Keys!ReleasePressed(s, d) IN
         KeysGood(r, syn, world) /\ Counted(r) /\ HeldOnly(s, r, d, {})
<1> DEFINE S == s.kbd[d].held
           y == s.kbd[d].group
           bare == [s EXCEPT !.kbd[d].held = {}]
           Left(X, z, j) == IF z = y /\ j \in S \ X THEN 1 ELSE 0
           Fine(u, X) == /\ KeysGood(u, syn, world) /\ u.kbd = bare.kbd /\ SameGrp(s, u)
                         /\ \A z \in Slot, j \in Keycodes :
                               u.grp[z].n[j] <= Cardinality(Holders(bare, z, j)) + Left(X, z, j)
<1>1. s \in KeyState /\ Linked(s, syn) BY DEF KeysGood
<1>2. S \subseteq Keycodes /\ y \in Slot \cup {None}
  <2>1. s.kbd[d] \in Keyboard BY <1>1, KeyFields
  <2> QED BY <2>1 DEF Keyboard
<1>3. KeysGood(bare, syn, world) /\ HeldOnly(s, bare, d, {}) /\ bare.grp = s.grp
  <2>1. {} \in SUBSET Keycodes OBVIOUS
  <2> QED BY <2>1, HeldGood
<1>5. s.kbd[d].group # None =>
        \E f : Turns("off", s.kbd[d].group, bare, f, S) /\ Keys!ReleasePressed(s, d) = f[S]
  <2>1. IsFiniteSet(S) BY <1>2, KeyAssumption, FS_Subset
  <2> QED BY <2>1, ReleaseIs
<1>6. s.kbd[d].group = None => Keys!ReleasePressed(s, d) = bare BY DEF Keys!ReleasePressed
<1> HIDE DEF bare
<1>4. ASSUME NEW z, NEW j
      PROVE  /\ Cardinality(Holders(s, z, j)) <= Cardinality(Holders(bare, z, j)) + Left({}, z, j)
             /\ Cardinality(Holders(bare, z, j)) \in Nat /\ Cardinality(Holders(s, z, j)) \in Nat
  <2>1. \A zz, jj : Holders(bare, zz, jj) = (Holders(s, zz, jj) \ {d}) \cup (IF y = zz /\ jj \in {} THEN {d} ELSE {})
    <3> DEFINE no == {}
    <3>1. no \in SUBSET Keycodes /\ HeldOnly(s, bare, d, no) BY <1>3
    <3> HIDE DEF no
    <3>2. \A zz, jj : Holders(bare, zz, jj) = HoldersWith(s, d, no, zz, jj) BY <1>1, <3>1, HeldHolders
    <3> QED BY <3>2 DEF no, HoldersWith
  <2>2. Holders(bare, z, j) = Holders(s, z, j) \ {d} BY <2>1
  <2>3. IsFiniteSet(Holders(s, z, j)) /\ Cardinality(Holders(s, z, j)) \in Nat BY ItsFinite
  <2>4. Cardinality(Holders(s, z, j) \ {d}) = IF d \in Holders(s, z, j) THEN Cardinality(Holders(s, z, j)) - 1
                                              ELSE Cardinality(Holders(s, z, j))
    BY <2>3, FS_RemoveElement
  <2>5. d \in Holders(s, z, j) => z = y /\ j \in S BY DEF Holders, Its
  <2>6. Cardinality(Holders(bare, z, j)) \in Nat BY ItsFinite
  <2> QED BY <2>2, <2>3, <2>4, <2>5, <2>6
<1>7. CASE y = None
  <2>1. \A z \in Slot, j \in Keycodes : s.grp[z].n[j] <= Cardinality(Holders(bare, z, j))
    <3> SUFFICES ASSUME NEW z \in Slot, NEW j \in Keycodes PROVE s.grp[z].n[j] <= Cardinality(Holders(bare, z, j))
      OBVIOUS
    <3>1. z # y BY <1>7, KeyNames
    <3>2. Left({}, z, j) = 0 BY <3>1
    <3>3. s.grp[z].n[j] <= Cardinality(Holders(s, z, j)) BY DEF Counted
    <3>4. s.grp[z].n[j] \in Nat BY <1>1 DEF KeyState, Group
    <3> HIDE DEF Left
    <3> QED BY <1>4, <3>2, <3>3, <3>4
  <2>2. Counted(bare) BY <1>3, <2>1 DEF Counted
  <2> QED BY <1>3, <1>6, <1>7, <2>2
<1>8. CASE y # None
  <2>0. y \in Slot /\ s.grp[y].refs > 0 BY <1>1, <1>2, <1>8 DEF Linked, Member
  <2>1. PICK f : Turns("off", y, bare, f, S) /\ Keys!ReleasePressed(s, d) = f[S] BY <1>5, <1>8
  <2>2. /\ f[{}] = bare
        /\ \A X \in SUBSET S : X # {} => \E x \in X : f[X] = Did("off", y, x, f[X \ {x}])
    BY <2>1, TurnsGo
  <2>3. Fine(bare, {})
    <3>1. SameGrp(s, bare) BY <1>3 DEF SameGrp
    <3>2. ASSUME NEW z \in Slot, NEW j \in Keycodes
          PROVE bare.grp[z].n[j] <= Cardinality(Holders(bare, z, j)) + Left({}, z, j)
      <4>1. s.grp[z].n[j] <= Cardinality(Holders(s, z, j)) BY DEF Counted
      <4>2. s.grp[z].n[j] \in Nat BY <1>1 DEF KeyState, Group
      <4>3. Left({}, z, j) \in Nat OBVIOUS
      <4> HIDE DEF Left
      <4> QED BY <1>3, <1>4, <4>1, <4>2, <4>3
    <3> QED BY <1>3, <3>1, <3>2
  <2> DEFINE G == {X \in SUBSET S : Fine(f[X], X)}
  <2>4. ASSUME NEW X \in SUBSET S, \A x \in X : X \ {x} \in G PROVE X \in G
    <3>1. CASE X = {} BY <2>2, <2>3, <3>1
    <3>2. CASE X # {}
      <4>1. PICK x \in X : f[X] = Did("off", y, x, f[X \ {x}]) BY <2>2, <3>2
      <4> DEFINE u == f[X \ {x}]
      <4>2. Fine(u, X \ {x}) BY <2>4
      <4>3. f[X] = Keys!ProcessKey(u, y, x, FALSE) BY <4>1 DEF Did
      <4>4. x \in Keycodes /\ x \in S BY <1>2
      <4> HIDE DEF u
      <4>5. u.grp[y].refs > 0 BY <2>0, <4>2 DEF SameGrp
      <4>6. /\ KeysGood(f[X], syn, world) /\ f[X].kbd = u.kbd /\ SameGrp(u, f[X])
            /\ \A z \in Slot, j \in Keycodes : z # y \/ j # x => f[X].grp[z].n[j] = u.grp[z].n[j]
            /\ f[X].grp[y].n[x] = 0 \/ f[X].grp[y].n[x] + 1 <= u.grp[y].n[x]
        <5> DEFINE off == FALSE
        <5>1. off \in BOOLEAN /\ ~off /\ f[X] = Keys!ProcessKey(u, y, x, off) BY <4>3
        <5>2. KeysGood(u, syn, world) /\ u.grp[y].refs > 0 /\ y \in Slot BY <2>0, <4>2, <4>5
        <5> HIDE DEF off, y
        <5>3. KeyPassed(u, f[X], syn, y, x, off)
          <6>1. KeyPassed(u, Keys!ProcessKey(u, y, x, off), syn, y, x, off)
            BY <4>4, <5>1, <5>2, ProcessKeyKeeps, Zenon
          <6> QED BY <5>1, <6>1, Zenon
        <5> QED BY <5>1, <5>3 DEF KeyPassed
      <4>7. SameGrp(s, f[X]) BY <4>2, <4>6 DEF SameGrp
      <4>8. ASSUME NEW z \in Slot, NEW j \in Keycodes
            PROVE  f[X].grp[z].n[j] <= Cardinality(Holders(bare, z, j)) + Left(X, z, j)
        <5>0. u.grp[z].n[j] <= Cardinality(Holders(bare, z, j)) + Left(X \ {x}, z, j) BY <4>2
        <5>1. CASE z # y \/ j # x
          <6>1. Left(X \ {x}, z, j) = Left(X, z, j) BY <5>1
          <6>2. f[X].grp[z].n[j] = u.grp[z].n[j] BY <4>6, <5>1
          <6> QED BY <5>0, <6>1, <6>2
        <5>2. CASE z = y /\ j = x
          <6>1. Left(X \ {x}, z, j) = 1 /\ Left(X, z, j) = 0 BY <4>4, <5>2
          <6>2. f[X].grp[z].n[j] = 0 \/ f[X].grp[z].n[j] + 1 <= u.grp[z].n[j] BY <4>6, <5>2
          <6>3. u.grp[z].n[j] \in Nat /\ f[X].grp[z].n[j] \in Nat
            <7>1. u \in KeyState /\ f[X] \in KeyState BY <4>2, <4>6 DEF KeysGood
            <7> QED BY <7>1 DEF KeyState, Group
          <6>4. Cardinality(Holders(bare, z, j)) \in Nat BY ItsFinite
          <6> HIDE DEF Left
          <6> QED BY <5>0, <6>1, <6>2, <6>3, <6>4
        <5> QED BY <5>1, <5>2
      <4> QED BY <4>2, <4>6, <4>7, <4>8
    <3> QED BY <3>1, <3>2
  <2> HIDE DEF G
  <2>5. S \in G
    <3>1. IsFiniteSet(S) BY <1>2, KeyAssumption, FS_Subset
    <3>2. \A X \in SUBSET S : (\A x \in X : X \ {x} \in G) => X \in G BY <2>4
    <3> HIDE DEF S
    <3>3. \A X \in SUBSET S : X \in G BY <3>1, <3>2, SetsUp
    <3> QED BY <3>3
  <2>6. Fine(f[S], S) BY <2>5 DEF G
  <2>7. \A z \in Slot, j \in Keycodes : f[S].grp[z].n[j] <= Cardinality(Holders(bare, z, j))
    <3> SUFFICES ASSUME NEW z \in Slot, NEW j \in Keycodes PROVE f[S].grp[z].n[j] <= Cardinality(Holders(bare, z, j))
      OBVIOUS
    <3>1. f[S].grp[z].n[j] <= Cardinality(Holders(bare, z, j)) + Left(S, z, j) BY <2>6
    <3>2. Left(S, z, j) = 0 OBVIOUS
    <3>3. Cardinality(Holders(bare, z, j)) \in Nat BY ItsFinite
    <3> HIDE DEF Left
    <3> QED BY <3>1, <3>2, <3>3
  <2>8. \A z, j : Holders(f[S], z, j) = Holders(bare, z, j) BY <2>6 DEF Holders, Its
  <2>9. Counted(f[S]) BY <2>7, <2>8 DEF Counted
  <2>10. HeldOnly(s, f[S], d, {}) BY <1>3, <2>6 DEF HeldOnly
  <2> QED BY <2>1, <2>6, <2>9, <2>10
<1> QED BY <1>7, <1>8

-----------------------------------------------------------------------------
(* Groups that keyboards join and leave.                                   *)

\* All of Linked but the references, and the references while one of them is nobody's yet,
\* or nobody's any more.
Frame(s, syn) ==
    /\ syn \in [SeatNames -> Slot \cup {None}]
    /\ \A d \in Devs : Member(s, d)
    /\ Listed(s) /\ MadeUp(s, syn) /\ ActiveLives(s)
Owes(s, syn, y) ==
    \A z \in Slot : s.grp[z].refs = Cardinality(Its(s, z)) + Cardinality(MadeFor(syn, z)) + (IF z = y THEN 1 ELSE 0)

\* Counting the seats a group is made up for.
LEMMA MadeForFinite ==
  ASSUME NEW syn, NEW y
  PROVE  /\ IsFiniteSet(MadeFor(syn, y)) /\ Cardinality(MadeFor(syn, y)) \in Nat
<1>1. MadeFor(syn, y) \in SUBSET SeatNames BY DEF MadeFor
<1> QED BY <1>1, KeyNames, FS_Subset, FS_CardinalityType

\* Linked, from its parts.
LEMMA LinkedIs ==
  ASSUME NEW s, NEW syn
  PROVE  Linked(s, syn) <=> Frame(s, syn) /\ Owes(s, syn, None)
<1>1. ASSUME NEW z \in Slot
      PROVE  Cardinality(Its(s, z)) + Cardinality(MadeFor(syn, z))
             = Cardinality(Its(s, z)) + Cardinality(MadeFor(syn, z)) + (IF z = None THEN 1 ELSE 0)
  <2>1. z # None BY KeyNames
  <2>2. Cardinality(Its(s, z)) \in Nat /\ Cardinality(MadeFor(syn, z)) \in Nat BY ItsFinite, MadeForFinite
  <2> QED BY <2>1, <2>2
<1>2. Referred(s, syn) <=> Owes(s, syn, None) BY <1>1 DEF Referred, Owes
<1> QED BY <1>2 DEF Linked, Frame

\* A group no keyboard is in, and that is made up for no seat.
LEMMA NobodysIs ==
  ASSUME NEW s, NEW syn, NEW y
  PROVE  Cardinality(Its(s, y)) + Cardinality(MadeFor(syn, y)) = 0 <=> Its(s, y) = {} /\ MadeFor(syn, y) = {}
<1>1. /\ IsFiniteSet(Its(s, y)) /\ Cardinality(Its(s, y)) \in Nat
      /\ IsFiniteSet(MadeFor(syn, y)) /\ Cardinality(MadeFor(syn, y)) \in Nat
  BY ItsFinite, MadeForFinite
<1>2. Cardinality(Its(s, y)) = 0 <=> Its(s, y) = {} BY <1>1, FS_EmptySet
<1>3. Cardinality(MadeFor(syn, y)) = 0 <=> MadeFor(syn, y) = {} BY <1>1, FS_EmptySet
<1> QED BY <1>1, <1>2, <1>3

\* The count of a group's references changes.
RefsAs(s, y, cnt) == [s EXCEPT !.grp[y].refs = cnt]
RefsIs(s, r, y, cnt) ==
    /\ r \in KeyState /\ r.kbd = s.kbd /\ r.order = s.order /\ r.active = s.active /\ r.entered = s.entered
    /\ r.told = s.told /\ r.listed = s.listed /\ r.shortcuts = s.shortcuts /\ r.imKeys = s.imKeys
    /\ r.grp[y].refs = cnt /\ r.grp = [s.grp EXCEPT ![y] = [s.grp[y] EXCEPT !.refs = cnt]]
    /\ \A z \in Slot : /\ z # y => r.grp[z].refs = s.grp[z].refs
                       /\ r.grp[z].seat = s.grp[z].seat /\ r.grp[z].virtual = s.grp[z].virtual
                       /\ r.grp[z].cfg = s.grp[z].cfg /\ r.grp[z].by = s.grp[z].by /\ r.grp[z].n = s.grp[z].n

\* A change of the references is of one group, and of nothing else of it.
LEMMA RefsAre ==
  ASSUME NEW s \in KeyState, NEW y \in Slot, NEW cnt \in Nat
  PROVE  RefsIs(s, RefsAs(s, y, cnt), y, cnt)
<1> DEFINE v == [s.grp[y] EXCEPT !.refs = cnt]
           gr == [s.grp EXCEPT ![y] = v]
           r == RefsAs(s, y, cnt)
<1>1. s.grp \in [Slot -> Group] /\ s.grp[y] \in Group BY DEF KeyState
<1>2. /\ v \in Group /\ v.refs = cnt /\ v.seat = s.grp[y].seat /\ v.virtual = s.grp[y].virtual
      /\ v.cfg = s.grp[y].cfg /\ v.by = s.grp[y].by /\ v.n = s.grp[y].n
  BY <1>1 DEF Group
<1>3. r = [s EXCEPT !.grp = gr] BY DEF RefsAs
<1> HIDE DEF v
<1>4. gr \in [Slot -> Group] /\ gr[y] = v /\ \A z \in Slot : z # y => gr[z] = s.grp[z] BY <1>1, <1>2
<1> HIDE DEF gr, r
<1>5. r \in KeyState BY <1>3, <1>4 DEF KeyState
<1>6. /\ r.grp = gr /\ r.kbd = s.kbd /\ r.order = s.order /\ r.active = s.active /\ r.entered = s.entered
      /\ r.told = s.told /\ r.listed = s.listed /\ r.shortcuts = s.shortcuts /\ r.imKeys = s.imKeys
  BY <1>3 DEF KeyState
<1>7. ASSUME NEW z \in Slot
      PROVE  /\ z # y => r.grp[z].refs = s.grp[z].refs
             /\ r.grp[z].seat = s.grp[z].seat /\ r.grp[z].virtual = s.grp[z].virtual
             /\ r.grp[z].cfg = s.grp[z].cfg /\ r.grp[z].by = s.grp[z].by /\ r.grp[z].n = s.grp[z].n
  <2>1. CASE z = y BY <1>2, <1>4, <1>6, <2>1
  <2>2. CASE z # y BY <1>4, <1>6, <2>2
  <2> QED BY <2>1, <2>2
<1>8. r.grp[y].refs = cnt /\ r.grp = [s.grp EXCEPT ![y] = [s.grp[y] EXCEPT !.refs = cnt]]
  BY <1>2, <1>4, <1>6 DEF v, gr
<1> QED BY <1>5, <1>6, <1>7, <1>8 DEF RefsIs, r

\* The count of the references is that of keyboards and seats again.
LEMMA RefsKeep ==
  ASSUME NEW s \in KeyState, NEW r, NEW syn, NEW wo, NEW y \in Slot, NEW cnt \in Nat, RefsIs(s, r, y, cnt),
         cnt > 0, s.grp[y].refs > 0, Frame(s, syn), Taken(s), Released(s, wo), Counted(s)
  PROVE  Frame(r, syn) /\ Taken(r) /\ Released(r, wo) /\ Counted(r) /\ \A z : Its(r, z) = Its(s, z)
<1>1. /\ r \in KeyState /\ r.kbd = s.kbd /\ r.order = s.order /\ r.active = s.active /\ r.entered = s.entered
      /\ r.told = s.told /\ r.listed = s.listed /\ r.shortcuts = s.shortcuts /\ r.imKeys = s.imKeys
      /\ \A z \in Slot : /\ z # y => r.grp[z].refs = s.grp[z].refs
                         /\ r.grp[z].seat = s.grp[z].seat /\ r.grp[z].virtual = s.grp[z].virtual
                         /\ r.grp[z].cfg = s.grp[z].cfg /\ r.grp[z].by = s.grp[z].by /\ r.grp[z].n = s.grp[z].n
  BY DEF RefsIs
<1>2. \A z \in Slot : r.grp[z].refs > 0 <=> s.grp[z].refs > 0 BY <1>1 DEF RefsIs
<1>3. \A z : Its(r, z) = Its(s, z) BY <1>1 DEF Its
<1>4. \A d \in Devs : Member(r, d)
  <2> SUFFICES ASSUME NEW d \in Devs, s.kbd[d].group # None PROVE Member(r, d) BY <1>1 DEF Member
  <2>1. Member(s, d) BY DEF Frame
  <2>2. s.kbd[d].group \in Slot BY KeyFields DEF Keyboard
  <2> QED BY <1>1, <1>2, <1>3, <2>1, <2>2 DEF Member
<1>5. Listed(r) BY <1>1, <1>2 DEF Frame, Listed
<1>6. MadeUp(r, syn)
  <2> SUFFICES ASSUME NEW e \in SeatNames, syn[e] # None
               PROVE  /\ r.grp[syn[e]].refs > 0 /\ r.grp[syn[e]].seat = e /\ r.grp[syn[e]].virtual
                      /\ r.active[e] # None /\ Its(r, syn[e]) = {}
    BY DEF MadeUp
  <2>1. syn[e] \in Slot BY DEF Frame
  <2> QED BY <1>1, <1>2, <1>3, <2>1 DEF Frame, MadeUp
<1>7. ActiveLives(r)
  <2> SUFFICES ASSUME NEW e \in SeatNames, s.active[e] # None
               PROVE  r.grp[s.active[e]].refs > 0 /\ r.grp[s.active[e]].seat = e
    BY <1>1 DEF ActiveLives
  <2>1. s.active[e] \in Slot BY KeyFields
  <2> QED BY <1>1, <1>2, <2>1 DEF Frame, ActiveLives
<1>8. Frame(r, syn) BY <1>4, <1>5, <1>6, <1>7 DEF Frame
<1>9. Taken(r) BY <1>1 DEF Taken
<1>10. \A z \in Slot : \A k, who : HoldsFor(s, z, k, who) => HoldsFor(r, z, k, who) BY <1>1, <1>2 DEF HoldsFor
<1>11. Released(r, wo) BY <1>1, <1>10 DEF Released
<1>12. \A z, k : Holders(r, z, k) = Holders(s, z, k) BY <1>1, <1>3 DEF Holders
<1>13. Counted(r) BY <1>1, <1>12 DEF Counted
<1> QED BY <1>3, <1>8, <1>9, <1>11, <1>13

\* A group's slot is free again.
LEMMA FreeIs ==
  /\ Keys!Free \in Group /\ Keys!Free.refs = 0
  /\ \A k \in Keycodes : Keys!Free.by[k] = None /\ Keys!Free.n[k] = 0
<1>1. (CHOOSE c \in Configs : TRUE) \in Configs BY KeyAssumption
<1> QED BY <1>1 DEF Keys!Free, Group, SeatNames, Takers

\* Vec::retain on the order of the groups.
LEMMA KeysDrop ==
  ASSUME NEW E, NEW l \in Seq(E), NEW x
  PROVE  Keys!Drop(l, x) \in Seq(E) /\ Elems(Keys!Drop(l, x)) = Elems(l) \ {x}
<1>1. Keys!Drop(l, x) = Only(l, Elems(l) \ {x}) BY DEF Keys!Drop, Keys!Only, Only, Elems
<1> QED BY <1>1, OnlyHolds

\* A group that nobody refers to any more counts no key, and nobody is owed its releases.
Freed(s, r, y) ==
    LET q == s.grp[y].seat IN
    /\ r \in KeyState /\ r.kbd = s.kbd /\ r.entered = s.entered
    /\ r.told = s.told /\ r.listed = s.listed /\ r.shortcuts = s.shortcuts /\ r.imKeys = s.imKeys
    /\ r.grp[y].refs = 0 /\ (\A k \in Keycodes : r.grp[y].by[k] = None /\ r.grp[y].n[k] = 0)
    /\ \A z \in Slot : z # y => r.grp[z] = s.grp[z]
    /\ Elems(r.order[q]) = Elems(s.order[q]) \ {y}
    /\ \A e \in SeatNames : e # q => r.order[e] = s.order[e] /\ r.active[e] = s.active[e]
    /\ \/ r.active[q] = s.active[q] /\ s.active[q] # y
       \/ r.active[q] = None /\ Elems(r.order[q]) = {}
       \/ r.active[q] \in Elems(r.order[q])

\* A group with no reference left goes: no keyboard is in it, so it counted no key.
LEMMA FreedKeeps ==
  ASSUME NEW s \in KeyState, NEW r, NEW syn, NEW wo, NEW y \in Slot, Freed(s, r, y), s.grp[y].refs = 1,
         Frame(s, syn), Owes(s, syn, y), Taken(s), Released(s, wo), Counted(s)
  PROVE  KeysGood(r, syn, wo) /\ Counted(r)
<1> DEFINE q == s.grp[y].seat
<1>1. r \in KeyState BY DEF Freed
<1>a. /\ r.kbd = s.kbd /\ r.entered = s.entered /\ r.told = s.told /\ r.listed = s.listed
      /\ r.shortcuts = s.shortcuts /\ r.imKeys = s.imKeys
  BY DEF Freed
<1>b. r.grp[y].refs = 0 /\ \A k \in Keycodes : r.grp[y].by[k] = None /\ r.grp[y].n[k] = 0 BY DEF Freed
<1>c. \A z \in Slot : z # y => r.grp[z] = s.grp[z] BY DEF Freed
<1>d. Elems(r.order[q]) = Elems(s.order[q]) \ {y} BY DEF Freed
<1>e. \A e \in SeatNames : e # q => r.order[e] = s.order[e] /\ r.active[e] = s.active[e] BY DEF Freed
<1>f. \/ r.active[q] = s.active[q] /\ s.active[q] # y
      \/ r.active[q] = None /\ Elems(r.order[q]) = {}
      \/ r.active[q] \in Elems(r.order[q])
  BY DEF Freed
<1>2. q \in SeatNames BY DEF KeyState, Group
<1>3. Its(s, y) = {} /\ MadeFor(syn, y) = {}
  <2>1. s.grp[y].refs = Cardinality(Its(s, y)) + Cardinality(MadeFor(syn, y)) + 1 BY DEF Owes
  <2>2. Cardinality(Its(s, y)) \in Nat /\ Cardinality(MadeFor(syn, y)) \in Nat BY ItsFinite, MadeForFinite
  <2>3. Cardinality(Its(s, y)) + Cardinality(MadeFor(syn, y)) = 0 BY <2>1, <2>2
  <2> QED BY <2>3, NobodysIs
<1>4. \A z : Its(r, z) = Its(s, z) BY <1>a DEF Its
<1>5. \A k \in Keycodes : s.grp[y].by[k] = None
  <2> SUFFICES ASSUME NEW k \in Keycodes PROVE s.grp[y].n[k] = 0 BY DEF Taken
  <2>1. Holders(s, y, k) = {} BY <1>3 DEF Holders
  <2>2. s.grp[y].n[k] <= 0 BY <2>1, FS_EmptySet DEF Counted
  <2>3. s.grp[y].n[k] \in Nat BY DEF KeyState, Group
  <2> QED BY <2>2, <2>3
<1>6. \A d \in Devs : Member(r, d)
  <2> SUFFICES ASSUME NEW d \in Devs, s.kbd[d].group # None PROVE Member(r, d) BY <1>a DEF Member
  <2>1. Member(s, d) BY DEF Frame
  <2>2. s.kbd[d].group \in Slot BY KeyFields DEF Keyboard
  <2>3. s.kbd[d].group # y BY <1>3 DEF Its
  <2>4. r.kbd[d] = s.kbd[d] /\ r.grp[s.kbd[d].group] = s.grp[s.kbd[d].group] BY <1>a, <1>c, <2>2, <2>3
  <2>5. Its(r, s.kbd[d].group) = Its(s, s.kbd[d].group) BY <1>4
  <2> QED BY <2>1, <2>4, <2>5 DEF Member
<1>7. Listed(r)
  <2> SUFFICES ASSUME NEW z \in Slot, NEW e \in SeatNames
               PROVE  z \in Elems(r.order[e]) <=> r.grp[z].refs > 0 /\ r.grp[z].seat = e
    BY DEF Listed
  <2>0. z \in Elems(s.order[e]) <=> s.grp[z].refs > 0 /\ s.grp[z].seat = e BY DEF Frame, Listed
  <2>1. CASE z = y
    <3>1. z \notin Elems(r.order[e])
      <4>1. CASE e = q BY <1>d, <2>1, <4>1
      <4>2. CASE e # q BY <1>e, <2>0, <2>1, <4>2
      <4> QED BY <4>1, <4>2
    <3>2. ~(r.grp[z].refs > 0) BY <1>b, <2>1
    <3> QED BY <3>1, <3>2
  <2>2. CASE z # y
    <3>1. r.grp[z] = s.grp[z] BY <1>c, <2>2
    <3>2. z \in Elems(r.order[e]) <=> z \in Elems(s.order[e])
      <4>1. CASE e = q BY <1>d, <2>2, <4>1
      <4>2. CASE e # q BY <1>e, <4>2
      <4> QED BY <4>1, <4>2
    <3> QED BY <2>0, <3>1, <3>2
  <2> QED BY <2>1, <2>2
<1>8. Referred(r, syn)
  <2> SUFFICES ASSUME NEW z \in Slot PROVE r.grp[z].refs = Cardinality(Its(r, z)) + Cardinality(MadeFor(syn, z))
    BY DEF Referred
  <2>2. Cardinality(Its(s, z)) \in Nat /\ Cardinality(MadeFor(syn, z)) \in Nat BY ItsFinite, MadeForFinite
  <2>3. s.grp[z].refs = Cardinality(Its(s, z)) + Cardinality(MadeFor(syn, z)) + (IF z = y THEN 1 ELSE 0) BY DEF Owes
  <2>4. CASE z = y BY <1>b, <1>4, <1>3, <2>4, FS_EmptySet
  <2>5. CASE z # y BY <1>c, <1>4, <2>2, <2>3, <2>5
  <2> QED BY <2>4, <2>5
<1>9. ASSUME NEW e \in SeatNames, syn[e] # None
      PROVE  syn[e] \in Slot /\ syn[e] # y /\ s.grp[syn[e]].refs > 0 /\ s.grp[syn[e]].seat = e
  <2>1. syn[e] \in Slot BY <1>9 DEF Frame
  <2>2. syn[e] # y BY <1>3 DEF MadeFor
  <2> QED BY <1>9, <2>1, <2>2 DEF Frame, MadeUp
<1>10. MadeUp(r, syn)
  <2> SUFFICES ASSUME NEW e \in SeatNames, syn[e] # None
               PROVE  /\ r.grp[syn[e]].refs > 0 /\ r.grp[syn[e]].seat = e /\ r.grp[syn[e]].virtual
                      /\ r.active[e] # None /\ Its(r, syn[e]) = {}
    BY DEF MadeUp
  <2>1. r.grp[syn[e]] = s.grp[syn[e]] BY <1>c, <1>9
  <2>2. s.active[e] # None /\ s.grp[syn[e]].virtual /\ Its(s, syn[e]) = {} BY DEF Frame, MadeUp
  <2>3. r.active[e] # None
    <3>1. CASE e # q BY <1>e, <2>2, <3>1
    <3>2. CASE e = q
      <4>1. syn[e] \in Elems(s.order[e]) BY <1>9 DEF Frame, Listed
      <4>2. syn[e] \in Elems(r.order[q]) BY <1>d, <1>9, <3>2, <4>1
      <4>3. Elems(r.order[q]) \subseteq Slot
        <5>1. r.order[q] \in Seq(Slot) BY <1>1, <1>2 DEF KeyState
        <5> QED BY <5>1 DEF Elems
      <4> QED BY <1>f, <2>2, <3>2, <4>2, <4>3, KeyNames
    <3> QED BY <3>1, <3>2
  <2> QED BY <1>4, <1>9, <2>1, <2>2, <2>3
<1>11. ActiveLives(r)
  <2> SUFFICES ASSUME NEW e \in SeatNames, r.active[e] # None
               PROVE  r.grp[r.active[e]].refs > 0 /\ r.grp[r.active[e]].seat = e
    BY DEF ActiveLives
  <2>0. r.active[e] \in Slot BY <1>1, KeyFields
  <2>1. CASE r.active[e] = s.active[e] /\ s.active[e] # y BY <1>c, <2>0, <2>1 DEF Frame, ActiveLives
  <2>2. CASE e # q
    <3>1. r.active[e] = s.active[e] BY <1>e, <2>2
    <3>2. s.grp[s.active[e]].seat = e BY <3>1 DEF Frame, ActiveLives
    <3>3. s.active[e] # y BY <2>2, <3>2
    <3> QED BY <2>1, <3>1, <3>3
  <2>3. CASE e = q /\ r.active[q] \in Elems(r.order[q]) BY <1>7, <2>0, <2>3 DEF Listed
  <2> QED
    <3>1. CASE e = q /\ ~(r.active[q] = s.active[q] /\ s.active[q] # y) BY <1>f, <2>3, <3>1
    <3> QED BY <2>1, <2>2, <3>1
<1>12. \A z \in Slot : \A k \in Keycodes, who \in Takers : HoldsFor(s, z, k, who) => HoldsFor(r, z, k, who) /\ r.grp[z] = s.grp[z]
  <2> SUFFICES ASSUME NEW z \in Slot, NEW k \in Keycodes, NEW who \in Takers, HoldsFor(s, z, k, who)
               PROVE  HoldsFor(r, z, k, who) /\ r.grp[z] = s.grp[z]
    OBVIOUS
  <2>1. z # y BY <1>5, KeyNames DEF HoldsFor
  <2> QED BY <1>c, <2>1 DEF HoldsFor
<1>13. Released(r, wo)
  <2>1. {"focus", "grab", "portal"} \subseteq Takers BY DEF Takers
  <2>2. /\ \A e \in SeatNames : s.told[e] \subseteq Keycodes
        /\ s.imKeys \subseteq Keycodes /\ s.shortcuts \subseteq Keycodes
    BY DEF KeyState
  <2>3. ASSUME NEW e \in SeatNames, NEW k \in r.told[e] \ r.listed[e]
        PROVE  \E z \in Slot : HoldsFor(r, z, k, "focus") /\ r.grp[z].seat = e
    <3>1. PICK z \in Slot : HoldsFor(s, z, k, "focus") /\ s.grp[z].seat = e BY <1>a DEF Released
    <3>2. k \in Keycodes BY <1>a, <2>2
    <3> QED BY <1>12, <2>1, <3>1, <3>2
  <2>4. ASSUME NEW k \in r.imKeys PROVE \E z \in Slot : HoldsFor(r, z, k, "grab")
    <3>1. PICK z \in Slot : HoldsFor(s, z, k, "grab") BY <1>a DEF Released
    <3>2. k \in Keycodes BY <1>a, <2>2
    <3> QED BY <1>12, <2>1, <3>1, <3>2
  <2>5. ASSUME NEW k \in r.shortcuts PROVE \E z \in Slot : HoldsFor(r, z, k, "portal")
    <3>1. PICK z \in Slot : HoldsFor(s, z, k, "portal") BY <1>a DEF Released
    <3>2. k \in Keycodes BY <1>a, <2>2
    <3> QED BY <1>12, <2>1, <3>1, <3>2
  <2>6. /\ \A e \in SeatNames : r.entered[e] = None => r.told[e] = {}
        /\ ~wo.grab => r.imKeys = {}
    BY <1>a DEF Released
  <2> QED BY <2>3, <2>4, <2>5, <2>6 DEF Released
<1>14. Taken(r)
  <2> SUFFICES ASSUME NEW z \in Slot, NEW k \in Keycodes PROVE r.grp[z].by[k] = None <=> r.grp[z].n[k] = 0
    BY DEF Taken
  <2>1. CASE z = y BY <1>b, <2>1
  <2>2. CASE z # y BY <1>c, <2>2 DEF Taken
  <2> QED BY <2>1, <2>2
<1>15. Counted(r)
  <2> SUFFICES ASSUME NEW z \in Slot, NEW k \in Keycodes PROVE r.grp[z].n[k] <= Cardinality(Holders(r, z, k))
    BY DEF Counted
  <2>0. Cardinality(Holders(r, z, k)) \in Nat BY ItsFinite
  <2>1. CASE z = y BY <1>b, <2>0, <2>1
  <2>2. CASE z # y
    <3>1. Holders(r, z, k) = Holders(s, z, k) BY <1>a, <1>4 DEF Holders
    <3> QED BY <1>c, <2>2, <3>1 DEF Counted
  <2> QED BY <2>1, <2>2
<1>16. syn \in [SeatNames -> Slot \cup {None}] BY DEF Frame
<1> QED BY <1>1, <1>6, <1>7, <1>8, <1>10, <1>11, <1>13, <1>14, <1>15, <1>16 DEF KeysGood, Linked

\* KeyboardGroup::unref.
LEMMA UnrefKeeps ==
  ASSUME NEW s \in KeyState, NEW syn, NEW wo, NEW y \in Slot,
         Frame(s, syn), Owes(s, syn, y), Taken(s), Released(s, wo), Counted(s)
  PROVE  LET r == Keys!Unref(s, y) IN KeysGood(r, syn, wo) /\ Counted(r) /\ r.kbd = s.kbd
<1> DEFINE q == s.grp[y].seat
           left == Keys!Drop(s.order[q], y)
           r == Keys!Unref(s, y)
<1>1. q \in SeatNames /\ s.grp[y].refs \in Nat BY DEF KeyState, Group
<1>2. s.order \in [SeatNames -> Seq(Slot)] BY DEF KeyState
<1>3. left \in Seq(Slot) /\ Elems(left) = Elems(s.order[q]) \ {y} BY <1>1, <1>2, KeysDrop
<1>4. \A z \in Slot : /\ Cardinality(Its(s, z)) \in Nat /\ Cardinality(MadeFor(syn, z)) \in Nat
                      /\ s.grp[z].refs = Cardinality(Its(s, z)) + Cardinality(MadeFor(syn, z)) + (IF z = y THEN 1 ELSE 0)
  BY ItsFinite, MadeForFinite DEF Owes
<1>5. s.grp[y].refs >= 1 BY <1>1, <1>4
<1>6. CASE s.grp[y].refs > 1
  <2> DEFINE cnt == s.grp[y].refs - 1
  <2>1. r = RefsAs(s, y, cnt) BY <1>6, Zenon DEF Keys!Unref, RefsAs
  <2>2. cnt \in Nat /\ cnt > 0 /\ s.grp[y].refs > 0 /\ s.grp[y].refs = cnt + 1 BY <1>1, <1>6
  <2> HIDE DEF cnt, r
  <2>3. RefsIs(s, r, y, cnt) BY <2>1, <2>2, RefsAre
  <2>4. Frame(r, syn) /\ Taken(r) /\ Released(r, wo) /\ Counted(r) /\ \A z : Its(r, z) = Its(s, z)
    BY <2>2, <2>3, RefsKeep
  <2>5. Referred(r, syn)
    <3> SUFFICES ASSUME NEW z \in Slot PROVE r.grp[z].refs = Cardinality(Its(r, z)) + Cardinality(MadeFor(syn, z))
      BY DEF Referred
    <3>1. CASE z = y
      <4>1. r.grp[y].refs = cnt BY <2>3 DEF RefsIs
      <4>2. s.grp[y].refs = Cardinality(Its(s, y)) + Cardinality(MadeFor(syn, y)) + 1 BY <1>4
      <4>3. Cardinality(Its(s, y)) \in Nat /\ Cardinality(MadeFor(syn, y)) \in Nat BY <1>4
      <4>4. cnt = Cardinality(Its(s, y)) + Cardinality(MadeFor(syn, y)) BY <2>2, <4>2, <4>3
      <4> QED BY <2>4, <3>1, <4>1, <4>4
    <3>2. CASE z # y
      <4>1. r.grp[z].refs = s.grp[z].refs BY <2>3, <3>2 DEF RefsIs
      <4>2. s.grp[z].refs = Cardinality(Its(s, z)) + Cardinality(MadeFor(syn, z)) BY <1>4, <3>2
      <4> QED BY <2>4, <4>1, <4>2
    <3> QED BY <3>1, <3>2
  <2>6. r \in KeyState /\ r.kbd = s.kbd BY <2>3 DEF RefsIs
  <2> QED BY <2>4, <2>5, <2>6 DEF KeysGood, Linked, Frame, r
<1>7. CASE s.grp[y].refs = 1
  <2> DEFINE gone == [s EXCEPT !.order[q] = left]
             goes == IF left = <<>> THEN None ELSE Head(left)
             nx == IF s.active[q] # y THEN gone ELSE Keys!SetKeyboard(gone, q, goes)
  <2>1. r = [nx EXCEPT !.grp[y] = Keys!Free] BY <1>7 DEF Keys!Unref
  <2>2. goes \in Slot \cup {None} /\ ((goes = None /\ Elems(left) = {}) \/ goes \in Elems(left))
    <3>1. CASE left = <<>>
      <4>1. Elems(left) = {} BY <3>1 DEF Elems
      <4> QED BY <3>1, <4>1
    <3>2. CASE left # <<>>
      <4>1. Len(left) \in Nat /\ Len(left) # 0 /\ DOMAIN left = 1..Len(left) BY <1>3, <3>2
      <4>2. 1 \in DOMAIN left /\ Head(left) = left[1] BY <1>3, <3>2, <4>1
      <4>3. Head(left) \in Slot BY <1>3, <3>2
      <4>4. Head(left) \in Elems(left) BY <4>2 DEF Elems
      <4> QED BY <3>2, <4>3, <4>4
    <3> QED BY <3>1, <3>2
  <2> HIDE DEF left, goes, r
  <2>3. gone \in KeyState
    <3>1. [s.order EXCEPT ![q] = left] \in [SeatNames -> Seq(Slot)] BY <1>1, <1>2, <1>3
    <3> QED BY <3>1 DEF KeyState
  <2>4. /\ gone.kbd = s.kbd /\ gone.grp = s.grp /\ gone.active = s.active /\ gone.entered = s.entered
        /\ gone.told = s.told /\ gone.listed = s.listed /\ gone.shortcuts = s.shortcuts /\ gone.imKeys = s.imKeys
        /\ gone.order = [s.order EXCEPT ![q] = left]
    BY DEF KeyState
  <2>5. s.active[q] = y => nx = Keys!SetKeyboard(gone, q, goes) OBVIOUS
  <2>6. s.active[q] # y => nx = gone OBVIOUS
  <2> HIDE DEF gone, nx
  <2>7. SetTo(gone, Keys!SetKeyboard(gone, q, goes), q, goes) BY <1>1, <2>2, <2>3, SetKeyboardIs
  <2>8. /\ nx \in KeyState /\ nx.kbd = s.kbd /\ nx.grp = s.grp /\ nx.entered = s.entered
        /\ nx.told = s.told /\ nx.listed = s.listed /\ nx.shortcuts = s.shortcuts /\ nx.imKeys = s.imKeys
        /\ nx.order = [s.order EXCEPT ![q] = left]
        /\ IF s.active[q] = y THEN nx.active = [s.active EXCEPT ![q] = goes] ELSE nx.active = s.active
    <3>1. CASE s.active[q] = y BY <2>4, <2>5, <2>7, <3>1 DEF SetTo
    <3>2. CASE s.active[q] # y BY <2>3, <2>4, <2>6, <3>2
    <3> QED BY <3>1, <3>2
  <2> DEFINE gr == [s.grp EXCEPT ![y] = Keys!Free]
  <2>9. gr \in [Slot -> Group] /\ gr[y] = Keys!Free /\ \A z \in Slot : z # y => gr[z] = s.grp[z]
    BY FreeIs DEF KeyState
  <2>10. r = [nx EXCEPT !.grp = gr] BY <2>1, <2>8
  <2> HIDE DEF gr
  <2>11. r \in KeyState BY <2>8, <2>9, <2>10 DEF KeyState
  <2>12. /\ r.kbd = s.kbd /\ r.grp = gr /\ r.entered = s.entered
         /\ r.told = s.told /\ r.listed = s.listed /\ r.shortcuts = s.shortcuts /\ r.imKeys = s.imKeys
         /\ r.order = nx.order /\ r.active = nx.active
    BY <2>8, <2>10 DEF KeyState
  <2>13. s.active \in [SeatNames -> Slot \cup {None}] BY DEF KeyState
  <2>14. r.order[q] = left /\ \A e \in SeatNames : e # q => r.order[e] = s.order[e]
    BY <1>1, <1>2, <2>8, <2>12
  <2>15. \A e \in SeatNames : e # q => r.active[e] = s.active[e]
    BY <2>8, <2>12, <2>13
  <2>16. \/ r.active[q] = s.active[q] /\ s.active[q] # y
         \/ r.active[q] = None /\ Elems(r.order[q]) = {}
         \/ r.active[q] \in Elems(r.order[q])
    <3>1. CASE s.active[q] # y BY <2>8, <2>12, <3>1
    <3>2. CASE s.active[q] = y
      <4>1. r.active[q] = goes BY <1>1, <2>8, <2>12, <2>13, <3>2
      <4> QED BY <2>2, <2>14, <4>1
    <3> QED BY <3>1, <3>2
  <2>17. Freed(s, r, y) BY <1>3, <2>9, <2>11, <2>12, <2>14, <2>15, <2>16, FreeIs DEF Freed
  <2>18. KeysGood(r, syn, wo) /\ Counted(r) BY <1>7, <2>17, FreedKeeps
  <2> QED BY <2>12, <2>18 DEF r
<1> QED BY <1>1, <1>5, <1>6, <1>7

\* One keyboard changes.
KbdAs(s, d, v) == [s EXCEPT !.kbd[d] = v]
OneKbd(s, r, d, v) ==
    /\ r \in KeyState /\ r.kbd[d] = v /\ \A e \in Devs : e # d => r.kbd[e] = s.kbd[e]
    /\ r.grp = s.grp /\ r.order = s.order /\ r.active = s.active /\ r.entered = s.entered
    /\ r.told = s.told /\ r.listed = s.listed /\ r.shortcuts = s.shortcuts /\ r.imKeys = s.imKeys

\* Such a change is of that keyboard.
LEMMA KbdIs ==
  ASSUME NEW s \in KeyState, NEW d \in Devs, NEW v \in Keyboard
  PROVE  OneKbd(s, KbdAs(s, d, v), d, v)
<1> DEFINE kb == [s.kbd EXCEPT ![d] = v]
           r == KbdAs(s, d, v)
<1>1. s.kbd \in [Devs -> Keyboard] BY DEF KeyState
<1>2. kb \in [Devs -> Keyboard] /\ kb[d] = v /\ \A e \in Devs : e # d => kb[e] = s.kbd[e] BY <1>1
<1>3. r = [s EXCEPT !.kbd = kb] BY DEF KbdAs
<1> HIDE DEF kb, r
<1>4. r \in KeyState BY <1>2, <1>3 DEF KeyState
<1>5. /\ r.kbd = kb /\ r.grp = s.grp /\ r.order = s.order /\ r.active = s.active /\ r.entered = s.entered
      /\ r.told = s.told /\ r.listed = s.listed /\ r.shortcuts = s.shortcuts /\ r.imKeys = s.imKeys
  BY <1>3 DEF KeyState
<1> QED BY <1>2, <1>4, <1>5 DEF OneKbd, r

\* It changes the keyboards of a group by that one alone.
LEMMA OneKbdIts ==
  ASSUME NEW s, NEW r, NEW d \in Devs, NEW v, OneKbd(s, r, d, v), NEW z
  PROVE  Its(r, z) = (Its(s, z) \ {d}) \cup (IF v.group = z THEN {d} ELSE {})
BY DEF OneKbd, Its

\* A keyboard that belongs to no group, before and after, is of no matter to groups.
LEMMA AloneKeeps ==
  ASSUME NEW s, NEW r, NEW syn, NEW wo, KeysGood(s, syn, wo), Counted(s), NEW d \in Devs, NEW v, OneKbd(s, r, d, v),
         s.kbd[d].group = None, v.group = None
  PROVE  KeysGood(r, syn, wo) /\ Counted(r)
<1>1. s \in KeyState /\ Released(s, wo) BY DEF KeysGood
<1>2. SameKbd(s, r) BY DEF SameKbd, OneKbd
<1>3. Released(r, wo) BY <1>1 DEF Released, OneKbd, HoldsFor
<1>4. KeysGood(r, syn, wo) /\ \A z : Its(r, z) = Its(s, z) BY <1>2, <1>3, GoodStill DEF OneKbd
<1>5. ASSUME NEW z \in Slot, NEW k PROVE Holders(r, z, k) = Holders(s, z, k)
  <2>1. d \notin Its(s, z) /\ Its(r, z) = Its(s, z) BY <1>4, KeyNames DEF Its
  <2>2. Its(s, z) \subseteq Devs BY DEF Its
  <2> QED BY <2>1, <2>2 DEF Holders, OneKbd
<1>6. Counted(r)
  <2>1. r.grp = s.grp BY DEF OneKbd
  <2> QED BY <1>5, <2>1 DEF Counted
<1> QED BY <1>4, <1>6

\* A keyboard that holds nothing out of its group, which has a reference too many then.
LEMMA OutKeeps ==
  ASSUME NEW s, NEW r, NEW syn, NEW wo, KeysGood(s, syn, wo), Counted(s), NEW d \in Devs, NEW v, OneKbd(s, r, d, v),
         s.kbd[d].held = {}, s.kbd[d].group # None, v.group = None
  PROVE  Frame(r, syn) /\ Owes(r, syn, s.kbd[d].group) /\ Taken(r) /\ Released(r, wo) /\ Counted(r)
<1> DEFINE y == s.kbd[d].group
<1>1. s \in KeyState /\ Linked(s, syn) /\ Taken(s) /\ Released(s, wo) BY DEF KeysGood
<1>2. /\ r \in KeyState /\ r.kbd[d] = v /\ \A e \in Devs : e # d => r.kbd[e] = s.kbd[e]
      /\ r.grp = s.grp /\ r.order = s.order /\ r.active = s.active /\ r.entered = s.entered
      /\ r.told = s.told /\ r.listed = s.listed /\ r.shortcuts = s.shortcuts /\ r.imKeys = s.imKeys
  BY DEF OneKbd
<1>3. y \in Slot
  <2>1. s.kbd[d] \in Keyboard BY <1>1, KeyFields
  <2> QED BY <2>1 DEF Keyboard
<1>4. ASSUME NEW z \in Slot PROVE Its(r, z) = Its(s, z) \ {d}
  <2>1. v.group # z BY KeyNames
  <2> QED BY <2>1, OneKbdIts
<1>5. \A e \in Devs : Member(r, e)
  <2> SUFFICES ASSUME NEW e \in Devs, r.kbd[e].group # None PROVE Member(r, e) BY DEF Member
  <2>1. e # d /\ r.kbd[e] = s.kbd[e] BY <1>2
  <2>2. Member(s, e) BY <1>1 DEF Linked
  <2>3. s.kbd[e].group \in Slot
    <3>1. s.kbd[e] \in Keyboard BY <1>1, KeyFields
    <3> QED BY <2>1, <3>1 DEF Keyboard
  <2>4. Its(r, s.kbd[e].group) = Its(s, s.kbd[e].group) \ {d} BY <1>4, <2>3
  <2> QED BY <1>2, <2>1, <2>2, <2>4 DEF Member
<1>6. Owes(r, syn, y)
  <2> SUFFICES ASSUME NEW z \in Slot
               PROVE  s.grp[z].refs = Cardinality(Its(r, z)) + Cardinality(MadeFor(syn, z)) + (IF z = y THEN 1 ELSE 0)
    BY <1>2 DEF Owes
  <2>1. s.grp[z].refs = Cardinality(Its(s, z)) + Cardinality(MadeFor(syn, z)) BY <1>1 DEF Linked, Referred
  <2>2. IsFiniteSet(Its(s, z)) /\ Cardinality(Its(s, z)) \in Nat /\ Cardinality(MadeFor(syn, z)) \in Nat
    BY ItsFinite, MadeForFinite
  <2>3. Cardinality(Its(s, z) \ {d}) = IF d \in Its(s, z) THEN Cardinality(Its(s, z)) - 1 ELSE Cardinality(Its(s, z))
    BY <2>2, FS_RemoveElement
  <2>4. d \in Its(s, z) <=> z = y BY DEF Its
  <2>5. Cardinality(Its(r, z)) = IF z = y THEN Cardinality(Its(s, z)) - 1 ELSE Cardinality(Its(s, z))
    BY <1>4, <2>3, <2>4
  <2> QED BY <2>1, <2>2, <2>5
<1>7. Frame(r, syn)
  <2>1. Listed(r) /\ ActiveLives(r) BY <1>1, <1>2 DEF Linked, Listed, ActiveLives
  <2>2. MadeUp(r, syn)
    <3> SUFFICES ASSUME NEW e \in SeatNames, syn[e] # None
                 PROVE  /\ r.grp[syn[e]].refs > 0 /\ r.grp[syn[e]].seat = e /\ r.grp[syn[e]].virtual
                        /\ r.active[e] # None /\ Its(r, syn[e]) = {}
      BY DEF MadeUp
    <3>1. syn[e] \in Slot BY <1>1 DEF Linked
    <3>2. /\ s.grp[syn[e]].refs > 0 /\ s.grp[syn[e]].seat = e /\ s.grp[syn[e]].virtual
          /\ s.active[e] # None /\ Its(s, syn[e]) = {}
      BY <1>1 DEF Linked, MadeUp
    <3>3. Its(r, syn[e]) = {} BY <1>4, <3>1, <3>2
    <3> QED BY <1>2, <3>2, <3>3
  <2> QED BY <1>1, <1>5, <2>1, <2>2 DEF Linked, Frame
<1>8. Taken(r) /\ Released(r, wo) BY <1>1, <1>2 DEF Taken, Released, HoldsFor
<1>9. ASSUME NEW z \in Slot, NEW k PROVE Holders(r, z, k) = Holders(s, z, k)
  <2>1. d \notin Holders(s, z, k) /\ Its(s, z) \subseteq Devs BY DEF Holders, Its
  <2>2. d \notin Holders(r, z, k) BY <1>4 DEF Holders
  <2>3. ASSUME NEW e, e # d PROVE e \in Holders(r, z, k) <=> e \in Holders(s, z, k)
    <3>1. e \in Its(r, z) <=> e \in Its(s, z) BY <1>4, <2>3
    <3> QED BY <1>2, <2>1, <2>3, <3>1 DEF Holders
  <2> QED BY <2>1, <2>2, <2>3
<1>10. Counted(r) BY <1>2, <1>9 DEF Counted
<1> QED BY <1>6, <1>7, <1>8, <1>10

\* Keyboard::leave_group, with no keys.
Moved(s, r, d, q, y) ==
    /\ \A e \in Devs : e # d => r.kbd[e] = s.kbd[e]
    /\ r.kbd[d].seat = q /\ r.kbd[d].group = y
    /\ r.kbd[d].plugged = s.kbd[d].plugged /\ r.kbd[d].cfg = s.kbd[d].cfg
    /\ r.kbd[d].held = s.kbd[d].held /\ r.kbd[d].down = s.kbd[d].down

\* A keyboard that holds nothing leaves its group.
LEMMA LeaveGroupKeeps ==
  ASSUME NEW s, NEW syn, NEW wo, KeysGood(s, syn, wo), Counted(s), NEW d \in Devs, s.kbd[d].held = {}
  PROVE  LET r == Keys!LeaveGroup(s, d) IN
         KeysGood(r, syn, wo) /\ Counted(r) /\ Moved(s, r, d, s.kbd[d].seat, None)
<1> DEFINE y == s.kbd[d].group
           v1 == [s.kbd[d] EXCEPT !.held = {}]
           sa == KbdAs(s, d, v1)
           v2 == [sa.kbd[d] EXCEPT !.group = None]
           u == KbdAs(sa, d, v2)
           r == Keys!LeaveGroup(s, d)
<1>1. s \in KeyState /\ s.kbd[d] \in Keyboard BY KeyFields DEF KeysGood
<1>2. CASE y = None
  <2>1. r = s BY <1>2 DEF Keys!LeaveGroup
  <2>2. Moved(s, s, d, s.kbd[d].seat, None) BY <1>2 DEF Moved
  <2> QED BY <2>1, <2>2
<1>3. CASE y # None
  <2>1. r = Keys!Unref(u, y) BY <1>3 DEF Keys!LeaveGroup, KbdAs
  <2>2. v1 \in Keyboard /\ v1 = s.kbd[d] BY <1>1 DEF Keyboard
  <2> HIDE DEF v1
  <2>3. OneKbd(s, sa, d, v1) BY <1>1, <2>2, KbdIs
  <2>4. sa \in KeyState /\ sa.kbd[d] = s.kbd[d] BY <2>2, <2>3 DEF OneKbd
  <2> HIDE DEF sa
  <2>5. /\ v2 \in Keyboard /\ v2.group = None /\ v2.seat = s.kbd[d].seat /\ v2.plugged = s.kbd[d].plugged
        /\ v2.cfg = s.kbd[d].cfg /\ v2.held = s.kbd[d].held /\ v2.down = s.kbd[d].down
    BY <1>1, <2>4 DEF Keyboard
  <2> HIDE DEF v2
  <2>6. OneKbd(sa, u, d, v2) BY <2>4, <2>5, KbdIs
  <2> HIDE DEF u
  <2>7. OneKbd(s, u, d, v2) BY <2>3, <2>6 DEF OneKbd
  <2>8. Frame(u, syn) /\ Owes(u, syn, y) /\ Taken(u) /\ Released(u, wo) /\ Counted(u)
    BY <1>3, <2>5, <2>7, OutKeeps
  <2>9. u \in KeyState /\ y \in Slot BY <1>1, <1>3, <2>7 DEF OneKbd, Keyboard
  <2> HIDE DEF r
  <2>10. KeysGood(r, syn, wo) /\ Counted(r) /\ r.kbd = u.kbd
    <3> HIDE DEF y
    <3> QED BY <2>1, <2>8, <2>9, UnrefKeeps
  <2>11. Moved(s, r, d, s.kbd[d].seat, None) BY <2>5, <2>7, <2>10 DEF OneKbd, Moved
  <2> QED BY <2>10, <2>11 DEF r
<1> QED BY <1>2, <1>3

\* A slot is free: there are more than keyboards and seats could refer to.
LEMMA FreeSlot ==
  ASSUME NEW s \in KeyState, NEW syn, Linked(s, syn), NEW x,
         (x \in Devs /\ s.kbd[x].group = None) \/ (x \in SeatNames /\ syn[x] = None)
  PROVE  LET y == Keys!NewGroup(s) IN y \in Slot /\ s.grp[y].refs = 0
<1>1. \E y \in Slot : s.grp[y].refs = 0
  <2> SUFFICES ASSUME \A y \in Slot : s.grp[y].refs # 0 PROVE FALSE OBVIOUS
  <2> DEFINE All == Devs \cup SeatNames
             T == All \ {x}
             Of(w, y) == IF w \in Devs THEN s.kbd[w].group = y ELSE syn[w] = y
             f == [y \in Slot |-> CHOOSE w \in T : Of(w, y)]
  <2>1. Devs \cap SeatNames = {} BY KeyAssumption DEF Devs, SeatNames
  <2>2. IsFiniteSet(All) /\ Cardinality(All) = Cardinality(Devs) + 2
    <3>1. Cardinality(Devs \cap SeatNames) = 0 BY <2>1, FS_EmptySet
    <3>2. Cardinality(All) = Cardinality(Devs) + Cardinality(SeatNames) - Cardinality(Devs \cap SeatNames) /\ IsFiniteSet(All)
      BY KeyNames, FS_Union
    <3> QED BY <3>1, <3>2, KeyNames
  <2>3. IsFiniteSet(T) /\ Cardinality(T) = Cardinality(Devs) + 1
    <3>1. x \in All OBVIOUS
    <3> HIDE DEF All
    <3>2. IsFiniteSet(T) /\ Cardinality(T) = Cardinality(All) - 1 BY <2>2, <3>1, FS_RemoveElement
    <3> QED BY <2>2, <3>2, KeyNames
  <2>4. IsFiniteSet(Slot) /\ Cardinality(Slot) = Cardinality(Devs) + 2
    <3>1. Slot = 1..(Cardinality(Devs) + 2) BY KeyNames DEF Slot
    <3> DEFINE dc == Cardinality(Devs)
               hi == dc + 2
    <3>2. dc \in Nat BY KeyNames
    <3> HIDE DEF dc
    <3>3. 1 \in Int /\ hi \in Int /\ 1 <= hi BY <3>2
    <3> HIDE DEF hi
    <3>4. IsFiniteSet(1..hi) /\ Cardinality(1..hi) = IF 1 > hi THEN 0 ELSE hi - 1 + 1 BY <3>3, FS_Interval
    <3> QED BY <3>1, <3>3, <3>4 DEF hi, dc
  <2>5. ASSUME NEW y \in Slot PROVE \E w \in T : Of(w, y)
    <3>1. ~(Its(s, y) = {} /\ MadeFor(syn, y) = {})
      <4>1. s.grp[y].refs = Cardinality(Its(s, y)) + Cardinality(MadeFor(syn, y)) BY DEF Linked, Referred
      <4> QED BY <4>1, NobodysIs
    <3>2. None # y BY KeyNames
    <3>3. ASSUME NEW w \in Its(s, y) PROVE w \in T /\ Of(w, y)
      <4>1. w \in Devs /\ s.kbd[w].group = y BY DEF Its
      <4>2. w # x BY <2>1, <3>2, <4>1
      <4> QED BY <4>1, <4>2
    <3>4. ASSUME NEW w \in MadeFor(syn, y) PROVE w \in T /\ Of(w, y)
      <4>1. w \in SeatNames /\ w \notin Devs /\ syn[w] = y BY <2>1 DEF MadeFor
      <4>2. w # x BY <2>1, <3>2, <4>1
      <4> QED BY <4>1, <4>2
    <3> HIDE DEF T, Of
    <3> QED BY <3>1, <3>3, <3>4
  <2>6. ASSUME NEW y \in Slot PROVE f[y] \in T /\ Of(f[y], y)
    <3> HIDE DEF T, Of
    <3> QED BY <2>5
  <2>7. f \in [Slot -> T]
    <3> HIDE DEF T, Of
    <3> QED BY <2>6
  <2>8. Cardinality(T) < Cardinality(Slot) BY <2>3, <2>4, KeyNames
  <2>9. ASSUME NEW y \in Slot, NEW z \in Slot, y # z, f[y] = f[z] PROVE FALSE
    <3> DEFINE w == f[y]
    <3>1. Of(w, y) /\ Of(w, z) BY <2>6, <2>9
    <3> HIDE DEF w
    <3> QED BY <2>9, <3>1
  <2> HIDE DEF f, T
  <2>10. \E y, z \in Slot : y # z /\ f[y] = f[z] BY <2>3, <2>4, <2>7, <2>8, FS_PigeonHole
  <2> QED BY <2>9, <2>10
<1>2. Keys!NewGroup(s) = CHOOSE y \in Slot : s.grp[y].refs = 0 BY KeyNames DEF Keys!NewGroup
<1> QED BY <1>1, <1>2

\* A group is made, and owes a reference.
LEMMA AppendHolds ==
  ASSUME NEW E, NEW l \in Seq(E), NEW x \in E
  PROVE  Append(l, x) \in Seq(E) /\ Elems(Append(l, x)) = Elems(l) \cup {x}
<1>1. /\ Append(l, x) \in Seq(E) /\ DOMAIN Append(l, x) = 1..(Len(l) + 1) /\ DOMAIN l = 1..Len(l) /\ Len(l) \in Nat
      /\ \A i \in 1..Len(l) : Append(l, x)[i] = l[i]
      /\ Append(l, x)[Len(l) + 1] = x
  OBVIOUS
<1> DEFINE r == Append(l, x)
<1> HIDE DEF r
<1>2. ASSUME NEW e \in Elems(r) PROVE e \in Elems(l) \cup {x}
  <2>1. PICK i \in 1..(Len(l) + 1) : e = r[i] BY <1>1 DEF Elems, r
  <2>2. CASE i \in 1..Len(l) BY <1>1, <2>1, <2>2 DEF Elems, r
  <2>3. CASE i = Len(l) + 1 BY <1>1, <2>1, <2>3 DEF r
  <2> QED BY <1>1, <2>2, <2>3
<1>3. ASSUME NEW e \in Elems(l) PROVE e \in Elems(r)
  <2>1. PICK i \in 1..Len(l) : e = l[i] BY <1>1 DEF Elems
  <2>2. i \in 1..(Len(l) + 1) /\ r[i] = e BY <1>1, <2>1 DEF r
  <2> QED BY <1>1, <2>2 DEF Elems, r
<1>4. x \in Elems(r)
  <2>1. Len(l) + 1 \in 1..(Len(l) + 1) BY <1>1
  <2> QED BY <1>1, <2>1 DEF Elems, r
<1>5. Elems(r) = Elems(l) \cup {x} BY <1>2, <1>3, <1>4
<1> QED BY <1>1, <1>5 DEF r

Made(s, r, q, y, cf, vt) ==
    /\ r \in KeyState /\ r.kbd = s.kbd /\ r.active = s.active /\ r.entered = s.entered
    /\ r.told = s.told /\ r.listed = s.listed /\ r.shortcuts = s.shortcuts /\ r.imKeys = s.imKeys
    /\ r.grp[y].refs = 1 /\ r.grp[y].seat = q /\ r.grp[y].virtual = vt /\ r.grp[y].cfg = cf
    /\ \A k \in Keycodes : r.grp[y].by[k] = None /\ r.grp[y].n[k] = 0
    /\ \A z \in Slot : z # y => r.grp[z] = s.grp[z]
    /\ Elems(r.order[q]) = Elems(s.order[q]) \cup {y}
    /\ \A e \in SeatNames : e # q => r.order[e] = s.order[e]

\* KeyboardGroup::create makes up a free slot for the new group.
LEMMA CreateIs ==
  ASSUME NEW s \in KeyState, NEW q \in SeatNames, NEW y \in Slot, NEW cf \in Configs, NEW vt \in BOOLEAN
  PROVE  Made(s, Keys!Create(s, q, y, cf, vt), q, y, cf, vt)
<1> DEFINE v == [Keys!Free EXCEPT !.refs = 1, !.seat = q, !.virtual = vt, !.cfg = cf]
           gr == [s.grp EXCEPT ![y] = v]
           l == Append(s.order[q], y)
           od == [s.order EXCEPT ![q] = l]
           sa == [s EXCEPT !.grp = gr]
           r == Keys!Create(s, q, y, cf, vt)
<1>1. s.grp \in [Slot -> Group] /\ s.order \in [SeatNames -> Seq(Slot)] /\ s.order[q] \in Seq(Slot) BY DEF KeyState
<1>2. /\ v \in Group /\ v.refs = 1 /\ v.seat = q /\ v.virtual = vt /\ v.cfg = cf
      /\ v.by = Keys!Free.by /\ v.n = Keys!Free.n
  BY FreeIs DEF Group
<1>3. l \in Seq(Slot) /\ Elems(l) = Elems(s.order[q]) \cup {y} BY <1>1, AppendHolds
<1>4. r = [sa EXCEPT !.order[q] = Append(sa.order[q], y)] BY DEF Keys!Create
<1> HIDE DEF v, gr, r
<1>5. sa.order = s.order BY DEF KeyState
<1>6. r = [sa EXCEPT !.order = od] BY <1>4, <1>5
<1> HIDE DEF l
<1>7. gr \in [Slot -> Group] /\ gr[y] = v /\ \A z \in Slot : z # y => gr[z] = s.grp[z] BY <1>1, <1>2 DEF gr
<1>8. od \in [SeatNames -> Seq(Slot)] /\ od[q] = l /\ \A e \in SeatNames : e # q => od[e] = s.order[e] BY <1>1, <1>3
<1> HIDE DEF od
<1>9. /\ r \in KeyState /\ r.kbd = s.kbd /\ r.active = s.active /\ r.entered = s.entered
      /\ r.told = s.told /\ r.listed = s.listed /\ r.shortcuts = s.shortcuts /\ r.imKeys = s.imKeys
      /\ r.grp = gr /\ r.order = od
  BY <1>6, <1>7, <1>8 DEF KeyState
<1> QED BY <1>2, <1>3, <1>7, <1>8, <1>9, FreeIs DEF Made, r

\* The new group is linked but for the reference it was made for.
LEMMA CreateOwes ==
  ASSUME NEW s, NEW r, NEW syn, NEW wo, KeysGood(s, syn, wo), Counted(s),
         NEW q \in SeatNames, NEW y \in Slot, NEW cf, NEW vt, s.grp[y].refs = 0, Made(s, r, q, y, cf, vt)
  PROVE  /\ Frame(r, syn) /\ Owes(r, syn, y) /\ Taken(r) /\ Released(r, wo) /\ Counted(r)
         /\ Its(r, y) = {} /\ MadeFor(syn, y) = {}
<1>1. s \in KeyState /\ Linked(s, syn) /\ Taken(s) /\ Released(s, wo) BY DEF KeysGood
<1>2. /\ r \in KeyState /\ r.kbd = s.kbd /\ r.active = s.active /\ r.entered = s.entered
      /\ r.told = s.told /\ r.listed = s.listed /\ r.shortcuts = s.shortcuts /\ r.imKeys = s.imKeys
      /\ r.grp[y].refs = 1 /\ r.grp[y].seat = q
      /\ \A k \in Keycodes : r.grp[y].by[k] = None /\ r.grp[y].n[k] = 0
      /\ \A z \in Slot : z # y => r.grp[z] = s.grp[z]
      /\ Elems(r.order[q]) = Elems(s.order[q]) \cup {y}
      /\ \A e \in SeatNames : e # q => r.order[e] = s.order[e]
  BY DEF Made
<1>3. Its(s, y) = {} /\ MadeFor(syn, y) = {}
  <2>1. Cardinality(Its(s, y)) + Cardinality(MadeFor(syn, y)) = 0 BY <1>1 DEF Linked, Referred
  <2> QED BY <2>1, NobodysIs
<1>4. \A z : Its(r, z) = Its(s, z) BY <1>2 DEF Its
<1>5. \A d \in Devs : Member(r, d)
  <2> SUFFICES ASSUME NEW d \in Devs, s.kbd[d].group # None PROVE Member(r, d) BY <1>2 DEF Member
  <2>1. Member(s, d) BY <1>1 DEF Linked
  <2>2. s.kbd[d].group \in Slot
    <3>1. s.kbd[d] \in Keyboard BY <1>1, KeyFields
    <3> QED BY <3>1 DEF Keyboard
  <2>3. s.kbd[d].group # y BY <1>3 DEF Its
  <2> QED BY <1>2, <1>4, <2>1, <2>2, <2>3 DEF Member
<1>6. Listed(r)
  <2> SUFFICES ASSUME NEW z \in Slot, NEW e \in SeatNames
               PROVE  z \in Elems(r.order[e]) <=> r.grp[z].refs > 0 /\ r.grp[z].seat = e
    BY DEF Listed
  <2>0. z \in Elems(s.order[e]) <=> s.grp[z].refs > 0 /\ s.grp[z].seat = e BY <1>1 DEF Linked, Listed
  <2>1. CASE z = y
    <3>1. z \notin Elems(s.order[e]) BY <2>0, <2>1
    <3>2. z \in Elems(r.order[e]) <=> e = q BY <1>2, <2>1, <3>1
    <3> QED BY <1>2, <2>1, <3>2
  <2>2. CASE z # y BY <1>2, <2>0, <2>2
  <2> QED BY <2>1, <2>2
<1>7. Owes(r, syn, y)
  <2> SUFFICES ASSUME NEW z \in Slot
               PROVE  r.grp[z].refs = Cardinality(Its(s, z)) + Cardinality(MadeFor(syn, z)) + (IF z = y THEN 1 ELSE 0)
    BY <1>4 DEF Owes
  <2>1. s.grp[z].refs = Cardinality(Its(s, z)) + Cardinality(MadeFor(syn, z)) BY <1>1 DEF Linked, Referred
  <2>2. Cardinality(Its(s, z)) \in Nat /\ Cardinality(MadeFor(syn, z)) \in Nat BY ItsFinite, MadeForFinite
  <2>3. CASE z = y BY <1>2, <2>1, <2>2, <2>3
  <2>4. CASE z # y BY <1>2, <2>1, <2>2, <2>4
  <2> QED BY <2>3, <2>4
<1>8. MadeUp(r, syn)
  <2> SUFFICES ASSUME NEW e \in SeatNames, syn[e] # None
               PROVE  /\ r.grp[syn[e]].refs > 0 /\ r.grp[syn[e]].seat = e /\ r.grp[syn[e]].virtual
                      /\ r.active[e] # None /\ Its(r, syn[e]) = {}
    BY DEF MadeUp
  <2>1. syn[e] \in Slot BY <1>1 DEF Linked
  <2>2. /\ s.grp[syn[e]].refs > 0 /\ s.grp[syn[e]].seat = e /\ s.grp[syn[e]].virtual
        /\ s.active[e] # None /\ Its(s, syn[e]) = {}
    BY <1>1 DEF Linked, MadeUp
  <2>3. syn[e] # y BY <2>2
  <2> QED BY <1>2, <1>4, <2>1, <2>2, <2>3
<1>9. ActiveLives(r)
  <2> SUFFICES ASSUME NEW e \in SeatNames, s.active[e] # None
               PROVE  r.grp[s.active[e]].refs > 0 /\ r.grp[s.active[e]].seat = e
    BY <1>2 DEF ActiveLives
  <2>1. s.active[e] \in Slot BY <1>1, KeyFields
  <2>2. s.grp[s.active[e]].refs > 0 /\ s.grp[s.active[e]].seat = e BY <1>1 DEF Linked, ActiveLives
  <2>3. s.active[e] # y BY <2>2
  <2> QED BY <1>2, <2>1, <2>2, <2>3
<1>10. Frame(r, syn) BY <1>1, <1>5, <1>6, <1>8, <1>9 DEF Linked, Frame
<1>11. Taken(r)
  <2> SUFFICES ASSUME NEW z \in Slot, NEW k \in Keycodes PROVE r.grp[z].by[k] = None <=> r.grp[z].n[k] = 0
    BY DEF Taken
  <2>1. CASE z = y BY <1>2, <2>1
  <2>2. CASE z # y BY <1>1, <1>2, <2>2 DEF Taken
  <2> QED BY <2>1, <2>2
<1>12. \A z \in Slot : \A k, who : HoldsFor(s, z, k, who) => HoldsFor(r, z, k, who) /\ r.grp[z] = s.grp[z]
  <2> SUFFICES ASSUME NEW z \in Slot, NEW k, NEW who, HoldsFor(s, z, k, who)
               PROVE  HoldsFor(r, z, k, who) /\ r.grp[z] = s.grp[z]
    OBVIOUS
  <2>1. z # y BY DEF HoldsFor
  <2> QED BY <1>2, <2>1 DEF HoldsFor
<1>13. Released(r, wo)
  <2>1. ASSUME NEW e \in SeatNames, NEW k \in r.told[e] \ r.listed[e]
        PROVE  \E z \in Slot : HoldsFor(r, z, k, "focus") /\ r.grp[z].seat = e
    <3>1. PICK z \in Slot : HoldsFor(s, z, k, "focus") /\ s.grp[z].seat = e BY <1>1, <1>2 DEF Released
    <3> QED BY <1>12, <3>1
  <2>2. ASSUME NEW k \in r.imKeys PROVE \E z \in Slot : HoldsFor(r, z, k, "grab")
    <3>1. PICK z \in Slot : HoldsFor(s, z, k, "grab") BY <1>1, <1>2 DEF Released
    <3> QED BY <1>12, <3>1
  <2>3. ASSUME NEW k \in r.shortcuts PROVE \E z \in Slot : HoldsFor(r, z, k, "portal")
    <3>1. PICK z \in Slot : HoldsFor(s, z, k, "portal") BY <1>1, <1>2 DEF Released
    <3> QED BY <1>12, <3>1
  <2>4. /\ \A e \in SeatNames : r.entered[e] = None => r.told[e] = {}
        /\ ~wo.grab => r.imKeys = {}
    BY <1>1, <1>2 DEF Released
  <2> QED BY <2>1, <2>2, <2>3, <2>4 DEF Released
<1>14. Counted(r)
  <2> SUFFICES ASSUME NEW z \in Slot, NEW k \in Keycodes PROVE r.grp[z].n[k] <= Cardinality(Holders(r, z, k))
    BY DEF Counted
  <2>0. Cardinality(Holders(r, z, k)) \in Nat BY ItsFinite
  <2>1. CASE z = y BY <1>2, <2>0, <2>1
  <2>2. CASE z # y
    <3>1. Holders(r, z, k) = Holders(s, z, k) BY <1>2, <1>4 DEF Holders
    <3> QED BY <1>2, <2>2, <3>1 DEF Counted
  <2> QED BY <2>1, <2>2
<1> QED BY <1>3, <1>4, <1>7, <1>10, <1>11, <1>13, <1>14

\* A keyboard joins the group that has the reference for it.
LEMMA JoinKeeps ==
  ASSUME NEW s \in KeyState, NEW r, NEW syn, NEW wo, NEW y \in Slot,
         Frame(s, syn), Owes(s, syn, y), Taken(s), Released(s, wo), Counted(s),
         NEW d \in Devs, NEW v, OneKbd(s, r, d, v), s.kbd[d].group = None,
         v.group = y, v.plugged, v.seat = s.grp[y].seat, s.grp[y].virtual <=> d \in Virtual,
         d \in Hardware => s.grp[y].cfg = v.cfg, d \in Virtual => Its(s, y) = {}, MadeFor(syn, y) = {}
  PROVE  KeysGood(r, syn, wo) /\ Counted(r)
<1>1. /\ r \in KeyState /\ r.kbd[d] = v /\ \A e \in Devs : e # d => r.kbd[e] = s.kbd[e]
      /\ r.grp = s.grp /\ r.order = s.order /\ r.active = s.active /\ r.entered = s.entered
      /\ r.told = s.told /\ r.listed = s.listed /\ r.shortcuts = s.shortcuts /\ r.imKeys = s.imKeys
  BY DEF OneKbd
<1>2. \A z \in Slot : d \notin Its(s, z) BY KeyNames DEF Its
<1>3. ASSUME NEW z \in Slot PROVE Its(r, z) = IF z = y THEN Its(s, z) \cup {d} ELSE Its(s, z)
  <2>1. Its(r, z) = (Its(s, z) \ {d}) \cup (IF v.group = z THEN {d} ELSE {}) BY OneKbdIts
  <2> QED BY <1>2, <2>1
<1>4. s.grp[y].refs > 0
  <2>1. s.grp[y].refs = Cardinality(Its(s, y)) + Cardinality(MadeFor(syn, y)) + 1 BY DEF Owes
  <2>2. Cardinality(Its(s, y)) \in Nat /\ Cardinality(MadeFor(syn, y)) \in Nat BY ItsFinite, MadeForFinite
  <2> QED BY <2>1, <2>2
<1>5. \A e \in Devs : Member(r, e)
  <2> SUFFICES ASSUME NEW e \in Devs, r.kbd[e].group # None PROVE Member(r, e) BY DEF Member
  <2>1. CASE e = d
    <3>1. d \in Virtual => Its(r, y) = {d} BY <1>3
    <3> QED BY <1>1, <1>4, <2>1, <3>1 DEF Member
  <2>2. CASE e # d
    <3>1. r.kbd[e] = s.kbd[e] BY <1>1, <2>2
    <3>2. Member(s, e) BY DEF Frame
    <3>3. s.kbd[e].group \in Slot
      <4>1. s.kbd[e] \in Keyboard BY KeyFields
      <4> QED BY <3>1, <4>1 DEF Keyboard
    <3>4. e \in Virtual => Its(r, s.kbd[e].group) = {e}
      <4> SUFFICES ASSUME e \in Virtual PROVE Its(r, s.kbd[e].group) = {e} OBVIOUS
      <4>1. Its(s, s.kbd[e].group) = {e} /\ s.grp[s.kbd[e].group].virtual BY <3>1, <3>2 DEF Member
      <4>2. s.kbd[e].group # y BY <4>1
      <4> QED BY <1>3, <3>3, <4>1, <4>2
    <3> QED BY <1>1, <3>1, <3>2, <3>4 DEF Member
  <2> QED BY <2>1, <2>2
<1>6. Referred(r, syn)
  <2> SUFFICES ASSUME NEW z \in Slot PROVE s.grp[z].refs = Cardinality(Its(r, z)) + Cardinality(MadeFor(syn, z))
    BY <1>1 DEF Referred
  <2>1. s.grp[z].refs = Cardinality(Its(s, z)) + Cardinality(MadeFor(syn, z)) + (IF z = y THEN 1 ELSE 0) BY DEF Owes
  <2>2. IsFiniteSet(Its(s, z)) /\ Cardinality(Its(s, z)) \in Nat /\ Cardinality(MadeFor(syn, z)) \in Nat
    BY ItsFinite, MadeForFinite
  <2>3. Cardinality(Its(s, z) \cup {d}) = Cardinality(Its(s, z)) + 1 BY <1>2, <2>2, FS_AddElement
  <2>4. Cardinality(Its(r, z)) = IF z = y THEN Cardinality(Its(s, z)) + 1 ELSE Cardinality(Its(s, z)) BY <1>3, <2>3
  <2> QED BY <2>1, <2>2, <2>4
<1>7. Listed(r) /\ ActiveLives(r) BY <1>1 DEF Frame, Listed, ActiveLives
<1>8. MadeUp(r, syn)
  <2> SUFFICES ASSUME NEW e \in SeatNames, syn[e] # None
               PROVE  /\ r.grp[syn[e]].refs > 0 /\ r.grp[syn[e]].seat = e /\ r.grp[syn[e]].virtual
                      /\ r.active[e] # None /\ Its(r, syn[e]) = {}
    BY DEF MadeUp
  <2>1. syn[e] \in Slot BY DEF Frame
  <2>2. /\ s.grp[syn[e]].refs > 0 /\ s.grp[syn[e]].seat = e /\ s.grp[syn[e]].virtual
        /\ s.active[e] # None /\ Its(s, syn[e]) = {}
    BY DEF Frame, MadeUp
  <2>3. syn[e] # y BY DEF MadeFor
  <2>4. Its(r, syn[e]) = {} BY <1>3, <2>1, <2>2, <2>3
  <2> QED BY <1>1, <2>2, <2>4
<1>9. Linked(r, syn) BY <1>5, <1>6, <1>7, <1>8 DEF Frame, Linked
<1>10. Taken(r) /\ Released(r, wo) BY <1>1 DEF Taken, Released, HoldsFor
<1>11. Counted(r)
  <2> SUFFICES ASSUME NEW z \in Slot, NEW k \in Keycodes PROVE s.grp[z].n[k] <= Cardinality(Holders(r, z, k))
    BY <1>1 DEF Counted
  <2>1. Holders(s, z, k) \subseteq Holders(r, z, k)
    <3> SUFFICES ASSUME NEW e \in Holders(s, z, k) PROVE e \in Holders(r, z, k) OBVIOUS
    <3>1. e \in Its(s, z) /\ k \in s.kbd[e].held BY DEF Holders
    <3>2. e \in Devs /\ e # d /\ e \in Its(r, z) BY <1>2, <1>3, <3>1 DEF Its
    <3> QED BY <1>1, <3>1, <3>2 DEF Holders
  <2>2. Cardinality(Holders(s, z, k)) <= Cardinality(Holders(r, z, k)) BY <2>1, ItsFinite, FS_Subset
  <2>3. Cardinality(Holders(s, z, k)) \in Nat /\ Cardinality(Holders(r, z, k)) \in Nat BY ItsFinite
  <2>4. s.grp[z].n[k] \in Nat BY DEF KeyState, Group
  <2>5. s.grp[z].n[k] <= Cardinality(Holders(s, z, k)) BY DEF Counted
  <2> QED BY <2>2, <2>3, <2>4, <2>5
<1> QED BY <1>1, <1>9, <1>10, <1>11 DEF KeysGood

\* Keyboard::set_group.
LEMMA SetGroupKeeps ==
  ASSUME NEW s, NEW syn, NEW wo, KeysGood(s, syn, wo), Counted(s), NEW d \in Devs, NEW q \in SeatNames,
         s.kbd[d].group = None, s.kbd[d].plugged, s.kbd[d].seat = q
  PROVE  LET r == Keys!SetGroup(s, d, q) IN
         \E y \in Slot : KeysGood(r, syn, wo) /\ Counted(r) /\ Moved(s, r, d, q, y)
<1> DEFINE cf == s.kbd[d].cfg
           fit == {y \in Slot : ~s.grp[y].virtual /\ s.grp[y].cfg = cf}
           shared == Keys!Only(s.order[q], fit)
           own == Keys!NewGroup(s)
           r == Keys!SetGroup(s, d, q)
<1>1. s \in KeyState /\ Linked(s, syn) /\ Taken(s) /\ Released(s, wo) /\ s.kbd[d] \in Keyboard
  BY KeyFields DEF KeysGood
<1>2. cf \in Configs BY <1>1 DEF Keyboard
<1>3. s.order[q] \in Seq(Slot) BY <1>1, KeyFields
<1>4. r = IF d \in Hardware /\ shared # <<>>
          THEN [s EXCEPT !.kbd[d].group = Head(shared), !.grp[Head(shared)].refs = @ + 1]
          ELSE [Keys!Create(s, q, own, cf, d \in Virtual) EXCEPT !.kbd[d].group = own]
  BY KeyNames DEF Keys!SetGroup
<1>5. shared = Only(s.order[q], fit) BY DEF Keys!Only, Only
<1>6. shared \in Seq(Slot) /\ Elems(shared) = Elems(s.order[q]) \cap fit
  <2> HIDE DEF shared, fit
  <2> QED BY <1>3, <1>5, OnlyHolds
<1> HIDE DEF shared, r
<1>7. ASSUME d \in Hardware, shared # <<>>
      PROVE  \E y \in Slot : KeysGood(r, syn, wo) /\ Counted(r) /\ Moved(s, r, d, q, y)
  <2> DEFINE y == Head(shared)
             v == [s.kbd[d] EXCEPT !.group = y]
             sa == KbdAs(s, d, v)
             cnt == sa.grp[y].refs + 1
             u == RefsAs(s, y, cnt)
  <2>1. y \in Slot /\ y \in Elems(s.order[q]) /\ ~s.grp[y].virtual /\ s.grp[y].cfg = cf
    <3>1. Len(shared) \in Nat /\ Len(shared) # 0 /\ DOMAIN shared = 1..Len(shared) BY <1>6, <1>7
    <3>2. 1 \in DOMAIN shared /\ Head(shared) = shared[1] BY <1>6, <1>7, <3>1
    <3>3. Head(shared) \in Elems(shared) BY <3>2 DEF Elems
    <3> QED BY <1>6, <3>3
  <2>2. r = [sa EXCEPT !.grp[y].refs = sa.grp[y].refs + 1] BY <1>4, <1>7 DEF KbdAs
  <2>3. r = RefsAs(sa, y, cnt) BY <2>2 DEF RefsAs
  <2> HIDE DEF y
  <2>4. s.grp[y].refs > 0 /\ s.grp[y].seat = q BY <1>1, <2>1 DEF Linked, Listed
  <2>5. /\ v \in Keyboard /\ v.group = y /\ v.seat = q /\ v.plugged = s.kbd[d].plugged
        /\ v.cfg = cf /\ v.held = s.kbd[d].held /\ v.down = s.kbd[d].down
    BY <1>1, <2>1 DEF Keyboard
  <2> HIDE DEF v
  <2>6. OneKbd(s, sa, d, v) BY <1>1, <2>5, KbdIs
  <2> HIDE DEF sa
  <2>7. cnt = s.grp[y].refs + 1 /\ s.grp[y].refs \in Nat /\ cnt \in Nat /\ cnt > 0
    <3>1. s.grp[y].refs \in Nat BY <1>1, <2>1 DEF KeyState, Group
    <3>2. sa.grp = s.grp BY <2>6 DEF OneKbd
    <3> QED BY <3>1, <3>2
  <2> HIDE DEF cnt
  <2>8. RefsIs(s, u, y, cnt) BY <1>1, <2>1, <2>7, RefsAre
  <2>9. sa \in KeyState BY <2>6 DEF OneKbd
  <2>10. RefsIs(sa, r, y, cnt) BY <2>1, <2>3, <2>7, <2>9, RefsAre
  <2> HIDE DEF u
  <2>11. Frame(s, syn) /\ Owes(s, syn, None) BY <1>1, LinkedIs
  <2>12. Frame(u, syn) /\ Taken(u) /\ Released(u, wo) /\ Counted(u) /\ \A z : Its(u, z) = Its(s, z)
    <3>1. s \in KeyState /\ Taken(s) /\ Released(s, wo) BY <1>1
    <3>2. y \in Slot /\ cnt \in Nat /\ cnt > 0 /\ s.grp[y].refs > 0 BY <2>1, <2>4, <2>7
    <3>3. Frame(u, syn) /\ Taken(u) /\ Released(u, wo) /\ Counted(u) BY <2>8, <2>11, <3>1, <3>2, RefsKeep
    <3>4. u.kbd = s.kbd BY <2>8 DEF RefsIs
    <3>5. \A z : Its(u, z) = Its(s, z) BY <3>4 DEF Its
    <3> QED BY <3>3, <3>5
  <2>21. u.grp = [s.grp EXCEPT ![y] = [s.grp[y] EXCEPT !.refs = cnt]] BY <2>8 DEF RefsIs
  <2>13. u \in KeyState /\ u.kbd = s.kbd BY <2>8 DEF RefsIs
  <2>14. Owes(u, syn, y)
    <3> SUFFICES ASSUME NEW z \in Slot
                 PROVE  u.grp[z].refs = Cardinality(Its(s, z)) + Cardinality(MadeFor(syn, z)) + (IF z = y THEN 1 ELSE 0)
      BY <2>12 DEF Owes
    <3>1. s.grp[z].refs = Cardinality(Its(s, z)) + Cardinality(MadeFor(syn, z)) BY <1>1 DEF Linked, Referred
    <3>2. Cardinality(Its(s, z)) \in Nat /\ Cardinality(MadeFor(syn, z)) \in Nat BY ItsFinite, MadeForFinite
    <3>3. CASE z = y
      <4>1. u.grp[y].refs = cnt BY <2>8 DEF RefsIs
      <4> QED BY <2>7, <3>1, <3>2, <3>3, <4>1
    <3>4. CASE z # y
      <4>1. u.grp[z].refs = s.grp[z].refs BY <2>8, <3>4 DEF RefsIs
      <4> QED BY <3>1, <3>2, <3>4, <4>1
    <3> QED BY <3>3, <3>4
  <2>15. OneKbd(u, r, d, v)
    <3>1. /\ r \in KeyState /\ r.kbd = sa.kbd /\ r.order = sa.order /\ r.active = sa.active /\ r.entered = sa.entered
          /\ r.told = sa.told /\ r.listed = sa.listed /\ r.shortcuts = sa.shortcuts /\ r.imKeys = sa.imKeys
          /\ r.grp = [sa.grp EXCEPT ![y] = [sa.grp[y] EXCEPT !.refs = cnt]]
      BY <2>10 DEF RefsIs
    <3>2. /\ u.order = s.order /\ u.active = s.active /\ u.entered = s.entered
          /\ u.told = s.told /\ u.listed = s.listed /\ u.shortcuts = s.shortcuts /\ u.imKeys = s.imKeys
      BY <2>8 DEF RefsIs
    <3>3. sa.grp = s.grp BY <2>6 DEF OneKbd
    <3>4. r.grp = u.grp BY <2>21, <3>1, <3>3
    <3> QED BY <2>6, <2>13, <3>1, <3>2, <3>4 DEF OneKbd
  <2>16. u.grp[y].seat = q /\ ~u.grp[y].virtual /\ u.grp[y].cfg = v.cfg BY <2>1, <2>4, <2>5, <2>8 DEF RefsIs
  <2>17. d \notin Virtual BY <1>7, KeyAssumption
  <2>18. MadeFor(syn, y) = {}
    <3> SUFFICES ASSUME NEW e \in SeatNames, syn[e] = y PROVE FALSE BY DEF MadeFor
    <3>1. syn[e] # None BY <2>1, KeyNames
    <3> QED BY <1>1, <2>1, <3>1 DEF Linked, MadeUp
  <2>19. KeysGood(r, syn, wo) /\ Counted(r)
    <3>1. u.kbd[d].group = None /\ v.group = y /\ v.plugged /\ v.seat = u.grp[y].seat BY <2>5, <2>13, <2>16
    <3>2. (u.grp[y].virtual <=> d \in Virtual) /\ (d \in Hardware => u.grp[y].cfg = v.cfg)
          /\ (d \in Virtual => Its(u, y) = {})
      BY <2>16, <2>17
    <3> QED BY <2>1, <2>12, <2>13, <2>14, <2>15, <2>18, <3>1, <3>2, JoinKeeps
  <2>20. Moved(s, r, d, q, y) BY <2>5, <2>13, <2>15 DEF OneKbd, Moved
  <2> QED BY <2>1, <2>19, <2>20
<1>8. ASSUME ~(d \in Hardware /\ shared # <<>>)
      PROVE  \E y \in Slot : KeysGood(r, syn, wo) /\ Counted(r) /\ Moved(s, r, d, q, y)
  <2> DEFINE vt == d \in Virtual
             u == Keys!Create(s, q, own, cf, vt)
             v == [u.kbd[d] EXCEPT !.group = own]
  <2>1. r = KbdAs(u, d, v) BY <1>4, <1>8 DEF KbdAs
  <2>2. own \in Slot /\ s.grp[own].refs = 0 BY <1>1, FreeSlot
  <2>3. vt \in BOOLEAN OBVIOUS
  <2> HIDE DEF own, cf, vt
  <2>4. Made(s, u, q, own, cf, vt) BY <1>1, <1>2, <2>2, <2>3, CreateIs
  <2> HIDE DEF u
  <2>5. /\ Frame(u, syn) /\ Owes(u, syn, own) /\ Taken(u) /\ Released(u, wo) /\ Counted(u)
        /\ Its(u, own) = {} /\ MadeFor(syn, own) = {}
    BY <2>2, <2>4, CreateOwes
  <2>6. /\ u \in KeyState /\ u.kbd = s.kbd /\ u.grp[own].seat = q /\ u.grp[own].virtual = vt /\ u.grp[own].cfg = cf
    BY <2>4 DEF Made
  <2>7. /\ v \in Keyboard /\ v.group = own /\ v.seat = q /\ v.plugged = s.kbd[d].plugged
        /\ v.cfg = cf /\ v.held = s.kbd[d].held /\ v.down = s.kbd[d].down
    BY <1>1, <2>2, <2>6 DEF Keyboard, cf
  <2> HIDE DEF v
  <2>8. OneKbd(u, r, d, v) BY <2>1, <2>6, <2>7, KbdIs
  <2>9. KeysGood(r, syn, wo) /\ Counted(r)
    <3>1. u.kbd[d].group = None /\ v.plugged /\ v.seat = u.grp[own].seat BY <2>6, <2>7
    <3>2. (u.grp[own].virtual <=> d \in Virtual) /\ (d \in Hardware => u.grp[own].cfg = v.cfg) BY <2>6, <2>7 DEF vt
    <3> QED BY <2>2, <2>5, <2>6, <2>7, <2>8, <3>1, <3>2, JoinKeeps
  <2>10. Moved(s, r, d, q, own) BY <2>6, <2>7, <2>8 DEF OneKbd, Moved, cf
  <2> QED BY <2>2, <2>9, <2>10
<1> QED BY <1>7, <1>8 DEF r

\* wlr_seat_set_keyboard, to a group of the seat.
LEMMA SetKeyboardKeeps ==
  ASSUME NEW s, NEW syn, NEW wo, KeysGood(s, syn, wo), Counted(s), NEW q \in SeatNames, NEW y \in Slot,
         s.grp[y].refs > 0, s.grp[y].seat = q
  PROVE  LET r == Keys!SetKeyboard(s, q, y) IN KeysGood(r, syn, wo) /\ Counted(r) /\ r.kbd = s.kbd /\ r.active[q] = y
<1> DEFINE r == Keys!SetKeyboard(s, q, y)
<1>1. s \in KeyState /\ Linked(s, syn) /\ Taken(s) /\ Released(s, wo) BY DEF KeysGood
<1>2. SetTo(s, r, q, y) BY <1>1, SetKeyboardIs
<1> HIDE DEF r
<1>3. /\ r \in KeyState /\ r.active = [s.active EXCEPT ![q] = y]
      /\ r.kbd = s.kbd /\ r.grp = s.grp /\ r.order = s.order /\ r.entered = s.entered
      /\ r.told = s.told /\ r.listed = s.listed /\ r.shortcuts = s.shortcuts /\ r.imKeys = s.imKeys
  BY <1>2 DEF SetTo
<1>4. SameKbd(s, r) /\ SameGrp(s, r) BY <1>3 DEF SameKbd, SameGrp
<1>5. s.active \in [SeatNames -> Slot \cup {None}] BY <1>1 DEF KeyState
<1>6. r.active[q] = y /\ \A e \in SeatNames : e # q => r.active[e] = s.active[e] BY <1>3, <1>5
<1>7. ASSUME NEW e \in SeatNames
      PROVE  \/ r.active[e] = s.active[e]
             \/ r.active[e] \in Slot /\ s.grp[r.active[e]].refs > 0 /\ s.grp[r.active[e]].seat = e
  BY <1>6
<1>8. Linked(r, syn) /\ \A z : Its(r, z) = Its(s, z) BY <1>1, <1>3, <1>4, <1>7, LinkedStays
<1>9. Taken(r) /\ Released(r, wo) BY <1>1, <1>3 DEF Taken, Released, HoldsFor
<1>10. Counted(r) BY <1>3 DEF Counted, Holders, Its
<1> QED BY <1>3, <1>6, <1>8, <1>9, <1>10 DEF KeysGood, r

\* Seat::attach_device.
LEMMA AttachKeeps ==
  ASSUME NEW s, NEW syn, NEW wo, KeysGood(s, syn, wo), Counted(s), NEW d \in Devs, NEW q \in SeatNames,
         s.kbd[d].group = None, s.kbd[d].plugged
  PROVE  LET r == Keys!Attach(s, d, q) IN
         \E y \in Slot : KeysGood(r, syn, wo) /\ Counted(r) /\ Moved(s, r, d, q, y)
<1> DEFINE v == [s.kbd[d] EXCEPT !.seat = q]
           u == KbdAs(s, d, v)
           in == Keys!SetGroup(u, d, q)
           r == Keys!Attach(s, d, q)
<1>1. s \in KeyState /\ s.kbd[d] \in Keyboard BY KeyFields DEF KeysGood
<1>2. /\ v \in Keyboard /\ v.group = None /\ v.seat = q /\ v.plugged = s.kbd[d].plugged
      /\ v.cfg = s.kbd[d].cfg /\ v.held = s.kbd[d].held /\ v.down = s.kbd[d].down
  BY <1>1 DEF Keyboard
<1>3. r = Keys!SetKeyboard(in, q, in.kbd[d].group) BY DEF Keys!Attach, KbdAs
<1> HIDE DEF v
<1>4. OneKbd(s, u, d, v) BY <1>1, <1>2, KbdIs
<1> HIDE DEF u
<1>5. KeysGood(u, syn, wo) /\ Counted(u) BY <1>2, <1>4, AloneKeeps
<1>6. u.kbd[d].group = None /\ u.kbd[d].plugged /\ u.kbd[d].seat = q BY <1>2, <1>4 DEF OneKbd
<1>7. PICK y \in Slot : KeysGood(in, syn, wo) /\ Counted(in) /\ Moved(u, in, d, q, y)
  BY <1>5, <1>6, SetGroupKeeps
<1> HIDE DEF in, r
<1>8. in.kbd[d].group = y /\ in.kbd[d].seat = q BY <1>7 DEF Moved
<1>9. in.grp[y].refs > 0 /\ in.grp[y].seat = q
  <2>1. Member(in, d) BY <1>7 DEF KeysGood, Linked
  <2> QED BY <1>8, <2>1, KeyNames DEF Member
<1>10. KeysGood(r, syn, wo) /\ Counted(r) /\ r.kbd = in.kbd BY <1>3, <1>7, <1>8, <1>9, SetKeyboardKeeps
<1>11. Moved(s, r, d, q, y) BY <1>2, <1>4, <1>7, <1>10 DEF Moved, OneKbd
<1> QED BY <1>10, <1>11 DEF r

\* InputDevice::assign_to_seat, with no keys.
LEMMA ReassignKeeps ==
  ASSUME NEW s, NEW syn, NEW wo, KeysGood(s, syn, wo), Counted(s), NEW d \in Devs, NEW q \in SeatNames \cup {None},
         s.kbd[d].held = {}, s.kbd[d].plugged
  PROVE  LET r == Keys!Reassign(s, d, q) IN
         \E y \in Slot \cup {None} :
            KeysGood(r, syn, wo) /\ Counted(r) /\ Moved(s, r, d, q, y) /\ (q # None => y # None)
<1> DEFINE left == IF s.kbd[d].seat = None THEN s ELSE Keys!LeaveGroup(s, d)
           r == Keys!Reassign(s, d, q)
<1>1. s \in KeyState /\ s.kbd[d] \in Keyboard BY KeyFields DEF KeysGood
<1>2. KeysGood(left, syn, wo) /\ Counted(left) /\ Moved(s, left, d, s.kbd[d].seat, None)
  <2>1. CASE s.kbd[d].seat = None
    <3>1. s.kbd[d].group = None
      <4> SUFFICES ASSUME s.kbd[d].group # None PROVE FALSE OBVIOUS
      <4>1. Member(s, d) BY DEF KeysGood, Linked
      <4>2. s.kbd[d].group \in Slot BY <1>1 DEF Keyboard
      <4>3. s.grp[s.kbd[d].group].seat \in SeatNames BY <1>1, <4>2 DEF KeyState, Group
      <4> QED BY <2>1, <4>1, <4>3, KeyNames DEF Member
    <3>2. left = s BY <2>1
    <3> HIDE DEF left
    <3> QED BY <3>1, <3>2 DEF Moved
  <2>2. CASE s.kbd[d].seat # None
    <3>1. left = Keys!LeaveGroup(s, d) BY <2>2
    <3> HIDE DEF left
    <3> QED BY <3>1, LeaveGroupKeeps
  <2> QED BY <2>1, <2>2
<1>3. r = IF q = None THEN [left EXCEPT !.kbd[d].seat = None] ELSE Keys!Attach(left, d, q) BY DEF Keys!Reassign
<1> HIDE DEF left, r
<1>4. left \in KeyState /\ left.kbd[d] \in Keyboard /\ left.kbd[d].group = None /\ left.kbd[d].plugged
  <2>1. left \in KeyState BY <1>2 DEF KeysGood
  <2> QED BY <1>2, <2>1, KeyFields DEF Moved
<1>5. CASE q # None
  <2>1. q \in SeatNames BY <1>5
  <2>2. PICK y \in Slot : KeysGood(r, syn, wo) /\ Counted(r) /\ Moved(left, r, d, q, y)
    BY <1>2, <1>3, <1>4, <1>5, <2>1, AttachKeeps
  <2>3. Moved(s, r, d, q, y) BY <1>2, <2>2 DEF Moved
  <2>4. y # None BY KeyNames
  <2> QED BY <2>2, <2>3, <2>4 DEF r
<1>6. CASE q = None
  <2> DEFINE v == [left.kbd[d] EXCEPT !.seat = None]
  <2>1. r = KbdAs(left, d, v) BY <1>3, <1>6 DEF KbdAs
  <2>2. /\ v \in Keyboard /\ v.group = None /\ v.seat = None /\ v.plugged = left.kbd[d].plugged
        /\ v.cfg = left.kbd[d].cfg /\ v.held = left.kbd[d].held /\ v.down = left.kbd[d].down
    BY <1>4 DEF Keyboard
  <2> HIDE DEF v
  <2>3. OneKbd(left, r, d, v) BY <1>4, <2>1, <2>2, KbdIs
  <2>4. KeysGood(r, syn, wo) /\ Counted(r) BY <1>2, <1>4, <2>2, <2>3, AloneKeeps
  <2>5. Moved(s, r, d, q, None) BY <1>2, <1>6, <2>2, <2>3 DEF Moved, OneKbd
  <2> QED BY <1>6, <2>4, <2>5 DEF r
<1> QED BY <1>5, <1>6

-----------------------------------------------------------------------------
(* Keyboards, seats and what is entered.                                   *)

\* Only keyboards in groups matter to groups, and what they are matters, not what is down.
LEMMA KbdKeeps ==
  ASSUME NEW s, NEW r \in KeyState, NEW syn, NEW wo, NEW wo2, KeysGood(s, syn, wo), Counted(s),
         \A d \in Devs : /\ r.kbd[d].group = s.kbd[d].group
                         /\ s.kbd[d].group # None => /\ r.kbd[d].plugged = s.kbd[d].plugged
                                                     /\ r.kbd[d].seat = s.kbd[d].seat
                                                     /\ r.kbd[d].cfg = s.kbd[d].cfg
                                                     /\ r.kbd[d].held = s.kbd[d].held,
         r.grp = s.grp, r.order = s.order, r.active = s.active, Released(r, wo2)
  PROVE  KeysGood(r, syn, wo2) /\ Counted(r)
<1>1. SameKbd(s, r) BY DEF SameKbd
<1>2. KeysGood(r, syn, wo2) /\ \A z : Its(r, z) = Its(s, z) BY <1>1, GoodStill
<1>3. ASSUME NEW z \in Slot, NEW k PROVE Holders(r, z, k) = Holders(s, z, k)
  <2>1. \A d \in Its(s, z) : d \in Devs /\ s.kbd[d].group # None BY KeyNames DEF Its
  <2>2. \A d \in Its(s, z) : r.kbd[d].held = s.kbd[d].held BY <2>1
  <2> QED BY <1>2, <2>2 DEF Holders
<1>4. Counted(r) BY <1>3 DEF Counted
<1> QED BY <1>2, <1>4

\* A keyboard holds other keys, and is as it was otherwise.
Loosed(s, r, d, h) ==
    /\ \A e \in Devs : e # d => r.kbd[e] = s.kbd[e]
    /\ r.kbd[d].held = h /\ r.kbd[d].seat = s.kbd[d].seat /\ r.kbd[d].group = s.kbd[d].group
    /\ r.kbd[d].plugged = s.kbd[d].plugged /\ r.kbd[d].cfg = s.kbd[d].cfg /\ r.kbd[d].down = s.kbd[d].down

\* Its held keys are others, and the group sees those of the other keyboards only.
LEMMA LoosedIs ==
  ASSUME NEW s \in KeyState, NEW r, NEW d \in Devs, NEW h \in SUBSET Keycodes, HeldOnly(s, r, d, h)
  PROVE  Loosed(s, r, d, h)
<1>1. /\ r.kbd[d].held = h
      /\ \A e \in Devs : /\ e # d => r.kbd[e] = s.kbd[e]
                         /\ r.kbd[e].plugged = s.kbd[e].plugged /\ r.kbd[e].seat = s.kbd[e].seat
                         /\ r.kbd[e].group = s.kbd[e].group /\ r.kbd[e].cfg = s.kbd[e].cfg
                         /\ r.kbd[e].down = s.kbd[e].down
  BY HeldOnlyIs
<1> QED BY <1>1 DEF Loosed

\* release_pressed is such a change.
LEMMA ReleaseLooses ==
  ASSUME NEW s, NEW syn, KeysGood(s, syn, world), Counted(s), NEW d \in Devs
  PROVE  LET r == Keys!ReleasePressed(s, d) IN
         KeysGood(r, syn, world) /\ Counted(r) /\ Loosed(s, r, d, {})
<1> DEFINE r == Keys!ReleasePressed(s, d)
           no == {}
<1>1. KeysGood(r, syn, world) /\ Counted(r) /\ HeldOnly(s, r, d, no) BY ReleaseStillGood
<1>2. no \in SUBSET Keycodes /\ s \in KeyState BY DEF KeysGood
<1> HIDE DEF r, no
<1>3. Loosed(s, r, d, no) BY <1>1, <1>2, LoosedIs
<1> QED BY <1>1, <1>3 DEF r, no

\* The keyboards of a seat that is destroyed let go, one after the other.
IdleAll(base, S) == Keys!FoldSet(LAMBDA x, s : Keys!ReleasePressed(s, x), base, S)
MoveAll(base, S) ==
    Keys!FoldSet(LAMBDA x, s : Keys!Reassign(s, x, IF x \in Virtual THEN None ELSE "default"), base, S)

\* That is a walk over their subsets (Turns).
LEMMA IdleIs ==
  ASSUME NEW S, IsFiniteSet(S), NEW base
  PROVE  \E f : Turns("idle", None, base, f, S) /\ IdleAll(base, S) = f[S]
<1> DEFINE Next1(f, X) == IF X = {} THEN base
                          ELSE LET x == CHOOSE z \in X : TRUE IN Keys!ReleasePressed(f[X \ {x}], x)
           Runs1(f) == f = [X \in SUBSET S |-> Next1(f, X)]
           iter == CHOOSE f : Runs1(f)
<1>1. \A f, X : Next1(f, X) = Turn("idle", None, base, f, X) BY DEF Turn, Did
<1>2. IdleAll(base, S) = iter[S] BY DEF IdleAll, Keys!FoldSet, Keys!MapThenFoldSet
<1> HIDE DEF Next1
<1>3. \A f : Runs1(f) <=> Turns("idle", None, base, f, S)
  <2> SUFFICES ASSUME NEW f PROVE Runs1(f) <=> Turns("idle", None, base, f, S) OBVIOUS
  <2>1. [X \in SUBSET S |-> Next1(f, X)] = [X \in SUBSET S |-> Turn("idle", None, base, f, X)] BY <1>1
  <2> QED BY <2>1 DEF Turns
<1> HIDE DEF Runs1
<1>4. \E f : Runs1(f) BY <1>3, TurnsExist
<1>5. Runs1(iter) BY <1>4
<1> HIDE DEF iter
<1> QED BY <1>2, <1>3, <1>5

\* So is their leaving the seat.
LEMMA MoveIs ==
  ASSUME NEW S, IsFiniteSet(S), NEW base
  PROVE  \E f : Turns("move", None, base, f, S) /\ MoveAll(base, S) = f[S]
<1> DEFINE Next1(f, X) == IF X = {} THEN base
                          ELSE LET x == CHOOSE z \in X : TRUE
                               IN Keys!Reassign(f[X \ {x}], x, IF x \in Virtual THEN None ELSE "default")
           Runs1(f) == f = [X \in SUBSET S |-> Next1(f, X)]
           iter == CHOOSE f : Runs1(f)
<1>1. \A f, X : Next1(f, X) = Turn("move", None, base, f, X) BY DEF Turn, Did
<1>2. MoveAll(base, S) = iter[S] BY DEF MoveAll, Keys!FoldSet, Keys!MapThenFoldSet
<1> HIDE DEF Next1
<1>3. \A f : Runs1(f) <=> Turns("move", None, base, f, S)
  <2> SUFFICES ASSUME NEW f PROVE Runs1(f) <=> Turns("move", None, base, f, S) OBVIOUS
  <2>1. [X \in SUBSET S |-> Next1(f, X)] = [X \in SUBSET S |-> Turn("move", None, base, f, X)] BY <1>1
  <2> QED BY <2>1 DEF Turns
<1> HIDE DEF Runs1
<1>4. \E f : Runs1(f) BY <1>3, TurnsExist
<1>5. Runs1(iter) BY <1>4
<1> HIDE DEF iter
<1> QED BY <1>2, <1>3, <1>5

\* Each of them, and no other.
IdleOf(s, r, X) == \A e \in Devs :
    /\ r.kbd[e].held = (IF e \in X THEN {} ELSE s.kbd[e].held)
    /\ r.kbd[e].seat = s.kbd[e].seat /\ r.kbd[e].group = s.kbd[e].group
    /\ r.kbd[e].plugged = s.kbd[e].plugged /\ r.kbd[e].cfg = s.kbd[e].cfg /\ r.kbd[e].down = s.kbd[e].down
MovedOf(s, r, X) == \A e \in Devs :
    /\ e \notin X => r.kbd[e] = s.kbd[e]
    /\ r.kbd[e].held = s.kbd[e].held /\ r.kbd[e].down = s.kbd[e].down /\ r.kbd[e].plugged = s.kbd[e].plugged
    /\ e \in X => r.kbd[e].seat \in {"default", None} /\ (r.kbd[e].seat # None => r.kbd[e].group # None)

\* All of them let go.
LEMMA IdleKeeps ==
  ASSUME NEW s, NEW syn, KeysGood(s, syn, world), Counted(s), NEW S \in SUBSET Devs
  PROVE  LET r == IdleAll(s, S) IN KeysGood(r, syn, world) /\ Counted(r) /\ IdleOf(s, r, S)
<1>1. IsFiniteSet(S) BY KeyNames, FS_Subset
<1>2. PICK f : Turns("idle", None, s, f, S) /\ IdleAll(s, S) = f[S] BY <1>1, IdleIs
<1>3. /\ f[{}] = s
      /\ \A X \in SUBSET S : X # {} => \E x \in X : f[X] = Did("idle", None, x, f[X \ {x}])
  BY <1>2, TurnsGo
<1> DEFINE Fine(u, X) == KeysGood(u, syn, world) /\ Counted(u) /\ IdleOf(s, u, X)
           G == {X \in SUBSET S : Fine(f[X], X)}
<1>4. ASSUME NEW X \in SUBSET S, \A x \in X : X \ {x} \in G PROVE X \in G
  <2>1. CASE X = {}
    <3>1. IdleOf(s, s, {}) BY DEF IdleOf
    <3> QED BY <1>3, <2>1, <3>1
  <2>2. CASE X # {}
    <3>1. PICK x \in X : f[X] = Did("idle", None, x, f[X \ {x}]) BY <1>3, <2>2
    <3> DEFINE u == f[X \ {x}]
    <3>2. KeysGood(u, syn, world) /\ Counted(u) /\ IdleOf(s, u, X \ {x}) BY <1>4
    <3>3. f[X] = Keys!ReleasePressed(u, x) BY <3>1 DEF Did
    <3>4. x \in Devs OBVIOUS
    <3> HIDE DEF u
    <3>5. KeysGood(f[X], syn, world) /\ Counted(f[X]) /\ Loosed(u, f[X], x, {}) BY <3>2, <3>3, <3>4, ReleaseLooses
    <3>6. IdleOf(s, f[X], X)
      <4> SUFFICES ASSUME NEW e \in Devs
                   PROVE  /\ f[X].kbd[e].held = (IF e \in X THEN {} ELSE s.kbd[e].held)
                          /\ f[X].kbd[e].seat = s.kbd[e].seat /\ f[X].kbd[e].group = s.kbd[e].group
                          /\ f[X].kbd[e].plugged = s.kbd[e].plugged /\ f[X].kbd[e].cfg = s.kbd[e].cfg
                          /\ f[X].kbd[e].down = s.kbd[e].down
        BY DEF IdleOf
      <4>1. CASE e = x BY <3>2, <3>5, <4>1 DEF IdleOf, Loosed
      <4>2. CASE e # x
        <5>1. e \in X \ {x} <=> e \in X BY <4>2
        <5> QED BY <3>2, <3>5, <4>2, <5>1 DEF IdleOf, Loosed
      <4> QED BY <4>1, <4>2
    <3> QED BY <3>5, <3>6
  <2> QED BY <2>1, <2>2
<1> HIDE DEF G
<1>5. S \in G
  <2>1. \A X \in SUBSET S : (\A x \in X : X \ {x} \in G) => X \in G BY <1>4
  <2>2. \A X \in SUBSET S : X \in G BY <1>1, <2>1, SetsUp
  <2> QED BY <2>2
<1> QED BY <1>2, <1>5 DEF G

\* All of them leave the seat, the hardware for the default one.
LEMMA MoveKeeps ==
  ASSUME NEW s, NEW syn, KeysGood(s, syn, world), Counted(s), NEW S \in SUBSET Devs,
         \A d \in S : s.kbd[d].held = {} /\ s.kbd[d].plugged
  PROVE  LET r == MoveAll(s, S) IN KeysGood(r, syn, world) /\ Counted(r) /\ MovedOf(s, r, S)
<1>1. IsFiniteSet(S) BY KeyNames, FS_Subset
<1>2. PICK f : Turns("move", None, s, f, S) /\ MoveAll(s, S) = f[S] BY <1>1, MoveIs
<1>3. /\ f[{}] = s
      /\ \A X \in SUBSET S : X # {} => \E x \in X : f[X] = Did("move", None, x, f[X \ {x}])
  BY <1>2, TurnsGo
<1> DEFINE Fine(u, X) == KeysGood(u, syn, world) /\ Counted(u) /\ MovedOf(s, u, X)
           G == {X \in SUBSET S : Fine(f[X], X)}
<1>4. ASSUME NEW X \in SUBSET S, \A x \in X : X \ {x} \in G PROVE X \in G
  <2>1. CASE X = {}
    <3>1. MovedOf(s, s, {}) BY DEF MovedOf
    <3> QED BY <1>3, <2>1, <3>1
  <2>2. CASE X # {}
    <3>1. PICK x \in X : f[X] = Did("move", None, x, f[X \ {x}]) BY <1>3, <2>2
    <3> DEFINE u == f[X \ {x}]
               q == IF x \in Virtual THEN None ELSE "default"
    <3>2. KeysGood(u, syn, world) /\ Counted(u) /\ MovedOf(s, u, X \ {x}) BY <1>4
    <3>3. f[X] = Keys!Reassign(u, x, q) BY <3>1 DEF Did
    <3>4. x \in Devs /\ q \in SeatNames \cup {None} /\ q \in {"default", None} BY DEF SeatNames
    <3> HIDE DEF u, q
    <3>5. u.kbd[x] = s.kbd[x] BY <3>2, <3>4 DEF MovedOf
    <3>6. u.kbd[x].held = {} /\ u.kbd[x].plugged BY <3>5
    <3>7. PICK y \in Slot \cup {None} :
             KeysGood(f[X], syn, world) /\ Counted(f[X]) /\ Moved(u, f[X], x, q, y) /\ (q # None => y # None)
      BY <3>2, <3>3, <3>4, <3>6, ReassignKeeps
    <3>8. MovedOf(s, f[X], X)
      <4> SUFFICES ASSUME NEW e \in Devs
                   PROVE  /\ e \notin X => f[X].kbd[e] = s.kbd[e]
                          /\ f[X].kbd[e].held = s.kbd[e].held /\ f[X].kbd[e].down = s.kbd[e].down
                          /\ f[X].kbd[e].plugged = s.kbd[e].plugged
                          /\ e \in X => /\ f[X].kbd[e].seat \in {"default", None}
                                        /\ f[X].kbd[e].seat # None => f[X].kbd[e].group # None
        BY DEF MovedOf
      <4>1. CASE e = x BY <3>4, <3>5, <3>7, <4>1 DEF Moved
      <4>2. CASE e # x
        <5>1. e \in X \ {x} <=> e \in X BY <4>2
        <5>2. f[X].kbd[e] = u.kbd[e] BY <3>7, <4>2 DEF Moved
        <5> QED BY <3>2, <5>1, <5>2 DEF MovedOf
      <4> QED BY <4>1, <4>2
    <3> QED BY <3>7, <3>8
  <2> QED BY <2>1, <2>2
<1> HIDE DEF G
<1>5. S \in G
  <2>1. \A X \in SUBSET S : (\A x \in X : X \ {x} \in G) => X \in G BY <1>4
  <2>2. \A X \in SUBSET S : X \in G BY <1>1, <2>1, SetsUp
  <2> QED BY <2>2
<1> QED BY <1>2, <1>5 DEF G

-----------------------------------------------------------------------------
(* Every step of Keyboards.                                                *)

\* What a step leaves, put together.
LEMMA KeysWritten ==
  ASSUME KeysGood(st', synthetic', world'), Counted(st'), Seated(st', synthetic', seats'), HeldIsDown(st'),
         kFocused' \in [SeatNames -> BOOLEAN], world' \in Worlds, kConf' \in Configs, changes' \in 0..MaxChanges
  PROVE  KeysInv'
BY DEF KeysInv

\* Where keyboards are and what they hold, when one changes.
Placed(s, r, d, se) ==
    /\ \A e \in Devs : e # d => r.kbd[e] = s.kbd[e]
    /\ r.kbd[d].seat # None => se[r.kbd[d].seat] = "live" /\ r.kbd[d].group # None
    /\ r.kbd[d].held \subseteq r.kbd[d].down
    /\ ~r.kbd[d].plugged => r.kbd[d].down = {} /\ r.kbd[d].seat = None

\* The other keyboards are where they were.
LEMMA SeatedStays ==
  ASSUME NEW s, NEW r, NEW syn, NEW se, Seated(s, syn, se), HeldIsDown(s), NEW d \in Devs, Placed(s, r, d, se)
  PROVE  Seated(r, syn, se) /\ HeldIsDown(r)
<1>1. Seated(r, syn, se) BY DEF Seated, Placed
<1>2. HeldIsDown(r) BY DEF HeldIsDown, Placed
<1> QED BY <1>1, <1>2

\* A key goes down or up.
LEMMA KeyGoes ==
  ASSUME KeysInv, NEW d \in Devs, NEW k \in Keycodes, NEW press \in BOOLEAN,
         press => st.kbd[d].plugged /\ k \notin st.kbd[d].down,
         press => k \in st'.kbd[d].held \/ st'.grp = st.grp,
         ~press => k \in st.kbd[d].down,
         NEW w, w = IF press THEN st.kbd[d].down \cup {k} ELSE st.kbd[d].down \ {k},
         st' = Keys!DeviceKey(KbdAs(st, d, [st.kbd[d] EXCEPT !.down = w]), d, k, press),
         UNCHANGED <<synthetic, seats, kFocused, world, kConf, changes>>
  PROVE  KeysInv'
<1> DEFINE v == [st.kbd[d] EXCEPT !.down = w]
           u == KbdAs(st, d, v)
           room == press => Cardinality(u.kbd[d].held) < MaxHeld
           h == IF room THEN HeldAfter(u, d, k, press) ELSE u.kbd[d].held
<1>1. KeysGood(st, synthetic, world) /\ Counted(st) /\ Seated(st, synthetic, seats) /\ HeldIsDown(st)
  BY DEF KeysInv
<1>2. st \in KeyState /\ st.kbd[d] \in Keyboard /\ Released(st, world) BY <1>1, KeyFields DEF KeysGood
<1>3. w \in SUBSET Keycodes BY <1>2 DEF Keyboard
<1>4. /\ v \in Keyboard /\ v.down = w /\ v.group = st.kbd[d].group /\ v.seat = st.kbd[d].seat
      /\ v.plugged = st.kbd[d].plugged /\ v.cfg = st.kbd[d].cfg /\ v.held = st.kbd[d].held
  BY <1>2, <1>3 DEF Keyboard
<1>5. st' = Keys!DeviceKey(u, d, k, press) OBVIOUS
<1> HIDE DEF v
<1>6. OneKbd(st, u, d, v) BY <1>2, <1>4, KbdIs
<1> HIDE DEF u
<1>7. KeysGood(u, synthetic, world) /\ Counted(u)
  <2>1. Released(u, world) BY <1>2, <1>6 DEF Released, HoldsFor, OneKbd
  <2>2. \A e \in Devs : /\ u.kbd[e].group = st.kbd[e].group
                        /\ st.kbd[e].group # None => /\ u.kbd[e].plugged = st.kbd[e].plugged
                                                     /\ u.kbd[e].seat = st.kbd[e].seat
                                                     /\ u.kbd[e].cfg = st.kbd[e].cfg
                                                     /\ u.kbd[e].held = st.kbd[e].held
    BY <1>4, <1>6 DEF OneKbd
  <2>3. /\ u \in KeyState /\ u.grp = st.grp /\ u.order = st.order /\ u.active = st.active BY <1>6 DEF OneKbd
  <2> QED BY <1>1, <2>1, <2>2, <2>3, KbdKeeps
<1>8. /\ u.kbd[d].held = st.kbd[d].held /\ u.kbd[d].down = w /\ u.kbd[d].seat = st.kbd[d].seat
      /\ u.kbd[d].group = st.kbd[d].group /\ u.kbd[d].plugged = st.kbd[d].plugged
  BY <1>4, <1>6 DEF OneKbd
<1>9. st.kbd[d].held \subseteq st.kbd[d].down BY <1>1 DEF HeldIsDown
<1>10. press => k \notin u.kbd[d].held BY <1>8, <1>9
<1>11. h \in SUBSET Keycodes /\ h \subseteq w
  <2>1. st.kbd[d].held \subseteq Keycodes BY <1>2 DEF Keyboard
  <2>2. ~room => press BY DEF room
  <2> QED BY <1>8, <1>9, <2>1, <2>2 DEF HeldAfter
<1>12. KeysGood(st', synthetic, world) /\ Counted(st') /\ Loosed(u, st', d, h)
  <2>1. CASE room
    <3>1. press => k \notin u.kbd[d].held /\ Cardinality(u.kbd[d].held) < MaxHeld BY <1>10, <2>1
    <3>2. /\ KeysGood(st', synthetic, world) /\ Counted(st')
          /\ HeldOnly(u, st', d, HeldAfter(u, d, k, press))
      BY <1>5, <1>7, <3>1, DeviceKeyKeeps
    <3>3. u \in KeyState /\ h = HeldAfter(u, d, k, press) BY <1>7, <2>1 DEF KeysGood
    <3>4. HeldOnly(u, st', d, h) BY <3>2, <3>3
    <3> HIDE DEF h
    <3>5. Loosed(u, st', d, h) BY <1>11, <3>3, <3>4, LoosedIs
    <3> QED BY <3>2, <3>5
  <2>2. CASE ~room
    <3>1. press /\ ~(Cardinality(u.kbd[d].held) < MaxHeld) BY <2>2
    <3>2. k \in st'.kbd[d].held \/ st'.grp = u.grp BY <1>6, <3>1 DEF OneKbd
    <3>3. LET r == Keys!DeviceKey(u, d, k, press) IN k \in r.kbd[d].held \/ r.grp = u.grp BY <1>5, <3>2
    <3>4. LET r == Keys!DeviceKey(u, d, k, press)
          IN  KeysGood(r, synthetic, world) /\ Counted(r) /\ r.kbd = u.kbd
      BY <1>7, <1>10, <3>1, <3>3, UnnotedKeeps
    <3>5. KeysGood(st', synthetic, world) /\ Counted(st') /\ st'.kbd = u.kbd BY <1>5, <3>4
    <3>6. h = u.kbd[d].held BY <2>2
    <3>7. Loosed(u, st', d, h) BY <3>5, <3>6 DEF Loosed
    <3> QED BY <3>5, <3>7
  <2> QED BY <2>1, <2>2
<1>13. Loosed(u, st', d, h) BY <1>12
<1> HIDE DEF h, room
<1>14. Seated(st', synthetic, seats) /\ HeldIsDown(st')
  <2>1. \A e \in Devs : e # d => st'.kbd[e] = st.kbd[e] BY <1>6, <1>13 DEF OneKbd, Loosed
  <2>2. /\ st'.kbd[d].held = h /\ st'.kbd[d].down = w /\ st'.kbd[d].seat = st.kbd[d].seat
        /\ st'.kbd[d].group = st.kbd[d].group /\ st'.kbd[d].plugged = st.kbd[d].plugged
    BY <1>8, <1>13 DEF Loosed
  <2>3. st.kbd[d].plugged
    <3>1. ~st.kbd[d].plugged => st.kbd[d].down = {} BY <1>1 DEF HeldIsDown
    <3> QED BY <3>1
  <2>4. st.kbd[d].seat # None => seats[st.kbd[d].seat] = "live" /\ st.kbd[d].group # None BY <1>1 DEF Seated
  <2>5. Placed(st, st', d, seats) BY <1>11, <2>1, <2>2, <2>3, <2>4, Zenon DEF Placed
  <2> QED BY <1>1, <2>5, SeatedStays
<1> QED BY <1>12, <1>14, KeysWritten DEF KeysInv

\* A key goes down on a keyboard.
LEMMA DownKeeps ==
  ASSUME KeysInv, NEW d \in Devs, NEW k \in Keycodes, Keys!Down(d, k), Keys!PressIsNoted
  PROVE  KeysInv'
<1> DEFINE yes == TRUE
           w == st.kbd[d].down \cup {k}
<1>1. /\ st.kbd[d].plugged /\ k \notin st.kbd[d].down
      /\ st' = Keys!DeviceKey(KbdAs(st, d, [st.kbd[d] EXCEPT !.down = w]), d, k, yes)
      /\ UNCHANGED <<synthetic, seats, kFocused, world, kConf, changes>>
  BY DEF Keys!Down, KbdAs
<1>2. yes \in BOOLEAN /\ yes /\ w = IF yes THEN st.kbd[d].down \cup {k} ELSE st.kbd[d].down \ {k} OBVIOUS
<1>3. k \in st'.kbd[d].held \/ st'.grp = st.grp BY KeyNames DEF Keys!PressIsNoted
<1> HIDE DEF yes, w
<1> QED BY <1>1, <1>2, <1>3, KeyGoes

\* A key goes up on a keyboard.
LEMMA UpKeeps ==
  ASSUME KeysInv, NEW d \in Devs, NEW k \in Keycodes, Keys!Up(d, k)
  PROVE  KeysInv'
<1> DEFINE off == FALSE
           w == st.kbd[d].down \ {k}
<1>1. /\ k \in st.kbd[d].down
      /\ st' = Keys!DeviceKey(KbdAs(st, d, [st.kbd[d] EXCEPT !.down = w]), d, k, off)
      /\ UNCHANGED <<synthetic, seats, kFocused, world, kConf, changes>>
  BY DEF Keys!Up, KbdAs
<1>2. off \in BOOLEAN /\ ~off /\ w = IF off THEN st.kbd[d].down \cup {k} ELSE st.kbd[d].down \ {k} OBVIOUS
<1> HIDE DEF off, w
<1> QED BY <1>1, <1>2, KeyGoes

\* A step of one keyboard's.
LEMMA OneKeyboards ==
  ASSUME KeysInv, NEW d \in Devs, KeysGood(st', synthetic, world), Counted(st'), Placed(st, st', d, seats),
         UNCHANGED <<synthetic, seats, kFocused, world, kConf>>, changes' \in 0..MaxChanges
  PROVE  KeysInv'
<1>1. Seated(st, synthetic, seats) /\ HeldIsDown(st) BY DEF KeysInv
<1>2. Seated(st', synthetic, seats) /\ HeldIsDown(st') BY <1>1, SeatedStays
<1> QED BY <1>2, KeysWritten DEF KeysInv

\* A keyboard that was not plugged in, and is.
Fresh(v) == v \in Keyboard /\ v.plugged /\ v.seat = None /\ v.group = None /\ v.held = {} /\ v.down = {}

\* A keyboard that has just been plugged in.
LEMMA FreshIs ==
  ASSUME NEW c \in Configs
  PROVE  /\ Fresh([Keys!Unplugged EXCEPT !.plugged = TRUE, !.cfg = c])
         /\ Fresh([Keys!Unplugged EXCEPT !.plugged = TRUE])
         /\ Keys!Unplugged \in Keyboard /\ ~Keys!Unplugged.plugged /\ Keys!Unplugged.seat = None
         /\ Keys!Unplugged.group = None /\ Keys!Unplugged.held = {} /\ Keys!Unplugged.down = {}
<1> DEFINE cf == CHOOSE e \in Configs : TRUE
<1>1. cf \in Configs BY KeyAssumption
<1>2. Keys!Unplugged = [plugged |-> FALSE, seat |-> None, group |-> None, held |-> {}, down |-> {}, cfg |-> cf]
  BY DEF Keys!Unplugged
<1> HIDE DEF cf
<1> QED BY <1>1, <1>2 DEF Fresh, Keyboard

\* It is of no matter to the groups.
LEMMA FreshKeeps ==
  ASSUME KeysInv, NEW d \in Devs, ~st.kbd[d].plugged, NEW v, Fresh(v), NEW u, u = KbdAs(st, d, v)
  PROVE  KeysGood(u, synthetic, world) /\ Counted(u) /\ OneKbd(st, u, d, v)
<1>1. KeysGood(st, synthetic, world) /\ Counted(st) BY DEF KeysInv
<1>2. st \in KeyState /\ Member(st, d) BY <1>1 DEF KeysGood, Linked
<1>3. st.kbd[d].group = None BY <1>2 DEF Member
<1>4. v \in Keyboard /\ v.group = None BY DEF Fresh
<1>5. OneKbd(st, u, d, v) BY <1>2, <1>4, KbdIs
<1> QED BY <1>1, <1>3, <1>4, <1>5, AloneKeeps

\* It joins a seat.
LEMMA FreshAttaches ==
  ASSUME KeysInv, NEW d \in Devs, ~st.kbd[d].plugged, NEW v, Fresh(v), NEW q \in SeatNames, seats[q] = "live",
         st' = Keys!Attach(KbdAs(st, d, v), d, q),
         UNCHANGED <<synthetic, seats, kFocused, world, kConf>>, changes' \in 0..MaxChanges
  PROVE  KeysInv'
<1> DEFINE u == KbdAs(st, d, v)
<1>1. KeysGood(u, synthetic, world) /\ Counted(u) /\ OneKbd(st, u, d, v) BY FreshKeeps
<1>2. st' = Keys!Attach(u, d, q) OBVIOUS
<1> HIDE DEF u
<1>3. u.kbd[d].group = None /\ u.kbd[d].plugged BY <1>1 DEF OneKbd, Fresh
<1>4. PICK y \in Slot : KeysGood(st', synthetic, world) /\ Counted(st') /\ Moved(u, st', d, q, y)
  BY <1>1, <1>2, <1>3, AttachKeeps
<1>5. Placed(st, st', d, seats)
  <2>1. \A e \in Devs : e # d => st'.kbd[e] = st.kbd[e] BY <1>1, <1>4 DEF OneKbd, Moved
  <2>2. /\ st'.kbd[d].held = {} /\ st'.kbd[d].plugged /\ st'.kbd[d].seat = q /\ st'.kbd[d].group = y
    BY <1>1, <1>3, <1>4 DEF OneKbd, Moved, Fresh
  <2>3. y # None BY KeyNames
  <2> QED BY <2>1, <2>2, <2>3 DEF Placed
<1> QED BY <1>4, <1>5, OneKeyboards

\* A keyboard is plugged in: it joins the default seat.
LEMMA PlugInKeeps ==
  ASSUME KeysInv, NEW d \in Devs, Keys!PlugIn(d), changes' \in 0..MaxChanges
  PROVE  KeysInv'
<1> DEFINE v == [Keys!Unplugged EXCEPT !.plugged = TRUE, !.cfg = kConf]
           q == "default"
<1>1. /\ ~st.kbd[d].plugged /\ st' = Keys!Attach(KbdAs(st, d, v), d, q)
      /\ UNCHANGED <<synthetic, seats, kFocused, world, kConf>>
  BY DEF Keys!PlugIn, KbdAs
<1>2. kConf \in Configs /\ seats[q] = "live" BY DEF KeysInv, Seated
<1>3. Fresh(v) BY <1>2, FreshIs, Zenon
<1>4. q \in SeatNames BY DEF SeatNames
<1> HIDE DEF v, q
<1> QED BY <1>1, <1>2, <1>3, <1>4, FreshAttaches

\* A client makes a virtual keyboard, which joins its seat unless that is on its way out.
LEMMA NewVirtualKeeps ==
  ASSUME KeysInv, NEW d \in Devs, NEW q \in SeatNames, Keys!NewVirtual(d, q), changes' \in 0..MaxChanges
  PROVE  KeysInv'
<1> DEFINE v == [Keys!Unplugged EXCEPT !.plugged = TRUE]
           u == KbdAs(st, d, v)
<1>1. /\ ~st.kbd[d].plugged /\ seats[q] # "absent"
      /\ st' = IF seats[q] = "leaving" THEN u ELSE Keys!Attach(u, d, q)
      /\ UNCHANGED <<synthetic, seats, kFocused, world, kConf>>
  BY DEF Keys!NewVirtual, KbdAs
<1>2. Fresh(v) BY FreshIs, KeyAssumption, Zenon
<1>3. seats[q] \in {"absent", "live", "leaving"} BY DEF KeysInv, Seated
<1> HIDE DEF v
<1>4. CASE seats[q] = "leaving"
  <2>1. st' = u BY <1>1, <1>4
  <2>2. KeysGood(u, synthetic, world) /\ Counted(u) /\ OneKbd(st, u, d, v) BY <1>1, <1>2, FreshKeeps
  <2> HIDE DEF u
  <2>3. Placed(st, st', d, seats) BY <1>2, <2>1, <2>2 DEF Placed, OneKbd, Fresh
  <2> QED BY <1>1, <2>1, <2>2, <2>3, OneKeyboards
<1>5. CASE seats[q] = "live"
  <2>1. st' = Keys!Attach(KbdAs(st, d, v), d, q) BY <1>1, <1>5
  <2> QED BY <1>1, <1>2, <1>5, <2>1, FreshAttaches
<1> QED BY <1>1, <1>3, <1>4, <1>5

\* A keyboard goes: what it held is released, then it leaves its group.
LEMMA UnplugKeeps ==
  ASSUME KeysInv, NEW d \in Devs, Keys!Unplug(d), changes' \in 0..MaxChanges
  PROVE  KeysInv'
<1> DEFINE end == Keys!Finish(st, d)
           h == st.kbd[d].held \ st.kbd[d].down
           idle == Keys!ReleasePressed(end, d)
           left == Keys!LeaveGroup(idle, d)
           v == Keys!Unplugged
<1>0. st' = KbdAs(left, d, v) /\ UNCHANGED <<synthetic, seats, kFocused, world, kConf>>
  BY DEF Keys!Unplug, KbdAs
<1>1. KeysGood(st, synthetic, world) /\ Counted(st) BY DEF KeysInv
<1>2. /\ v \in Keyboard /\ ~v.plugged /\ v.seat = None /\ v.group = None /\ v.held = {} /\ v.down = {}
  BY FreshIs, KeyAssumption, Zenon
<1>3. KeysGood(end, synthetic, world) /\ Counted(end) /\ HeldOnly(st, end, d, h) BY <1>1, FinishKeeps
<1>4. h \in SUBSET Keycodes /\ st \in KeyState
  <2>1. st \in KeyState BY <1>1 DEF KeysGood
  <2>2. st.kbd[d].held \subseteq Keycodes BY <2>1, KeyFields DEF Keyboard
  <2> QED BY <2>1, <2>2
<1> HIDE DEF end, h, v
<1>5. Loosed(st, end, d, h) BY <1>3, <1>4, LoosedIs
<1>6. KeysGood(idle, synthetic, world) /\ Counted(idle) /\ Loosed(end, idle, d, {}) BY <1>3, ReleaseLooses
<1> HIDE DEF idle
<1>7. KeysGood(left, synthetic, world) /\ Counted(left) /\ Moved(idle, left, d, idle.kbd[d].seat, None)
  <2>1. idle.kbd[d].held = {} BY <1>6 DEF Loosed
  <2> QED BY <1>6, <2>1, LeaveGroupKeeps
<1> HIDE DEF left
<1>8. OneKbd(left, st', d, v)
  <2>1. left \in KeyState BY <1>7 DEF KeysGood
  <2> QED BY <1>0, <1>2, <2>1, KbdIs
<1>9. KeysGood(st', synthetic, world) /\ Counted(st')
  <2>1. left.kbd[d].group = None BY <1>7 DEF Moved
  <2> QED BY <1>2, <1>7, <1>8, <2>1, AloneKeeps
<1>10. Placed(st, st', d, seats)
  <2>1. \A e \in Devs : e # d => st'.kbd[e] = st.kbd[e] BY <1>5, <1>6, <1>7, <1>8 DEF OneKbd, Moved, Loosed
  <2>2. st'.kbd[d] = v BY <1>8 DEF OneKbd
  <2> QED BY <1>2, <2>1, <2>2 DEF Placed
<1> QED BY <1>0, <1>9, <1>10, OneKeyboards

\* A keyboard is assigned to the other seat.
LEMMA AssignToSeatKeeps ==
  ASSUME KeysInv, NEW d \in Devs, NEW q \in SeatNames, Keys!AssignToSeat(d, q), changes' \in 0..MaxChanges
  PROVE  KeysInv'
<1> DEFINE idle == Keys!ReleasePressed(st, d)
<1>1. /\ st.kbd[d].plugged /\ seats[q] = "live" /\ st' = Keys!Reassign(idle, d, q)
      /\ UNCHANGED <<synthetic, seats, kFocused, world, kConf>>
  BY DEF Keys!AssignToSeat
<1>2. KeysGood(idle, synthetic, world) /\ Counted(idle) /\ Loosed(st, idle, d, {}) BY ReleaseLooses DEF KeysInv
<1> HIDE DEF idle
<1>3. q \in SeatNames \cup {None} /\ q # None BY KeyNames
<1>4. idle.kbd[d].held = {} /\ idle.kbd[d].plugged BY <1>1, <1>2 DEF Loosed
<1>5. PICK y \in Slot \cup {None} :
         KeysGood(st', synthetic, world) /\ Counted(st') /\ Moved(idle, st', d, q, y) /\ (q # None => y # None)
  BY <1>1, <1>2, <1>3, <1>4, ReassignKeeps
<1>6. Placed(st, st', d, seats)
  <2>1. \A e \in Devs : e # d => st'.kbd[e] = st.kbd[e] BY <1>2, <1>5 DEF Moved, Loosed
  <2>2. st'.kbd[d].held = {} /\ st'.kbd[d].plugged /\ st'.kbd[d].seat = q /\ st'.kbd[d].group # None
    BY <1>3, <1>4, <1>5 DEF Moved
  <2> QED BY <1>1, <2>1, <2>2 DEF Placed
<1> QED BY <1>1, <1>5, <1>6, OneKeyboards

\* A keyboard gets another configuration, and so another group.
LEMMA RegroupKeeps ==
  ASSUME KeysInv, NEW d \in Devs, NEW c \in Configs, Keys!Regroup(d, c), changes' \in 0..MaxChanges
  PROVE  KeysInv'
<1> DEFINE idle == Keys!ReleasePressed(st, d)
           left == Keys!LeaveGroup(idle, d)
           v == [left.kbd[d] EXCEPT !.cfg = c]
           new == KbdAs(left, d, v)
<1>1. /\ st.kbd[d].plugged
      /\ st' = IF new.kbd[d].seat = None THEN new ELSE Keys!SetGroup(new, d, new.kbd[d].seat)
      /\ UNCHANGED <<synthetic, seats, kFocused, world, kConf>>
  BY DEF Keys!Regroup, KbdAs
<1>2. KeysGood(idle, synthetic, world) /\ Counted(idle) /\ Loosed(st, idle, d, {}) BY ReleaseLooses DEF KeysInv
<1> HIDE DEF idle
<1>3. KeysGood(left, synthetic, world) /\ Counted(left) /\ Moved(idle, left, d, idle.kbd[d].seat, None)
  <2>1. idle.kbd[d].held = {} BY <1>2 DEF Loosed
  <2> QED BY <1>2, <2>1, LeaveGroupKeeps
<1> HIDE DEF left
<1>4. left \in KeyState /\ left.kbd[d] \in Keyboard /\ left.kbd[d].group = None
  <2>1. left \in KeyState BY <1>3 DEF KeysGood
  <2> QED BY <1>3, <2>1, KeyFields DEF Moved
<1>5. /\ v \in Keyboard /\ v.group = None /\ v.seat = left.kbd[d].seat /\ v.plugged = left.kbd[d].plugged
      /\ v.held = left.kbd[d].held /\ v.down = left.kbd[d].down
  BY <1>4 DEF Keyboard
<1> HIDE DEF v
<1>6. OneKbd(left, new, d, v) BY <1>4, <1>5, KbdIs
<1> HIDE DEF new
<1>7. KeysGood(new, synthetic, world) /\ Counted(new) BY <1>3, <1>4, <1>5, <1>6, AloneKeeps
<1>8. /\ \A e \in Devs : e # d => new.kbd[e] = st.kbd[e]
      /\ new.kbd[d].seat = st.kbd[d].seat /\ new.kbd[d].group = None /\ new.kbd[d].plugged /\ new.kbd[d].held = {}
  BY <1>1, <1>2, <1>3, <1>5, <1>6 DEF Loosed, Moved, OneKbd
<1>9. CASE new.kbd[d].seat = None
  <2>1. st' = new BY <1>1, <1>9
  <2>2. Placed(st, st', d, seats) BY <1>8, <1>9, <2>1 DEF Placed
  <2> QED BY <1>1, <1>7, <2>1, <2>2, OneKeyboards
<1>10. CASE new.kbd[d].seat # None
  <2> DEFINE q == new.kbd[d].seat
  <2>1. st' = Keys!SetGroup(new, d, q) BY <1>1, <1>10
  <2>2. q \in SeatNames
    <3>1. new \in KeyState BY <1>7 DEF KeysGood
    <3>2. new.kbd[d] \in Keyboard BY <3>1, KeyFields
    <3> QED BY <1>10, <3>2 DEF Keyboard
  <2>3. seats[q] = "live" BY <1>8, <1>10 DEF KeysInv, Seated
  <2>4. new.kbd[d].seat = q OBVIOUS
  <2> HIDE DEF q
  <2>5. PICK y \in Slot : KeysGood(st', synthetic, world) /\ Counted(st') /\ Moved(new, st', d, q, y)
    BY <1>7, <1>8, <2>1, <2>2, <2>4, SetGroupKeeps
  <2>6. Placed(st, st', d, seats)
    <3>1. \A e \in Devs : e # d => st'.kbd[e] = st.kbd[e] BY <1>8, <2>5 DEF Moved
    <3>2. st'.kbd[d].held = {} /\ st'.kbd[d].plugged /\ st'.kbd[d].seat = q /\ st'.kbd[d].group = y
      BY <1>8, <2>5 DEF Moved
    <3>3. y # None BY KeyNames
    <3> QED BY <2>3, <3>1, <3>2, <3>3 DEF Placed
  <2> QED BY <1>1, <2>5, <2>6, OneKeyboards
<1> QED BY <1>9, <1>10

\* The repeat settings change in place, on every hardware keyboard and its group.
LEMMA ApplyKeyRepeatKeeps ==
  ASSUME KeysInv, NEW c \in Configs, Keys!ApplyKeyRepeat(c), changes' \in 0..MaxChanges
  PROVE  KeysInv'
<1> DEFINE theirs == {st.kbd[d].group : d \in {e \in Hardware : st.kbd[e].plugged}}
           kk == [d \in Devs |-> IF d \in Hardware /\ st.kbd[d].plugged THEN [st.kbd[d] EXCEPT !.cfg = c]
                                                                        ELSE st.kbd[d]]
           gg == [y \in Slot |-> IF y \in theirs THEN [st.grp[y] EXCEPT !.cfg = c] ELSE st.grp[y]]
<1>1. /\ st' = [st EXCEPT !.kbd = kk, !.grp = gg] /\ kConf' = c
      /\ UNCHANGED <<synthetic, seats, kFocused, world>>
  BY KeyNames DEF Keys!ApplyKeyRepeat
<1>2. KeysGood(st, synthetic, world) /\ Counted(st) /\ Seated(st, synthetic, seats) /\ HeldIsDown(st)
  BY DEF KeysInv
<1>3. st \in KeyState /\ Linked(st, synthetic) /\ Taken(st) /\ Released(st, world) BY <1>2 DEF KeysGood
<1>4. ASSUME NEW d \in Devs
      PROVE  /\ kk[d] \in Keyboard /\ kk[d].plugged = st.kbd[d].plugged /\ kk[d].seat = st.kbd[d].seat
             /\ kk[d].group = st.kbd[d].group /\ kk[d].held = st.kbd[d].held /\ kk[d].down = st.kbd[d].down
             /\ d \in Hardware /\ st.kbd[d].plugged => kk[d].cfg = c
  <2>1. st.kbd[d] \in Keyboard BY <1>3, KeyFields
  <2>2. kk[d] = IF d \in Hardware /\ st.kbd[d].plugged THEN [st.kbd[d] EXCEPT !.cfg = c] ELSE st.kbd[d] OBVIOUS
  <2> HIDE DEF kk
  <2> QED BY <2>1, <2>2 DEF Keyboard
<1>5. ASSUME NEW y \in Slot
      PROVE  /\ gg[y] \in Group /\ gg[y].refs = st.grp[y].refs /\ gg[y].seat = st.grp[y].seat
             /\ gg[y].virtual = st.grp[y].virtual /\ gg[y].by = st.grp[y].by /\ gg[y].n = st.grp[y].n
             /\ y \in theirs => gg[y].cfg = c
  <2>1. st.grp[y] \in Group BY <1>3, KeyFields
  <2>2. gg[y] = IF y \in theirs THEN [st.grp[y] EXCEPT !.cfg = c] ELSE st.grp[y] OBVIOUS
  <2> HIDE DEF gg, theirs
  <2> QED BY <2>1, <2>2 DEF Group
<1>6. ASSUME NEW d \in Devs, d \in Hardware, st.kbd[d].plugged PROVE st.kbd[d].group \in theirs BY <1>6
<1>7. kk \in [Devs -> Keyboard] /\ gg \in [Slot -> Group]
  <2>1. kk = [d \in Devs |-> kk[d]] /\ gg = [y \in Slot |-> gg[y]] OBVIOUS
  <2> HIDE DEF kk, gg, theirs
  <2> QED BY <1>4, <1>5, <2>1
<1> HIDE DEF kk, gg, theirs
<1>8. /\ st' \in KeyState /\ st'.kbd = kk /\ st'.grp = gg /\ st'.order = st.order /\ st'.active = st.active
      /\ st'.entered = st.entered /\ st'.told = st.told /\ st'.listed = st.listed
      /\ st'.shortcuts = st.shortcuts /\ st'.imKeys = st.imKeys
  BY <1>1, <1>3, <1>7 DEF KeyState
<1>9. \A z : Its(st', z) = Its(st, z) BY <1>4, <1>8 DEF Its
<1>10. Linked(st', synthetic)
  <2>1. ASSUME NEW d \in Devs PROVE Member(st', d)
    <3>1. Member(st, d) BY <1>3 DEF Linked
    <3> DEFINE y == st.kbd[d].group
    <3>2. st'.kbd[d].group = y BY <1>4, <1>8
    <3>3. CASE y = None BY <3>2, <3>3 DEF Member
    <3>4. CASE y # None
      <4>1. y \in Slot
        <5>1. st.kbd[d] \in Keyboard BY <1>3, KeyFields
        <5> QED BY <3>4, <5>1 DEF Keyboard
      <4>2. /\ st.kbd[d].plugged /\ st.grp[y].refs > 0 /\ st.grp[y].seat = st.kbd[d].seat
            /\ st.grp[y].virtual <=> d \in Virtual
            /\ d \in Virtual => Its(st, y) = {d}
        BY <3>1, <3>4 DEF Member
      <4>3. d \in Hardware => st'.grp[y].cfg = st'.kbd[d].cfg BY <1>4, <1>5, <1>6, <1>8, <4>1, <4>2
      <4>4. /\ st'.kbd[d].plugged /\ st'.grp[y].refs > 0 /\ st'.grp[y].seat = st'.kbd[d].seat
            /\ st'.grp[y].virtual <=> d \in Virtual
        BY <1>4, <1>5, <1>8, <4>1, <4>2
      <4>5. d \in Virtual => Its(st', y) = {d} BY <1>9, <4>2
      <4> HIDE DEF y
      <4> QED BY <3>2, <4>3, <4>4, <4>5 DEF Member
    <3> QED BY <3>3, <3>4
  <2>2. Listed(st') BY <1>3, <1>5, <1>8 DEF Linked, Listed
  <2>3. Referred(st', synthetic) BY <1>3, <1>5, <1>8, <1>9 DEF Linked, Referred
  <2>4. synthetic \in [SeatNames -> Slot \cup {None}] BY <1>3 DEF Linked
  <2>5. MadeUp(st', synthetic)
    <3>1. \A q \in SeatNames : synthetic[q] # None => synthetic[q] \in Slot BY <2>4
    <3>2. MadeUp(st, synthetic) BY <1>3 DEF Linked
    <3> QED BY <1>5, <1>8, <1>9, <3>1, <3>2 DEF MadeUp
  <2>6. ActiveLives(st')
    <3>1. \A q \in SeatNames : st.active[q] # None => st.active[q] \in Slot BY <1>3, KeyFields
    <3>2. ActiveLives(st) BY <1>3 DEF Linked
    <3> QED BY <1>5, <1>8, <3>1, <3>2 DEF ActiveLives
  <2> QED BY <2>1, <2>2, <2>3, <2>4, <2>5, <2>6 DEF Linked
<1>11. Taken(st') BY <1>3, <1>5, <1>8 DEF Taken
<1>12. Released(st', world)
  <2>1. \A y \in Slot : st'.grp[y].refs = st.grp[y].refs /\ st'.grp[y].seat = st.grp[y].seat
                        /\ st'.grp[y].by = st.grp[y].by
    BY <1>5, <1>8
  <2> QED BY <1>3, <1>8, <2>1 DEF Released, HoldsFor
<1>13. Counted(st')
  <2>1. \A z, k : Holders(st', z, k) = Holders(st, z, k)
    <3>1. \A d \in Devs : st'.kbd[d].held = st.kbd[d].held BY <1>4, <1>8
    <3>2. \A z : Its(st, z) \subseteq Devs BY DEF Its
    <3> QED BY <1>9, <3>1, <3>2 DEF Holders
  <2> QED BY <1>2, <1>5, <1>8, <2>1 DEF Counted
<1>14. KeysGood(st', synthetic, world) BY <1>8, <1>10, <1>11, <1>12 DEF KeysGood
<1>15. \A d \in Devs : /\ st'.kbd[d].plugged = st.kbd[d].plugged /\ st'.kbd[d].seat = st.kbd[d].seat
                       /\ st'.kbd[d].group = st.kbd[d].group /\ st'.kbd[d].held = st.kbd[d].held
                       /\ st'.kbd[d].down = st.kbd[d].down
  BY <1>4, <1>8
<1>16. Seated(st', synthetic, seats) BY <1>2, <1>15 DEF Seated
<1>17. HeldIsDown(st') BY <1>2, <1>15 DEF HeldIsDown
<1> QED BY <1>1, <1>13, <1>14, <1>16, <1>17, KeysWritten DEF KeysInv

\* A seat's made-up keyboard refers to the group that was made for it.
LEMMA MadeUpOwes ==
  ASSUME NEW s \in KeyState, NEW r, NEW syn, NEW q \in SeatNames, NEW y \in Slot,
         Frame(s, syn), Owes(s, syn, y), syn[q] = None, MadeFor(syn, y) = {}, Its(s, y) = {},
         s.grp[y].refs > 0, s.grp[y].seat = q, s.grp[y].virtual, SetTo(s, r, q, y)
  PROVE  Linked(r, [syn EXCEPT ![q] = y])
<1> DEFINE syn2 == [syn EXCEPT ![q] = y]
<1>1. syn \in [SeatNames -> Slot \cup {None}] BY DEF Frame
<1>2. syn2 \in [SeatNames -> Slot \cup {None}] /\ syn2[q] = y /\ \A e \in SeatNames : e # q => syn2[e] = syn[e]
  BY <1>1
<1> HIDE DEF syn2
<1>3. r \in KeyState /\ r.kbd = s.kbd /\ r.grp = s.grp /\ r.order = s.order BY DEF SetTo
<1>4. r.active[q] = y /\ \A e \in SeatNames : e # q => r.active[e] = s.active[e]
  <2>1. s.active \in [SeatNames -> Slot \cup {None}] BY DEF KeyState
  <2>2. r.active = [s.active EXCEPT ![q] = y] BY DEF SetTo
  <2> QED BY <2>1, <2>2
<1>5. \A z : Its(r, z) = Its(s, z) BY <1>3 DEF Its
<1>6. Frame(r, syn2)
  <2>1. \A d \in Devs : Member(r, d) BY <1>3, <1>5 DEF Frame, Member
  <2>2. Listed(r) BY <1>3 DEF Frame, Listed
  <2>3. MadeUp(r, syn2)
    <3> SUFFICES ASSUME NEW e \in SeatNames, syn2[e] # None
                 PROVE  /\ r.grp[syn2[e]].refs > 0 /\ r.grp[syn2[e]].seat = e /\ r.grp[syn2[e]].virtual
                        /\ r.active[e] # None /\ Its(r, syn2[e]) = {}
      BY DEF MadeUp
    <3>1. CASE e = q BY <1>2, <1>3, <1>4, <1>5, <3>1, KeyNames
    <3>2. CASE e # q
      <4>1. syn2[e] = syn[e] /\ r.active[e] = s.active[e] BY <1>2, <1>4, <3>2
      <4> QED BY <1>3, <1>5, <4>1 DEF Frame, MadeUp
    <3> QED BY <3>1, <3>2
  <2>4. ActiveLives(r) BY <1>3, <1>4 DEF Frame, ActiveLives
  <2> QED BY <1>2, <2>1, <2>2, <2>3, <2>4 DEF Frame
<1>7. Owes(r, syn2, None)
  <2> SUFFICES ASSUME NEW z \in Slot
               PROVE  r.grp[z].refs = Cardinality(Its(r, z)) + Cardinality(MadeFor(syn2, z)) + 0
    BY KeyNames DEF Owes
  <2>0. r.grp[z].refs = Cardinality(Its(r, z)) + Cardinality(MadeFor(syn, z)) + (IF z = y THEN 1 ELSE 0)
    BY <1>3, <1>5 DEF Owes
  <2>1. CASE z = y
    <3>1. MadeFor(syn2, y) = {q}
      <4>1. \A e \in SeatNames : syn[e] # y BY DEF MadeFor
      <4> QED BY <1>2, <4>1 DEF MadeFor
    <3>2. Cardinality(MadeFor(syn2, y)) = 1 /\ Cardinality(MadeFor(syn, y)) = 0
      BY <3>1, FS_Singleton, FS_EmptySet
    <3>3. Cardinality(Its(r, y)) \in Nat BY ItsFinite
    <3>4. r.grp[y].refs = Cardinality(Its(r, y)) + Cardinality(MadeFor(syn, y)) + 1 BY <2>0, <2>1
    <3>5. r.grp[y].refs = Cardinality(Its(r, y)) + 1 BY <3>2, <3>3, <3>4
    <3>6. r.grp[y].refs = Cardinality(Its(r, y)) + Cardinality(MadeFor(syn2, y)) + 0 BY <3>2, <3>3, <3>5
    <3> QED BY <2>1, <3>6
  <2>2. CASE z # y
    <3>1. MadeFor(syn2, z) = MadeFor(syn, z)
      <4>1. z # None BY KeyNames
      <4> QED BY <1>2, <2>2, <4>1 DEF MadeFor
    <3> QED BY <2>0, <2>2, <3>1
  <2> QED BY <2>1, <2>2
<1> QED BY <1>6, <1>7, LinkedIs DEF syn2

\* Before keys are made up for a seat without a keyboard, one is.
LEMMA EnsureSyntheticKeeps ==
  ASSUME KeysInv, NEW q \in SeatNames, Keys!EnsureSynthetic(q), changes' \in 0..MaxChanges
  PROVE  KeysInv'
<1> DEFINE cf == CHOOSE c \in Configs : TRUE
           y == Keys!NewGroup(st)
           yes == TRUE
           u == Keys!Create(st, q, y, cf, yes)
<1>1. /\ seats[q] # "absent" /\ st.active[q] = None
      /\ synthetic' = [synthetic EXCEPT ![q] = y] /\ st' = Keys!SetKeyboard(u, q, y)
      /\ UNCHANGED <<seats, kFocused, world, kConf>>
  BY DEF Keys!EnsureSynthetic
<1>2. KeysGood(st, synthetic, world) /\ Counted(st) /\ Seated(st, synthetic, seats) /\ HeldIsDown(st)
  BY DEF KeysInv
<1>3. st \in KeyState /\ Linked(st, synthetic) BY <1>2 DEF KeysGood
<1>4. synthetic[q] = None BY <1>1, <1>3 DEF Linked, MadeUp
<1>5. y \in Slot /\ st.grp[y].refs = 0 BY <1>3, <1>4, FreeSlot
<1>6. cf \in Configs /\ yes \in BOOLEAN BY KeyAssumption
<1> HIDE DEF cf, y, yes
<1>7. Made(st, u, q, y, cf, yes) BY <1>3, <1>5, <1>6, CreateIs
<1>8. u \in KeyState /\ u.kbd = st.kbd /\ u.grp[y].refs = 1 /\ u.grp[y].seat = q /\ u.grp[y].virtual = yes
  BY <1>7 DEF Made
<1>9. /\ Frame(u, synthetic) /\ Owes(u, synthetic, y) /\ Taken(u) /\ Released(u, world) /\ Counted(u)
      /\ Its(u, y) = {} /\ MadeFor(synthetic, y) = {}
  BY <1>2, <1>5, <1>7, CreateOwes
<1> HIDE DEF u
<1>10. SetTo(u, st', q, y) BY <1>1, <1>5, <1>8, SetKeyboardIs
<1>11. Linked(st', synthetic')
  <2>1. u.grp[y].refs > 0 /\ u.grp[y].virtual BY <1>8 DEF yes
  <2>2. Linked(st', [synthetic EXCEPT ![q] = y]) BY <1>4, <1>5, <1>8, <1>9, <1>10, <2>1, MadeUpOwes
  <2> QED BY <1>1, <2>2
<1>12. /\ st' \in KeyState /\ st'.kbd = st.kbd /\ st'.grp = u.grp /\ st'.entered = u.entered
       /\ st'.told = u.told /\ st'.listed = u.listed /\ st'.shortcuts = u.shortcuts /\ st'.imKeys = u.imKeys
  BY <1>8, <1>10 DEF SetTo
<1>13. Taken(st') BY <1>9, <1>12 DEF Taken
<1>14. Released(st', world) BY <1>9, <1>12 DEF Released, HoldsFor
<1>15. Counted(st') BY <1>8, <1>9, <1>12 DEF Counted, Holders, Its
<1>16. KeysGood(st', synthetic', world) BY <1>11, <1>12, <1>13, <1>14 DEF KeysGood
<1>17. HeldIsDown(st') BY <1>2, <1>12 DEF HeldIsDown
<1>18. Seated(st', synthetic', seats)
  <2>1. \A e \in SeatNames : e # q => synthetic'[e] = synthetic[e] BY <1>1, <1>3 DEF Linked
  <2> QED BY <1>1, <1>2, <1>12, <2>1 DEF Seated
<1> QED BY <1>1, <1>15, <1>16, <1>17, <1>18, KeysWritten DEF KeysInv

\* The other seat is made.
LEMMA CreateSeatKeeps ==
  ASSUME KeysInv, Keys!CreateSeat, changes' \in 0..MaxChanges
  PROVE  KeysInv'
<1>1. /\ seats' = [seats EXCEPT !["other"] = "live"] /\ UNCHANGED <<st, synthetic, kFocused, world, kConf>>
  BY DEF Keys!CreateSeat
<1>2. seats \in [SeatNames -> {"absent", "live", "leaving"}] /\ Seated(st, synthetic, seats) BY DEF KeysInv, Seated
<1>3. /\ seats' \in [SeatNames -> {"absent", "live", "leaving"}] /\ seats'["other"] = "live"
      /\ \A q \in SeatNames : q # "other" => seats'[q] = seats[q]
  BY <1>1, <1>2 DEF SeatNames
<1>4. Seated(st, synthetic, seats')
  <2>1. seats'["default"] = "live" BY <1>2, <1>3 DEF Seated, SeatNames
  <2>2. \A d \in Devs : st.kbd[d].seat # None => st.kbd[d].seat \in SeatNames
    <3>1. st \in KeyState BY DEF KeysInv, KeysGood
    <3> QED BY <3>1 DEF KeyState, Keyboard
  <2>3. \A d \in Devs : st.kbd[d].seat # None => seats'[st.kbd[d].seat] = "live" /\ st.kbd[d].group # None
    BY <1>2, <1>3, <2>2 DEF Seated
  <2>4. \A q \in SeatNames : seats'[q] = "absent" => synthetic[q] = None BY <1>2, <1>3 DEF Seated
  <2> QED BY <1>3, <2>1, <2>3, <2>4 DEF Seated
<1> QED BY <1>1, <1>4, KeysWritten DEF KeysInv

\* A seat is on its way out: its keyboards let go and move to the default seat.
LEMMA DestroySeatKeeps ==
  ASSUME KeysInv, Keys!DestroySeat, changes' \in 0..MaxChanges
  PROVE  KeysInv'
<1> DEFINE its == {d \in Hardware \cup Virtual : st.kbd[d].plugged /\ st.kbd[d].seat = "other"}
           idle == IdleAll(st, its)
<1>1. /\ seats["other"] = "live" /\ seats' = [seats EXCEPT !["other"] = "leaving"]
      /\ UNCHANGED <<synthetic, kFocused, world, kConf>>
  BY Zenon DEF Keys!DestroySeat
<1>2. st' = MoveAll(idle, its) BY Zenon DEF Keys!DestroySeat, Keys!Devices, MoveAll, IdleAll
<1>3. KeysGood(st, synthetic, world) /\ Counted(st) /\ Seated(st, synthetic, seats) /\ HeldIsDown(st)
  BY DEF KeysInv
<1>4. its \in SUBSET Devs BY DEF Devs
<1>5. \A d \in Devs : d \in its <=> st.kbd[d].plugged /\ st.kbd[d].seat = "other" BY DEF Devs
<1> HIDE DEF its
<1>6. KeysGood(idle, synthetic, world) /\ Counted(idle) /\ IdleOf(st, idle, its) BY <1>3, <1>4, IdleKeeps
<1> HIDE DEF idle
<1>7. \A d \in its : idle.kbd[d].held = {} /\ idle.kbd[d].plugged BY <1>4, <1>5, <1>6 DEF IdleOf
<1>8. KeysGood(st', synthetic, world) /\ Counted(st') /\ MovedOf(idle, st', its)
  BY <1>2, <1>4, <1>6, <1>7, MoveKeeps
<1>9. ASSUME NEW d \in Devs
      PROVE  /\ st'.kbd[d].seat # None => st'.kbd[d].seat = "default" /\ st'.kbd[d].group # None
             /\ st'.kbd[d].held \subseteq st'.kbd[d].down
             /\ ~st'.kbd[d].plugged => st'.kbd[d].down = {} /\ st'.kbd[d].seat = None
  <2>1. /\ st.kbd[d].held \subseteq st.kbd[d].down
        /\ ~st.kbd[d].plugged => st.kbd[d].down = {} /\ st.kbd[d].seat = None
        /\ st.kbd[d].seat # None => st.kbd[d].group # None
    BY <1>3 DEF HeldIsDown, Seated
  <2>2. CASE d \in its
    <3>1. /\ st'.kbd[d].held = {} /\ st'.kbd[d].plugged
          /\ st'.kbd[d].seat \in {"default", None} /\ (st'.kbd[d].seat # None => st'.kbd[d].group # None)
      BY <1>7, <1>8, <2>2 DEF MovedOf
    <3> QED BY <3>1
  <2>3. CASE d \notin its
    <3>1. /\ st'.kbd[d].held = st.kbd[d].held /\ st'.kbd[d].down = st.kbd[d].down
          /\ st'.kbd[d].plugged = st.kbd[d].plugged /\ st'.kbd[d].seat = st.kbd[d].seat
          /\ st'.kbd[d].group = st.kbd[d].group
      BY <1>6, <1>8, <2>3 DEF MovedOf, IdleOf
    <3>2. st.kbd[d].seat \in SeatNames \cup {None}
      <4>1. st \in KeyState BY <1>3 DEF KeysGood
      <4> QED BY <4>1, KeyFields DEF Keyboard
    <3>3. st.kbd[d].seat # "other" BY <1>5, <2>1, <2>3, KeyNames DEF SeatNames
    <3> QED BY <2>1, <3>1, <3>2, <3>3 DEF SeatNames
  <2> QED BY <2>2, <2>3
<1>10. /\ seats' \in [SeatNames -> {"absent", "live", "leaving"}] /\ seats'["default"] = "live"
       /\ \A q \in SeatNames : seats'[q] = "absent" => seats[q] = "absent"
  BY <1>1, <1>3 DEF Seated, SeatNames
<1>11. Seated(st', synthetic, seats') BY <1>3, <1>9, <1>10 DEF Seated
<1>12. HeldIsDown(st') BY <1>9 DEF HeldIsDown
<1> QED BY <1>1, <1>8, <1>11, <1>12, KeysWritten DEF KeysInv

\* A seat that has gone has no group made up for it.
LEMMA SyntheticGoes ==
  ASSUME NEW s, NEW syn, NEW wo, KeysGood(s, syn, wo), Counted(s), NEW q \in SeatNames
  PROVE  LET r == IF syn[q] = None THEN s ELSE Keys!Unref(s, syn[q])
         IN  KeysGood(r, [syn EXCEPT ![q] = None], wo) /\ Counted(r) /\ r.kbd = s.kbd
<1> DEFINE r == IF syn[q] = None THEN s ELSE Keys!Unref(s, syn[q])
           syn2 == [syn EXCEPT ![q] = None]
<1>1. /\ s \in KeyState /\ Linked(s, syn) /\ Taken(s) /\ Released(s, wo)
      /\ syn \in [SeatNames -> Slot \cup {None}]
  BY DEF KeysGood, Linked
<1>2. /\ syn2 \in [SeatNames -> Slot \cup {None}] /\ syn2[q] = None
      /\ \A e \in SeatNames : e # q => syn2[e] = syn[e]
  BY <1>1
<1>3. syn[q] = None => syn2 = syn BY <1>1
<1> HIDE DEF syn2
<1>4. CASE syn[q] = None BY <1>3, <1>4 DEF syn2
<1>5. CASE syn[q] # None
  <2> DEFINE y == syn[q]
  <2>1. y \in Slot /\ r = Keys!Unref(s, y) BY <1>1, <1>5
  <2>2. Frame(s, syn) /\ Owes(s, syn, None) BY <1>1, LinkedIs
  <2>3. Frame(s, syn2)
    <3>1. MadeUp(s, syn2)
      <4>1. \A e \in SeatNames : syn2[e] # None => syn[e] # None /\ syn2[e] = syn[e] BY <1>2
      <4> QED BY <2>2, <4>1 DEF Frame, MadeUp
    <3> QED BY <1>2, <2>2, <3>1 DEF Frame
  <2>4. Owes(s, syn2, y)
    <3> SUFFICES ASSUME NEW z \in Slot
                 PROVE  s.grp[z].refs = Cardinality(Its(s, z)) + Cardinality(MadeFor(syn2, z)) + (IF z = y THEN 1 ELSE 0)
      BY DEF Owes
    <3>0. s.grp[z].refs = Cardinality(Its(s, z)) + Cardinality(MadeFor(syn, z)) + 0 BY <2>2, KeyNames DEF Owes
    <3>n. /\ Cardinality(Its(s, z)) \in Nat /\ IsFiniteSet(MadeFor(syn, z)) /\ Cardinality(MadeFor(syn, z)) \in Nat
          /\ Cardinality(MadeFor(syn2, z)) \in Nat
      BY ItsFinite, MadeForFinite
    <3>1. CASE z = y
      <4>1. MadeFor(syn2, z) = MadeFor(syn, z) \ {q} BY <1>2, <2>1, <3>1, KeyNames DEF MadeFor
      <4>2. q \in MadeFor(syn, z) BY <3>1 DEF MadeFor
      <4>3. Cardinality(MadeFor(syn2, z)) = Cardinality(MadeFor(syn, z)) - 1 BY <3>n, <4>1, <4>2, FS_RemoveElement
      <4>4. s.grp[z].refs = Cardinality(Its(s, z)) + Cardinality(MadeFor(syn2, z)) + 1 BY <3>0, <3>n, <4>3
      <4> QED BY <3>1, <4>4
    <3>2. CASE z # y
      <4>1. MadeFor(syn2, z) = MadeFor(syn, z) BY <1>2, <3>2, KeyNames DEF MadeFor
      <4>2. s.grp[z].refs = Cardinality(Its(s, z)) + Cardinality(MadeFor(syn2, z)) + 0 BY <3>0, <4>1
      <4> QED BY <3>2, <4>2
    <3> QED BY <3>1, <3>2
  <2> HIDE DEF y, r
  <2>5. KeysGood(r, syn2, wo) /\ Counted(r) /\ r.kbd = s.kbd BY <1>1, <2>1, <2>3, <2>4, UnrefKeeps
  <2> QED BY <2>5 DEF r, syn2
<1> QED BY <1>4, <1>5

\* The client of a seat that has gone hears nothing more, and the virtual keyboards bound to
\* it go with it.
Bare(s, kk, q) == [s EXCEPT !.entered[q] = None, !.told[q] = {}, !.listed[q] = {}, !.mods[q] = {}, !.kbd = kk]

\* What that leaves of the state.
LEMMA BareIs ==
  ASSUME NEW s \in KeyState, NEW kk \in [Devs -> Keyboard], NEW q \in SeatNames
  PROVE  LET r == Bare(s, kk, q) IN
         /\ r \in KeyState /\ r.kbd = kk /\ r.grp = s.grp /\ r.order = s.order /\ r.active = s.active
         /\ r.shortcuts = s.shortcuts /\ r.imKeys = s.imKeys /\ r.told[q] = {}
         /\ \A e \in SeatNames : e # q => /\ r.told[e] = s.told[e] /\ r.listed[e] = s.listed[e]
                                          /\ r.entered[e] = s.entered[e]
<1> DEFINE r == Bare(s, kk, q)
<1>1. r = [s EXCEPT !.entered = [s.entered EXCEPT ![q] = None], !.told = [s.told EXCEPT ![q] = {}],
                    !.listed = [s.listed EXCEPT ![q] = {}], !.mods = [s.mods EXCEPT ![q] = {}], !.kbd = kk]
  BY DEF Bare
<1>2. /\ [s.entered EXCEPT ![q] = None] \in [SeatNames -> {"window", "menu", None}]
      /\ [s.told EXCEPT ![q] = {}] \in [SeatNames -> SUBSET Keycodes]
      /\ [s.listed EXCEPT ![q] = {}] \in [SeatNames -> SUBSET Keycodes]
      /\ [s.mods EXCEPT ![q] = {}] \in [SeatNames -> SUBSET Keycodes]
  BY DEF KeyState
<1> HIDE DEF r
<1>3. /\ r.kbd = kk /\ r.grp = s.grp /\ r.order = s.order /\ r.active = s.active
      /\ r.shortcuts = s.shortcuts /\ r.imKeys = s.imKeys
      /\ r.entered = [s.entered EXCEPT ![q] = None] /\ r.told = [s.told EXCEPT ![q] = {}]
      /\ r.listed = [s.listed EXCEPT ![q] = {}]
  BY <1>1 DEF KeyState
<1>4. r \in KeyState BY <1>1, <1>2 DEF KeyState
<1>5. /\ s.entered \in [SeatNames -> {"window", "menu", None}] /\ s.told \in [SeatNames -> SUBSET Keycodes]
      /\ s.listed \in [SeatNames -> SUBSET Keycodes]
  BY DEF KeyState
<1>6. /\ r.told[q] = {}
      /\ \A e \in SeatNames : e # q => /\ r.told[e] = s.told[e] /\ r.listed[e] = s.listed[e]
                                       /\ r.entered[e] = s.entered[e]
  BY <1>3, <1>5
<1> QED BY <1>3, <1>4, <1>6 DEF r

\* A seat has gone: its made-up keyboard, its clients and its virtual keyboards with it.
LEMMA FinishSeatKeeps ==
  ASSUME KeysInv, Keys!FinishSeat, changes' \in 0..MaxChanges
  PROVE  KeysInv'
<1> DEFINE q == "other"
           bare == IF synthetic[q] = None THEN st ELSE Keys!Unref(st, synthetic[q])
           v == Keys!Unplugged
           kk == [d \in Devs |-> IF bare.kbd[d].plugged /\ bare.kbd[d].seat = None THEN v ELSE bare.kbd[d]]
<1>1. /\ seats[q] = "leaving" /\ st' = Bare(bare, kk, q)
      /\ synthetic' = [synthetic EXCEPT ![q] = None] /\ seats' = [seats EXCEPT ![q] = "absent"]
      /\ kFocused' = [kFocused EXCEPT ![q] = FALSE] /\ UNCHANGED <<world, kConf>>
  BY KeyNames DEF Keys!FinishSeat, Bare
<1>2. KeysGood(st, synthetic, world) /\ Counted(st) /\ Seated(st, synthetic, seats) /\ HeldIsDown(st)
  BY DEF KeysInv
<1>3. q \in SeatNames /\ q # "default" BY DEF SeatNames
<1> HIDE DEF q
<1>4. KeysGood(bare, synthetic', world) /\ Counted(bare) /\ bare.kbd = st.kbd BY <1>1, <1>2, <1>3, SyntheticGoes
<1>5. /\ v \in Keyboard /\ ~v.plugged /\ v.seat = None /\ v.group = None /\ v.held = {} /\ v.down = {}
  BY FreshIs, KeyAssumption, Zenon
<1> HIDE DEF bare, v
<1>6. bare \in KeyState /\ Linked(bare, synthetic') /\ Released(bare, world) BY <1>4 DEF KeysGood
<1>7. ASSUME NEW d \in Devs
      PROVE  /\ kk[d] \in Keyboard
             /\ kk[d] = st.kbd[d] \/ (st.kbd[d].plugged /\ st.kbd[d].seat = None /\ kk[d] = v)
  <2>1. bare.kbd[d] \in Keyboard BY <1>6, KeyFields
  <2>2. kk[d] = IF bare.kbd[d].plugged /\ bare.kbd[d].seat = None THEN v ELSE bare.kbd[d] OBVIOUS
  <2> HIDE DEF kk
  <2> QED BY <1>4, <1>5, <2>1, <2>2
<1>8. kk \in [Devs -> Keyboard]
  <2>1. kk = [d \in Devs |-> kk[d]] OBVIOUS
  <2> HIDE DEF kk
  <2> QED BY <1>7, <2>1
<1> HIDE DEF kk
<1>9. /\ st' \in KeyState /\ st'.kbd = kk /\ st'.grp = bare.grp /\ st'.order = bare.order /\ st'.active = bare.active
      /\ st'.shortcuts = bare.shortcuts /\ st'.imKeys = bare.imKeys /\ st'.told[q] = {}
      /\ \A e \in SeatNames : e # q => /\ st'.told[e] = bare.told[e] /\ st'.listed[e] = bare.listed[e]
                                       /\ st'.entered[e] = bare.entered[e]
  BY <1>1, <1>3, <1>6, <1>8, BareIs
<1>10. Released(st', world) BY <1>6, <1>9 DEF Released, HoldsFor
<1>11. ASSUME NEW d \in Devs
       PROVE  /\ st'.kbd[d].group = bare.kbd[d].group
              /\ bare.kbd[d].group # None => /\ st'.kbd[d].plugged = bare.kbd[d].plugged
                                             /\ st'.kbd[d].seat = bare.kbd[d].seat
                                             /\ st'.kbd[d].cfg = bare.kbd[d].cfg
                                             /\ st'.kbd[d].held = bare.kbd[d].held
  <2>1. CASE kk[d] = st.kbd[d] BY <1>4, <1>9, <2>1
  <2>2. CASE st.kbd[d].plugged /\ st.kbd[d].seat = None /\ kk[d] = v
    <3>1. bare.kbd[d].group = None
      <4> SUFFICES ASSUME bare.kbd[d].group # None PROVE FALSE OBVIOUS
      <4>1. bare.kbd[d].group \in Slot BY <1>6, KeyFields DEF Keyboard
      <4>2. bare.grp[bare.kbd[d].group].seat = bare.kbd[d].seat BY <1>6 DEF Linked, Member
      <4>3. bare.grp[bare.kbd[d].group].seat \in SeatNames BY <1>6, <4>1, KeyFields DEF Group
      <4> QED BY <1>4, <2>2, <4>2, <4>3, KeyNames
    <3> QED BY <1>5, <1>9, <2>2, <3>1
  <2> QED BY <1>7, <2>1, <2>2
<1>12. KeysGood(st', synthetic', world) /\ Counted(st')
  <2>1. /\ st' \in KeyState /\ st'.grp = bare.grp /\ st'.order = bare.order /\ st'.active = bare.active BY <1>9
  <2> QED BY <1>4, <1>10, <1>11, <2>1, KbdKeeps
<1>13. HeldIsDown(st') BY <1>2, <1>5, <1>7, <1>9 DEF HeldIsDown
<1>14. Seated(st', synthetic', seats')
  <2>1. /\ seats' \in [SeatNames -> {"absent", "live", "leaving"}] /\ seats'[q] = "absent"
        /\ \A e \in SeatNames : e # q => seats'[e] = seats[e]
        /\ synthetic'[q] = None /\ \A e \in SeatNames : e # q => synthetic'[e] = synthetic[e]
    <3>1. seats \in [SeatNames -> {"absent", "live", "leaving"}] BY <1>2 DEF Seated
    <3>2. synthetic \in [SeatNames -> Slot \cup {None}] BY <1>2 DEF KeysGood, Linked
    <3> QED BY <1>1, <1>3, <3>1, <3>2
  <2>2. seats'["default"] = "live" BY <1>2, <1>3, <2>1 DEF Seated, SeatNames
  <2>3. ASSUME NEW d \in Devs, st'.kbd[d].seat # None
        PROVE  seats'[st'.kbd[d].seat] = "live" /\ st'.kbd[d].group # None
    <3>1. st'.kbd[d] = st.kbd[d] BY <1>5, <1>7, <1>9, <2>3
    <3>2. seats[st.kbd[d].seat] = "live" /\ st.kbd[d].group # None BY <1>2, <2>3, <3>1 DEF Seated
    <3>3. st.kbd[d].seat \in SeatNames
      <4>1. st \in KeyState BY <1>2 DEF KeysGood
      <4> QED BY <2>3, <3>1, <4>1, KeyFields DEF Keyboard
    <3>4. st.kbd[d].seat # q BY <1>1, <3>2
    <3> QED BY <2>1, <3>1, <3>2, <3>3, <3>4
  <2>4. \A e \in SeatNames : seats'[e] = "absent" => synthetic'[e] = None BY <1>2, <2>1 DEF Seated
  <2> QED BY <2>1, <2>2, <2>3, <2>4 DEF Seated
<1>15. kFocused' \in [SeatNames -> BOOLEAN] BY <1>1, <1>3 DEF KeysInv
<1> QED BY <1>1, <1>12, <1>13, <1>14, <1>15, KeysWritten DEF KeysInv

\* What is entered, and what its client takes for held.
Tells(s, q, w, told2, listed2, mods2) ==
    [s EXCEPT !.entered[q] = w, !.told[q] = told2, !.listed[q] = listed2, !.mods[q] = mods2]
Entry(s, q, w, told2, listed2) ==
    /\ w \in {"window", "menu", None} /\ told2 \in SUBSET Keycodes /\ listed2 \in SUBSET Keycodes
    /\ w = None => told2 = {}
    /\ \A k \in told2 \ listed2 : s.active[q] # None /\ s.grp[s.active[q]].by[k] = "focus"

\* A change of what a seat has entered and told is of nothing else.
LEMMA TellsIs ==
  ASSUME NEW s \in KeyState, NEW q \in SeatNames, NEW w, NEW told2, NEW listed2, NEW mods2 \in SUBSET Keycodes,
         Entry(s, q, w, told2, listed2)
  PROVE  LET r == Tells(s, q, w, told2, listed2, mods2) IN
         /\ r \in KeyState /\ r.kbd = s.kbd /\ r.grp = s.grp /\ r.order = s.order /\ r.active = s.active
         /\ r.shortcuts = s.shortcuts /\ r.imKeys = s.imKeys
         /\ r.told[q] = told2 /\ r.listed[q] = listed2 /\ r.entered[q] = w
         /\ \A e \in SeatNames : e # q => /\ r.told[e] = s.told[e] /\ r.listed[e] = s.listed[e]
                                          /\ r.entered[e] = s.entered[e]
<1> DEFINE r == Tells(s, q, w, told2, listed2, mods2)
<1>1. r = [s EXCEPT !.entered = [s.entered EXCEPT ![q] = w], !.told = [s.told EXCEPT ![q] = told2],
                    !.listed = [s.listed EXCEPT ![q] = listed2], !.mods = [s.mods EXCEPT ![q] = mods2]]
  BY DEF Tells
<1>2. /\ [s.entered EXCEPT ![q] = w] \in [SeatNames -> {"window", "menu", None}]
      /\ [s.told EXCEPT ![q] = told2] \in [SeatNames -> SUBSET Keycodes]
      /\ [s.listed EXCEPT ![q] = listed2] \in [SeatNames -> SUBSET Keycodes]
      /\ [s.mods EXCEPT ![q] = mods2] \in [SeatNames -> SUBSET Keycodes]
  <2>1. w \in {"window", "menu", None} /\ told2 \in SUBSET Keycodes /\ listed2 \in SUBSET Keycodes BY DEF Entry
  <2> QED BY <2>1 DEF KeyState
<1> HIDE DEF r
<1>3. /\ r.kbd = s.kbd /\ r.grp = s.grp /\ r.order = s.order /\ r.active = s.active
      /\ r.shortcuts = s.shortcuts /\ r.imKeys = s.imKeys
      /\ r.entered = [s.entered EXCEPT ![q] = w] /\ r.told = [s.told EXCEPT ![q] = told2]
      /\ r.listed = [s.listed EXCEPT ![q] = listed2]
  BY <1>1 DEF KeyState
<1>4. r \in KeyState BY <1>1, <1>2 DEF KeyState
<1>5. /\ s.entered \in [SeatNames -> {"window", "menu", None}] /\ s.told \in [SeatNames -> SUBSET Keycodes]
      /\ s.listed \in [SeatNames -> SUBSET Keycodes]
  BY DEF KeyState
<1>6. /\ r.told[q] = told2 /\ r.listed[q] = listed2 /\ r.entered[q] = w
      /\ \A e \in SeatNames : e # q => /\ r.told[e] = s.told[e] /\ r.listed[e] = s.listed[e]
                                       /\ r.entered[e] = s.entered[e]
  BY <1>3, <1>5
<1> QED BY <1>3, <1>4, <1>6 DEF r

\* It keeps what is known of keys, if what it tells is owed a release or listed.
LEMMA TellsKeeps ==
  ASSUME NEW s, NEW syn, NEW wo, KeysGood(s, syn, wo), Counted(s), NEW q \in SeatNames, NEW w,
         NEW told2, NEW listed2, NEW mods2 \in SUBSET Keycodes, Entry(s, q, w, told2, listed2)
  PROVE  LET r == Tells(s, q, w, told2, listed2, mods2) IN
         KeysGood(r, syn, wo) /\ Counted(r) /\ r.kbd = s.kbd
<1> DEFINE r == Tells(s, q, w, told2, listed2, mods2)
<1>1. s \in KeyState /\ Released(s, wo) /\ ActiveLives(s) BY DEF KeysGood, Linked
<1>2. /\ r \in KeyState /\ r.kbd = s.kbd /\ r.grp = s.grp /\ r.order = s.order /\ r.active = s.active
      /\ r.shortcuts = s.shortcuts /\ r.imKeys = s.imKeys
      /\ r.told[q] = told2 /\ r.listed[q] = listed2 /\ r.entered[q] = w
      /\ \A e \in SeatNames : e # q => /\ r.told[e] = s.told[e] /\ r.listed[e] = s.listed[e]
                                       /\ r.entered[e] = s.entered[e]
  BY <1>1, TellsIs
<1> HIDE DEF r
<1>3. \A y, k, who : HoldsFor(r, y, k, who) <=> HoldsFor(s, y, k, who) BY <1>2 DEF HoldsFor
<1>4. ASSUME NEW e \in SeatNames, NEW k \in r.told[e] \ r.listed[e]
      PROVE  \E y \in Slot : HoldsFor(r, y, k, "focus") /\ r.grp[y].seat = e
  <2>1. CASE e # q
    <3>1. k \in s.told[e] \ s.listed[e] BY <1>2, <1>4, <2>1
    <3>2. PICK y \in Slot : HoldsFor(s, y, k, "focus") /\ s.grp[y].seat = e BY <1>1, <3>1 DEF Released
    <3> QED BY <1>2, <1>3, <3>2
  <2>2. CASE e = q
    <3> DEFINE y == s.active[q]
    <3>1. y # None /\ s.grp[y].by[k] = "focus" BY <1>2, <1>4, <2>2 DEF Entry
    <3>2. y \in Slot BY <1>1, <3>1, KeyFields
    <3>3. s.grp[y].refs > 0 /\ s.grp[y].seat = q BY <1>1, <3>1 DEF ActiveLives
    <3> HIDE DEF y
    <3>4. HoldsFor(s, y, k, "focus") BY <3>1, <3>3 DEF HoldsFor
    <3> QED BY <1>2, <1>3, <2>2, <3>2, <3>3, <3>4
  <2> QED BY <2>1, <2>2
<1>5. \A e \in SeatNames : r.entered[e] = None => r.told[e] = {} BY <1>1, <1>2 DEF Released, Entry
<1>6. Released(r, wo) BY <1>1, <1>2, <1>3, <1>4, <1>5 DEF Released
<1>7. KeysGood(r, syn, wo) /\ Counted(r) BY <1>2, <1>6, KbdKeeps
<1> QED BY <1>2, <1>7 DEF r

\* A client is left.
LEMMA LeaveKeeps ==
  ASSUME NEW s, NEW syn, NEW wo, KeysGood(s, syn, wo), Counted(s), NEW q \in SeatNames
  PROVE  LET r == Keys!Leave(s, q) IN KeysGood(r, syn, wo) /\ Counted(r) /\ r.kbd = s.kbd
<1> DEFINE r == Keys!Leave(s, q)
           no == {}
           mo == s.mods[q]
<1>1. s \in KeyState BY DEF KeysGood
<1>2. mo \in SUBSET Keycodes BY <1>1 DEF KeyState
<1>3. r = Tells(s, q, None, no, no, mo)
  <2>1. [s.mods EXCEPT ![q] = s.mods[q]] = s.mods BY <1>1 DEF KeyState
  <2>2. r = [s EXCEPT !.entered = [s.entered EXCEPT ![q] = None], !.told = [s.told EXCEPT ![q] = {}],
                      !.listed = [s.listed EXCEPT ![q] = {}]]
    BY DEF Keys!Leave
  <2>3. Tells(s, q, None, no, no, mo) =
          [s EXCEPT !.entered = [s.entered EXCEPT ![q] = None], !.told = [s.told EXCEPT ![q] = {}],
                    !.listed = [s.listed EXCEPT ![q] = {}], !.mods = s.mods]
    BY <2>1 DEF Tells
  <2> HIDE DEF r
  <2> QED BY <1>1, <2>2, <2>3 DEF KeyState
<1>4. Entry(s, q, None, no, no) BY DEF Entry
<1> HIDE DEF r, no, mo
<1>5. KeysGood(r, syn, wo) /\ Counted(r) /\ r.kbd = s.kbd BY <1>2, <1>3, <1>4, TellsKeeps
<1> QED BY <1>5 DEF r

\* A client is entered, with what keys it is told of: what others took is listed.
LEMMA EnterKeeps ==
  ASSUME NEW s, NEW syn, NEW wo, KeysGood(s, syn, wo), Counted(s), NEW q \in SeatNames,
         NEW w \in {"window", "menu"}, NEW X \in SUBSET Keycodes
  PROVE  LET r == Keys!Enter(s, q, w, X) IN KeysGood(r, syn, wo) /\ Counted(r) /\ r.kbd = s.kbd
<1> DEFINE r == Keys!Enter(s, q, w, X)
           a == s.active[q]
           theirs == IF a = None THEN {} ELSE {k \in Keycodes : s.grp[a].by[k] = "focus"}
           rest == X \ theirs
           mo == IF a = None THEN {} ELSE Keys!Held(s, a) \cap Mods
<1>1. CASE s.entered[q] = w
  <2>1. r = s BY <1>1 DEF Keys!Enter
  <2> QED BY <2>1
<1>2. CASE s.entered[q] # w
  <2>1. r = Tells(s, q, w, X, rest, mo) BY <1>2 DEF Keys!Enter, Tells
  <2>2. mo \in SUBSET Keycodes BY HeldType
  <2>3. Entry(s, q, w, X, rest)
    <3>1. w # None BY KeyAssumption
    <3>2. \A k \in X \ rest : a # None /\ s.grp[a].by[k] = "focus" OBVIOUS
    <3> QED BY <3>1, <3>2 DEF Entry
  <2> HIDE DEF r, rest, mo
  <2>4. KeysGood(r, syn, wo) /\ Counted(r) /\ r.kbd = s.kbd BY <2>1, <2>2, <2>3, TellsKeeps
  <2> QED BY <2>4 DEF r
<1> QED BY <1>1, <1>2

\* A client is entered with the keys its seat holds.
LEMMA EnterHoldingKeeps ==
  ASSUME NEW s, NEW syn, NEW wo, KeysGood(s, syn, wo), Counted(s), NEW q \in SeatNames, NEW w \in {"window", "menu"}
  PROVE  LET r == Keys!EnterHolding(s, q, w) IN KeysGood(r, syn, wo) /\ Counted(r) /\ r.kbd = s.kbd
<1> DEFINE X == IF s.active[q] = None THEN {} ELSE Keys!Held(s, s.active[q])
           r == Keys!EnterHolding(s, q, w)
<1>1. X \in SUBSET Keycodes BY HeldType
<1>2. r = Keys!Enter(s, q, w, X) BY DEF Keys!EnterHolding
<1> HIDE DEF X, r
<1>3. KeysGood(r, syn, wo) /\ Counted(r) /\ r.kbd = s.kbd BY <1>1, <1>2, EnterKeeps
<1> QED BY <1>3 DEF r

\* A step that leaves the keyboards.
LEMMA SameKeyboards ==
  ASSUME KeysInv, KeysGood(st', synthetic, world'), Counted(st'), st'.kbd = st.kbd, world' \in Worlds,
         kFocused' \in [SeatNames -> BOOLEAN], UNCHANGED <<synthetic, seats, kConf>>, changes' \in 0..MaxChanges
  PROVE  KeysInv'
<1>1. Seated(st, synthetic, seats) /\ HeldIsDown(st) BY DEF KeysInv
<1>2. Seated(st', synthetic, seats) /\ HeldIsDown(st') BY <1>1 DEF Seated, HeldIsDown
<1> QED BY <1>2, KeysWritten DEF KeysInv

\* The keyboard focus moves.
LEMMA KeyFocusKeeps ==
  ASSUME KeysInv, NEW q \in SeatNames, Keys!Focus(q), changes' \in 0..MaxChanges
  PROVE  KeysInv'
<1> DEFINE left == Keys!Leave(st, q)
           no == {}
           w == "window"
<1>1. /\ kFocused' = [kFocused EXCEPT ![q] = ~kFocused[q]]
      /\ st' = IF kFocused[q] THEN left ELSE Keys!Enter(left, q, w, no)
      /\ UNCHANGED <<synthetic, seats, world, kConf>>
  BY DEF Keys!Focus
<1>2. KeysGood(st, synthetic, world) /\ Counted(st) /\ kFocused \in [SeatNames -> BOOLEAN] /\ world \in Worlds
  BY DEF KeysInv
<1>3. KeysGood(left, synthetic, world) /\ Counted(left) /\ left.kbd = st.kbd BY <1>2, LeaveKeeps
<1>4. no \in SUBSET Keycodes /\ w \in {"window", "menu"} OBVIOUS
<1> HIDE DEF left, no, w
<1>5. KeysGood(st', synthetic, world) /\ Counted(st') /\ st'.kbd = st.kbd
  <2>1. CASE kFocused[q] BY <1>1, <1>3, <2>1
  <2>2. CASE ~kFocused[q]
    <3>1. st' = Keys!Enter(left, q, w, no) BY <1>1, <2>2
    <3>2. KeysGood(st', synthetic, world) /\ Counted(st') /\ st'.kbd = left.kbd BY <1>3, <1>4, <3>1, EnterKeeps
    <3> QED BY <1>3, <3>2
  <2> QED BY <2>1, <2>2
<1>6. kFocused' \in [SeatNames -> BOOLEAN] BY <1>1, <1>2
<1> QED BY <1>1, <1>2, <1>5, <1>6, SameKeyboards

\* What goes on around the keyboards changes what is released only by the grab.
LEMMA OtherWorld ==
  ASSUME NEW s, NEW syn, NEW wo, NEW wo2, KeysGood(s, syn, wo), wo2.grab = wo.grab
  PROVE  KeysGood(s, syn, wo2)
BY DEF KeysGood, Released

\* An X11 menu borrows or returns the keyboard.
LEMMA MenuKeeps ==
  ASSUME KeysInv, Keys!OpenMenu \/ Keys!CloseMenu, changes' \in 0..MaxChanges
  PROVE  KeysInv'
<1> DEFINE q == "default"
           w == "window"
           e == "menu"
<1>1. KeysGood(st, synthetic, world) /\ Counted(st) /\ kFocused \in [SeatNames -> BOOLEAN] /\ world \in Worlds
  BY DEF KeysInv
<1>2. q \in SeatNames /\ w \in {"window", "menu"} /\ e \in {"window", "menu"} BY DEF SeatNames
<1>3. /\ world' = [world EXCEPT !.menu = TRUE] \/ world' = [world EXCEPT !.menu = FALSE]
      /\ \/ st' = st \/ st' = Keys!Leave(st, q)
         \/ st' = Keys!EnterHolding(st, q, e) \/ st' = Keys!EnterHolding(st, q, w)
      /\ UNCHANGED <<synthetic, seats, kFocused, kConf>>
  BY DEF Keys!OpenMenu, Keys!CloseMenu
<1> HIDE DEF q, w, e
<1>4. KeysGood(st', synthetic, world) /\ Counted(st') /\ st'.kbd = st.kbd
  <2>1. CASE st' = st BY <1>1, <2>1
  <2>2. CASE st' = Keys!Leave(st, q) BY <1>1, <1>2, <2>2, LeaveKeeps
  <2>3. CASE st' = Keys!EnterHolding(st, q, e) BY <1>1, <1>2, <2>3, EnterHoldingKeeps
  <2>4. CASE st' = Keys!EnterHolding(st, q, w) BY <1>1, <1>2, <2>4, EnterHoldingKeeps
  <2> QED BY <1>3, <2>1, <2>2, <2>3, <2>4
<1>5. world' \in Worlds /\ world'.grab = world.grab BY <1>1, <1>3 DEF Worlds
<1>6. KeysGood(st', synthetic, world') BY <1>4, <1>5, OtherWorld
<1> QED BY <1>1, <1>3, <1>4, <1>5, <1>6, SameKeyboards

\* The session locks, an input method grabs, the overview opens: what goes on around the keyboards.
LEMMA KeysAroundKeeps ==
  ASSUME KeysInv, Keys!Around, changes' \in 0..MaxChanges
  PROVE  KeysInv'
<1>1. KeysGood(st, synthetic, world) /\ Counted(st) /\ kFocused \in [SeatNames -> BOOLEAN] /\ world \in Worlds
  BY DEF KeysInv
<1>2. UNCHANGED <<synthetic, seats, kFocused, kConf>> BY DEF Keys!Around
<1>3. ASSUME UNCHANGED st, world' \in Worlds, world'.grab = world.grab PROVE KeysInv'
  <2>1. KeysGood(st, synthetic, world') BY <1>1, <1>3, OtherWorld
  <2> QED BY <1>1, <1>2, <1>3, <2>1, SameKeyboards
<1>4. CASE world' = [world EXCEPT !.locked = ~world.locked] /\ UNCHANGED st
  <2>1. world' \in Worlds /\ world'.grab = world.grab BY <1>1, <1>4 DEF Worlds
  <2> QED BY <1>3, <1>4, <2>1
<1>5. CASE world' = [world EXCEPT !.overview = ~world.overview] /\ UNCHANGED st
  <2>1. world' \in Worlds /\ world'.grab = world.grab BY <1>1, <1>5 DEF Worlds
  <2> QED BY <1>3, <1>5, <2>1
<1>6. ASSUME NEW k \in Keycodes, NEW c \in {"none", "binding", "kept", "portal"},
             world' = [world EXCEPT !.claim[k] = c], UNCHANGED st
      PROVE  KeysInv'
  <2> DEFINE cl == [world.claim EXCEPT ![k] = c]
  <2>1. world.claim \in [Keycodes -> {"none", "binding", "kept", "portal"}] BY <1>1 DEF Worlds
  <2>2. cl \in [Keycodes -> {"none", "binding", "kept", "portal"}] BY <2>1
  <2>3. world' = [world EXCEPT !.claim = cl] BY <1>6
  <2> HIDE DEF cl
  <2>4. world' \in Worlds /\ world'.grab = world.grab BY <1>1, <2>2, <2>3 DEF Worlds
  <2> QED BY <1>3, <1>6, <2>4
<1>7. ASSUME world' = [world EXCEPT !.grab = ~world.grab], st' = [st EXCEPT !.imKeys = {}, !.imMods = {}]
      PROVE  KeysInv'
  <2>1. world' \in Worlds BY <1>1, <1>7 DEF Worlds
  <2>2. st \in KeyState /\ Released(st, world) BY <1>1 DEF KeysGood
  <2>3. /\ st' \in KeyState /\ st'.kbd = st.kbd /\ st'.grp = st.grp /\ st'.order = st.order
        /\ st'.active = st.active /\ st'.entered = st.entered /\ st'.told = st.told
        /\ st'.listed = st.listed /\ st'.shortcuts = st.shortcuts /\ st'.imKeys = {}
    BY <1>7, <2>2 DEF KeyState
  <2>4. Released(st', world') BY <2>2, <2>3 DEF Released, HoldsFor
  <2>5. KeysGood(st', synthetic, world') /\ Counted(st') BY <1>1, <2>3, <2>4, KbdKeeps
  <2> QED BY <1>1, <1>2, <2>1, <2>3, <2>5, SameKeyboards
<1> QED BY <1>4, <1>5, <1>6, <1>7 DEF Keys!Around

-----------------------------------------------------------------------------
(* Keyboards as a whole.                                                   *)

\* The invariant holds when the server starts.
LEMMA KeysInvInit ==
  ASSUME Keys!Init
  PROVE  KeysInv
<1> DEFINE v == Keys!Unplugged
           free == Keys!Free
           no == {}
<1>1. /\ st = [kbd |-> [d \in Devs |-> v], grp |-> [y \in Slot |-> free],
               order |-> [q \in SeatNames |-> <<>>],
               active |-> [q \in SeatNames |-> None], entered |-> [q \in SeatNames |-> None],
               told |-> [q \in SeatNames |-> no], listed |-> [q \in SeatNames |-> no],
               mods |-> [q \in SeatNames |-> no],
               shortcuts |-> no, imKeys |-> no, imMods |-> no]
      /\ synthetic = [q \in SeatNames |-> None]
      /\ seats = [q \in SeatNames |-> IF q = "default" THEN "live" ELSE "absent"]
      /\ kFocused = [q \in SeatNames |-> FALSE]
      /\ world = [locked |-> FALSE, grab |-> FALSE, overview |-> FALSE, menu |-> FALSE,
                  claim |-> [k \in Keycodes |-> "none"]]
      /\ kConf = (CHOOSE c \in Configs : TRUE) /\ changes = 0
  BY KeyNames DEF Keys!Init
<1>2. /\ v \in Keyboard /\ ~v.plugged /\ v.seat = None /\ v.group = None /\ v.held = {} /\ v.down = {}
  BY FreshIs, KeyAssumption, Zenon
<1>3. free \in Group /\ free.refs = 0 /\ \A k \in Keycodes : free.by[k] = None /\ free.n[k] = 0 BY FreeIs
<1>4. <<>> \in Seq(Slot) /\ Elems(<<>>) = {} BY DEF Elems
<1> HIDE DEF v, free
<1>5. /\ \A d \in Devs : st.kbd[d] = v
      /\ \A y \in Slot : st.grp[y] = free
      /\ \A q \in SeatNames : /\ st.order[q] = <<>> /\ st.active[q] = None /\ st.entered[q] = None
                              /\ st.told[q] = {} /\ synthetic[q] = None
      /\ st.shortcuts = {} /\ st.imKeys = {}
  BY <1>1
<1>6. st \in KeyState BY <1>1, <1>2, <1>3, <1>4 DEF KeyState
<1>7. \A y \in Slot : Its(st, y) = {} /\ MadeFor(synthetic, y) = {} BY <1>2, <1>5, KeyNames DEF Its, MadeFor
<1>8. Linked(st, synthetic)
  <2>1. synthetic \in [SeatNames -> Slot \cup {None}] BY <1>1
  <2>2. \A d \in Devs : Member(st, d) BY <1>2, <1>5 DEF Member
  <2>3. Listed(st)
    <3>1. \A q \in SeatNames : Elems(st.order[q]) = {} BY <1>4, <1>5
    <3>2. \A y \in Slot : ~(st.grp[y].refs > 0) BY <1>3, <1>5
    <3> QED BY <3>1, <3>2 DEF Listed
  <2>4. Referred(st, synthetic)
    <3> SUFFICES ASSUME NEW y \in Slot
                 PROVE  st.grp[y].refs = Cardinality(Its(st, y)) + Cardinality(MadeFor(synthetic, y))
      BY DEF Referred
    <3>1. Cardinality(Its(st, y)) = 0 /\ Cardinality(MadeFor(synthetic, y)) = 0 BY <1>7, FS_EmptySet
    <3>2. st.grp[y].refs = 0 BY <1>3, <1>5
    <3> QED BY <3>1, <3>2
  <2>5. MadeUp(st, synthetic) BY <1>5 DEF MadeUp
  <2>6. ActiveLives(st) BY <1>5 DEF ActiveLives
  <2> QED BY <2>1, <2>2, <2>3, <2>4, <2>5, <2>6 DEF Linked
<1>9. Taken(st) BY <1>3, <1>5 DEF Taken
<1>10. Released(st, world) BY <1>5 DEF Released
<1>11. Counted(st)
  <2> SUFFICES ASSUME NEW y \in Slot, NEW k \in Keycodes
               PROVE  st.grp[y].n[k] <= Cardinality(Holders(st, y, k))
    BY DEF Counted
  <2>1. st.grp[y].n[k] = 0 BY <1>3, <1>5
  <2>2. Cardinality(Holders(st, y, k)) \in Nat BY ItsFinite
  <2> QED BY <2>1, <2>2
<1>12. HeldIsDown(st) BY <1>2, <1>5 DEF HeldIsDown
<1>13. Seated(st, synthetic, seats)
  <2>1. seats \in [SeatNames -> {"absent", "live", "leaving"}] /\ seats["default"] = "live"
    BY <1>1 DEF SeatNames
  <2> QED BY <1>2, <1>5, <2>1 DEF Seated
<1>14. world \in Worlds BY <1>1 DEF Worlds
<1>15. kFocused \in [SeatNames -> BOOLEAN] BY <1>1
<1>16. kConf \in Configs /\ changes \in 0..MaxChanges BY <1>1, KeyAssumption
<1>17. KeysGood(st, synthetic, world) BY <1>6, <1>8, <1>9, <1>10 DEF KeysGood
<1> QED BY <1>11, <1>12, <1>13, <1>14, <1>15, <1>16, <1>17 DEF KeysInv

\* Every step keeps KeysInv: one case per action.
LEMMA KeysInvStep ==
  ASSUME KeysInv, Keys!Next, Keys!PressIsNoted
  PROVE  KeysInv'
<1>1. ASSUME NEW d \in Devs, NEW k \in Keycodes, Keys!Down(d, k) \/ Keys!Up(d, k) PROVE KeysInv'
  BY <1>1, DownKeeps, UpKeeps
<1>2. ASSUME changes < MaxChanges, changes' = changes + 1, Keys!Change PROVE KeysInv'
  <2>1. changes' \in 0..MaxChanges
    <3>1. changes \in 0..MaxChanges /\ MaxChanges \in Nat BY KeyAssumption DEF KeysInv
    <3> QED BY <1>2, <3>1
  <2>2. ASSUME NEW d \in Devs, Keys!PlugIn(d) PROVE KeysInv' BY <2>1, <2>2, PlugInKeeps
  <2>3. ASSUME NEW d \in Devs, Keys!Unplug(d) PROVE KeysInv' BY <2>1, <2>3, UnplugKeeps
  <2>4. ASSUME NEW d \in Devs, NEW q \in SeatNames, Keys!NewVirtual(d, q) PROVE KeysInv'
    BY <2>1, <2>4, NewVirtualKeeps
  <2>5. ASSUME NEW d \in Devs, NEW q \in SeatNames, Keys!AssignToSeat(d, q) PROVE KeysInv'
    BY <2>1, <2>5, AssignToSeatKeeps
  <2>6. ASSUME NEW d \in Devs, NEW c \in Configs, Keys!Regroup(d, c) PROVE KeysInv'
    BY <2>1, <2>6, RegroupKeeps
  <2>7. ASSUME NEW c \in Configs, Keys!ApplyKeyRepeat(c) PROVE KeysInv' BY <2>1, <2>7, ApplyKeyRepeatKeeps
  <2>8. ASSUME NEW q \in SeatNames, Keys!EnsureSynthetic(q) PROVE KeysInv' BY <2>1, <2>8, EnsureSyntheticKeeps
  <2>9. ASSUME NEW q \in SeatNames, Keys!Focus(q) PROVE KeysInv' BY <2>1, <2>9, KeyFocusKeeps
  <2>10. ASSUME Keys!CreateSeat PROVE KeysInv' BY <2>1, <2>10, CreateSeatKeeps
  <2>11. ASSUME Keys!DestroySeat PROVE KeysInv' BY <2>1, <2>11, DestroySeatKeeps
  <2>12. ASSUME Keys!FinishSeat PROVE KeysInv' BY <2>1, <2>12, FinishSeatKeeps
  <2>13. ASSUME Keys!OpenMenu \/ Keys!CloseMenu PROVE KeysInv' BY <2>1, <2>13, MenuKeeps
  <2>14. ASSUME Keys!Around PROVE KeysInv' BY <2>1, <2>14, KeysAroundKeeps
  <2>15. Keys!Devices = Devs /\ Keys!Seats = SeatNames BY KeyNames
  <2> QED
    BY <1>2, <2>2, <2>3, <2>4, <2>5, <2>6, <2>7, <2>8, <2>9, <2>10, <2>11, <2>12, <2>13, <2>14, <2>15
    DEF Keys!Change
<1>3. Keys!Devices = Devs BY KeyNames
<1> QED BY <1>1, <1>2, <1>3 DEF Keys!Next

\* KeysInv reads the variables of Keyboards alone.
LEMMA KeysInvStutter ==
  ASSUME KeysInv, UNCHANGED keyVars
  PROVE  KeysInv'
BY DEF KeysInv, keyVars

\* The groups of a seat are those that are referred to and its.
LEMMA GroupsAre ==
  ASSUME KeysInv, NEW q \in SeatNames
  PROVE  /\ Keys!Groups(q) = Elems(st.order[q]) /\ Keys!Groups(q) \subseteq Slot
         /\ \A y \in Slot : y \in Keys!Groups(q) <=> st.grp[y].refs > 0 /\ st.grp[y].seat = q
<1>1. st \in KeyState /\ Listed(st) BY DEF KeysInv, KeysGood, Linked
<1>2. st.order[q] \in Seq(Slot) BY <1>1, KeyFields
<1>3. Keys!Groups(q) = Elems(st.order[q]) BY DEF Keys!Groups, Keys!Range, Elems
<1>4. Elems(st.order[q]) \subseteq Slot BY <1>2 DEF Elems
<1> QED BY <1>1, <1>3, <1>4 DEF Listed

\* A group refers to its keyboards and, at most once, to a made-up one.
LEMMA RefsBounded ==
  ASSUME KeysInv, NEW y \in Slot
  PROVE  /\ st.grp[y].refs \in 0..(Cardinality(Devs) + 1)
         /\ \A k \in Keycodes : st.grp[y].n[k] \in 0..Cardinality(Devs)
<1>1. /\ st \in KeyState /\ Referred(st, synthetic) /\ MadeUp(st, synthetic) /\ Counted(st)
  BY DEF KeysInv, KeysGood, Linked
<1>2. st.grp[y].refs = Cardinality(Its(st, y)) + Cardinality(MadeFor(synthetic, y)) BY <1>1 DEF Referred
<1>3. st.grp[y].refs \in Nat /\ st.grp[y].n \in [Keycodes -> Nat] BY <1>1, KeyFields DEF Group
<1>4. /\ Cardinality(Its(st, y)) \in Nat /\ Cardinality(Its(st, y)) <= Cardinality(Devs)
      /\ Cardinality(Devs) \in Nat
  BY ItsFinite, KeyNames
<1>5. Cardinality(MadeFor(synthetic, y)) \in Nat /\ Cardinality(MadeFor(synthetic, y)) <= 1
  <2> DEFINE e == st.grp[y].seat
  <2>1. MadeFor(synthetic, y) \in SUBSET {e} BY <1>1, KeyNames DEF MadeFor, MadeUp
  <2>2. IsFiniteSet({e}) /\ Cardinality({e}) = 1 BY FS_Singleton
  <2> HIDE DEF e
  <2>3. Cardinality(MadeFor(synthetic, y)) <= 1 BY <2>1, <2>2, FS_Subset
  <2> QED BY <2>3, MadeForFinite
<1>6. ASSUME NEW k \in Keycodes PROVE st.grp[y].n[k] \in 0..Cardinality(Devs)
  <2>1. st.grp[y].n[k] \in Nat /\ st.grp[y].n[k] <= Cardinality(Holders(st, y, k)) BY <1>1, <1>3 DEF Counted
  <2>2. /\ Cardinality(Holders(st, y, k)) \in Nat
        /\ Cardinality(Holders(st, y, k)) <= Cardinality(Its(st, y))
    BY ItsFinite
  <2> QED BY <1>4, <2>1, <2>2
<1>7. st.grp[y].refs \in 0..(Cardinality(Devs) + 1) BY <1>2, <1>3, <1>4, <1>5
<1> QED BY <1>6, <1>7

\* The invariant gives the types.
LEMMA KeysTyped ==
  ASSUME KeysInv
  PROVE  Keys!TypeOK
<1> DEFINE D == Cardinality(Devs)
           GroupUpTo == [refs : 0..(D + 1), seat : SeatNames, virtual : BOOLEAN, cfg : Configs,
                         by : [Keycodes -> Takers \cup {None}], n : [Keycodes -> 0..D]]
<1>1. /\ st \in KeyState /\ synthetic \in [SeatNames -> Slot \cup {None}]
      /\ seats \in [SeatNames -> {"absent", "live", "leaving"}] /\ kFocused \in [SeatNames -> BOOLEAN]
      /\ world \in Worlds /\ kConf \in Configs /\ changes \in 0..MaxChanges
  BY DEF KeysInv, KeysGood, Linked, Seated
<1>2. Keys!Cardinality(Devs) = D BY DEF Keys!Cardinality, Cardinality
<1>3. st.grp \in [Slot -> GroupUpTo]
  <2>1. ASSUME NEW y \in Slot PROVE st.grp[y] \in GroupUpTo
    <3>1. st.grp[y] \in Group BY <1>1, KeyFields
    <3>2. st.grp[y].refs \in 0..(D + 1) /\ \A k \in Keycodes : st.grp[y].n[k] \in 0..D BY RefsBounded
    <3> HIDE DEF D
    <3>3. st.grp[y].n \in [Keycodes -> 0..D] BY <3>1, <3>2 DEF Group
    <3> QED BY <3>1, <3>2, <3>3 DEF Group
  <2>2. st.grp = [y \in Slot |-> st.grp[y]] BY <1>1 DEF KeyState
  <2> HIDE DEF GroupUpTo
  <2> QED BY <2>1, <2>2
<1>4. \A q \in SeatNames : Keys!Range(st.order[q]) \subseteq Slot
  BY <1>1, GroupsAre DEF Keys!Groups
<1> HIDE DEF D
<1>5. /\ st.kbd \in [Devs -> [plugged : BOOLEAN, seat : SeatNames \cup {None}, group : Slot \cup {None},
                              held : SUBSET Keycodes, down : SUBSET Keycodes, cfg : Configs]]
      /\ {st.active, synthetic} \subseteq [SeatNames -> Slot \cup {None}]
      /\ st.entered \in [SeatNames -> {"window", "menu", None}]
      /\ {st.told, st.listed, st.mods} \subseteq [SeatNames -> SUBSET Keycodes]
      /\ {st.shortcuts, st.imKeys, st.imMods} \subseteq SUBSET Keycodes
  BY <1>1 DEF KeyState, Keyboard
<1> QED BY <1>1, <1>2, <1>3, <1>4, <1>5, KeyNames DEF Keys!TypeOK, Worlds

\* What a client, an input method or a portal takes for held is released to it.
LEMMA KeysSayNothingSticks ==
  ASSUME KeysInv
  PROVE  Keys!NothingSticks
<1>1. st \in KeyState /\ Released(st, world) BY DEF KeysInv, KeysGood
<1>2. ASSUME NEW y \in Slot, NEW k \in Keycodes, NEW who, HoldsFor(st, y, k, who)
      PROVE  st.grp[y].seat \in SeatNames /\ k \in Keys!Holding(st.grp[y].seat, who)
  <2>1. st.grp[y].seat \in SeatNames BY <1>1, KeyFields DEF Group
  <2>2. y \in Keys!Groups(st.grp[y].seat) BY <1>2, <2>1, GroupsAre DEF HoldsFor
  <2>3. k \in {j \in Keycodes : st.grp[y].by[j] = who} BY <1>2 DEF HoldsFor
  <2> QED BY <2>1, <2>2, <2>3 DEF Keys!Holding
<1>3. ASSUME NEW q \in SeatNames PROVE st.told[q] \ st.listed[q] \subseteq Keys!Holding(q, "focus")
  <2> SUFFICES ASSUME NEW k \in st.told[q] \ st.listed[q] PROVE k \in Keys!Holding(q, "focus") OBVIOUS
  <2>1. k \in Keycodes BY <1>1, KeyFields
  <2>2. PICK y \in Slot : HoldsFor(st, y, k, "focus") /\ st.grp[y].seat = q BY <1>1 DEF Released
  <2> QED BY <1>2, <2>1, <2>2
<1>4. st.imKeys \subseteq UNION {Keys!Holding(q, "grab") : q \in SeatNames}
  <2> SUFFICES ASSUME NEW k \in st.imKeys PROVE \E q \in SeatNames : k \in Keys!Holding(q, "grab") OBVIOUS
  <2>1. k \in Keycodes BY <1>1 DEF KeyState
  <2>2. PICK y \in Slot : HoldsFor(st, y, k, "grab") BY <1>1 DEF Released
  <2> QED BY <1>2, <2>1, <2>2
<1>5. st.shortcuts \subseteq UNION {Keys!Holding(q, "portal") : q \in SeatNames}
  <2> SUFFICES ASSUME NEW k \in st.shortcuts PROVE \E q \in SeatNames : k \in Keys!Holding(q, "portal") OBVIOUS
  <2>1. k \in Keycodes BY <1>1 DEF KeyState
  <2>2. PICK y \in Slot : HoldsFor(st, y, k, "portal") BY <1>1 DEF Released
  <2> QED BY <1>2, <2>1, <2>2
<1> QED BY <1>3, <1>4, <1>5, KeyNames DEF Keys!NothingSticks

\* With no more keys than a keyboard notes, a group counts what its keyboards hold.
LEMMA KeysSayGroupsCount ==
  ASSUME KeysInv
  PROVE  Keys!GroupsCount
<1>1. /\ st \in KeyState /\ Referred(st, synthetic) /\ Counted(st) /\ \A d \in Devs : Member(st, d)
  BY DEF KeysInv, KeysGood, Linked
<1>2. ASSUME NEW y \in Slot
      PROVE  LET its == {d \in Devs : st.kbd[d].group = y}
             IN /\ st.grp[y].refs = Keys!Cardinality(its) + Keys!Cardinality({q \in SeatNames : synthetic[q] = y})
                /\ st.grp[y].refs > 0 <=> \E q \in SeatNames : y \in Keys!Groups(q)
                /\ \A k \in Keycodes : st.grp[y].n[k] <= Keys!Cardinality({d \in its : k \in st.kbd[d].held})
                /\ \A d \in its \cap Hardware : st.kbd[d].cfg = st.grp[y].cfg
                /\ \A d \in its \cap Virtual : its = {d}
  <2> DEFINE its == {d \in Devs : st.kbd[d].group = y}
  <2>1. its = Its(st, y) BY DEF Its
  <2>2. Keys!Cardinality(its) = Cardinality(Its(st, y)) BY <2>1 DEF Keys!Cardinality, Cardinality
  <2>3. Keys!Cardinality({q \in SeatNames : synthetic[q] = y}) = Cardinality(MadeFor(synthetic, y))
    BY DEF Keys!Cardinality, Cardinality, MadeFor
  <2>4. \A k : Keys!Cardinality({d \in its : k \in st.kbd[d].held}) = Cardinality(Holders(st, y, k))
    BY <2>1 DEF Keys!Cardinality, Cardinality, Holders
  <2> HIDE DEF its
  <2>5. st.grp[y].refs = Keys!Cardinality(its) + Keys!Cardinality({q \in SeatNames : synthetic[q] = y})
    BY <1>1, <2>2, <2>3 DEF Referred
  <2>6. st.grp[y].refs > 0 <=> \E q \in SeatNames : y \in Keys!Groups(q)
    <3>1. st.grp[y].seat \in SeatNames BY <1>1, KeyFields DEF Group
    <3> QED BY <3>1, GroupsAre
  <2>7. \A k \in Keycodes : st.grp[y].n[k] <= Keys!Cardinality({d \in its : k \in st.kbd[d].held})
    BY <1>1, <2>4 DEF Counted
  <2>8. \A d \in its : /\ d \in Hardware => st.kbd[d].cfg = st.grp[y].cfg
                       /\ d \in Virtual => its = {d}
    <3>1. \A d \in its : d \in Devs /\ st.kbd[d].group = y /\ y # None BY <2>1, KeyNames DEF Its
    <3> QED BY <1>1, <2>1, <3>1 DEF Member
  <2> QED BY <2>5, <2>6, <2>7, <2>8 DEF its
<1> QED BY <1>2, KeyNames DEF Keys!GroupsCount

\* A seat that goes has no keyboards, so its groups are those made up for it.
LEMMA KeysSaySeatsKeyboardLives ==
  ASSUME KeysInv
  PROVE  Keys!SeatsKeyboardLives
<1>1. /\ st \in KeyState /\ Referred(st, synthetic) /\ MadeUp(st, synthetic) /\ ActiveLives(st)
      /\ \A d \in Devs : Member(st, d)
      /\ Seated(st, synthetic, seats)
  BY DEF KeysInv, KeysGood, Linked
<1>2. ASSUME NEW q \in SeatNames PROVE st.active[q] = None \/ st.active[q] \in Keys!Groups(q)
  <2>1. st.active[q] \in Slot \cup {None} BY <1>1, KeyFields
  <2> QED BY <1>1, <2>1, GroupsAre DEF ActiveLives
<1>3. ASSUME NEW q \in SeatNames, seats[q] # "live", NEW y \in Keys!Groups(q) PROVE y = synthetic[q]
  <2>1. y \in Slot /\ st.grp[y].refs > 0 /\ st.grp[y].seat = q BY <1>3, GroupsAre
  <2>2. Its(st, y) = {}
    <3> SUFFICES ASSUME NEW d \in Its(st, y) PROVE FALSE OBVIOUS
    <3>1. d \in Devs /\ st.kbd[d].group = y /\ y # None BY <2>1, KeyNames DEF Its
    <3>2. st.kbd[d].seat = q BY <1>1, <2>1, <3>1 DEF Member
    <3> QED BY <1>1, <1>3, <3>1, <3>2, KeyNames DEF Seated
  <2>3. st.grp[y].refs = Cardinality(Its(st, y)) + Cardinality(MadeFor(synthetic, y)) BY <1>1, <2>1 DEF Referred
  <2>4. Cardinality({}) = 0 BY FS_EmptySet
  <2>5. MadeFor(synthetic, y) # {} BY <2>1, <2>2, <2>3, <2>4
  <2>6. PICK e \in SeatNames : synthetic[e] = y BY <2>5 DEF MadeFor
  <2>7. e = q BY <1>1, <2>1, <2>6, KeyNames DEF MadeUp
  <2> QED BY <2>6, <2>7
<1>4. ASSUME NEW q \in SeatNames, seats[q] = "absent" PROVE st.order[q] = <<>>
  <2>1. synthetic[q] = None BY <1>1, <1>4 DEF Seated
  <2>2. \A y \in Keys!Groups(q) : y \in Slot /\ y = None BY <1>3, <1>4, <2>1, GroupsAre
  <2>3. Elems(st.order[q]) = {} BY <2>2, GroupsAre, KeyNames
  <2>4. st.order[q] \in Seq(Slot) BY <1>1, KeyFields
  <2> DEFINE l == st.order[q]
  <2>5. l \in Seq(Slot) /\ DOMAIN l = {} BY <2>3, <2>4 DEF Elems
  <2> HIDE DEF l
  <2>6. l = <<>> BY <2>5
  <2> QED BY <2>6 DEF l
<1> QED BY <1>2, <1>3, <1>4, KeyNames DEF Keys!SeatsKeyboardLives

\* Only the part that runs moves its variables.
LEMMA KeyPartSteps ==
  ASSUME [Next]_vars
  PROVE  Keys!Next \/ UNCHANGED keyVars
<1>1. CASE Next BY <1>1 DEF Next
<1>2. CASE UNCHANGED vars BY <1>2 DEF vars
<1> QED BY <1>1, <1>2

\* No key sticks, a group counts what its keyboards hold, and a seat's keyboard is one of
\* its groups, for any number of keyboards and keycodes, also when a group that notes
\* MaxHeld keys drops a press (keyboard.rs, keyboard_group.rs, seat.rs), as long as no
\* group counts a press that a full keyboard does not note (keyboard.rs:331).
THEOREM KeysSound == Spec /\ Keys!EveryPressIsNoted => []KeysAreSound
<1>1. Init => KeysInv BY KeysInvInit DEF Init
<1>2. KeysInv /\ [Next]_vars /\ [Keys!PressIsNoted]_Keys!vars => KeysInv'
  <2> SUFFICES ASSUME KeysInv, [Next]_vars, [Keys!PressIsNoted]_Keys!vars PROVE KeysInv' OBVIOUS
  <2>1. UNCHANGED Keys!vars => UNCHANGED keyVars BY DEF Keys!vars, keyVars
  <2> QED BY <2>1, KeyPartSteps, KeysInvStep, KeysInvStutter
<1>3. KeysInv => KeysAreSound
  BY KeysTyped, KeysSayNothingSticks, KeysSayGroupsCount, KeysSaySeatsKeyboardLives
  DEF KeysAreSound, Keys!KeysAreSound
<1> QED BY <1>1, <1>2, <1>3, PTL DEF Spec, Keys!EveryPressIsNoted
=============================================================================
