------------------------- MODULE Transaction_proofs -------------------------
(***************************************************************************)
(* What holds of the layout transactions for any set of windows, whatever  *)
(* clients, the user and the camera do.                                    *)
(*                                                                         *)
(* The invariant has two sides.  FlagInv relates the transaction state to  *)
(* its counter, its timer, the pending flags and the idle callback.        *)
(* WindowInv says of one window what it may look like while a transaction  *)
(* is in flight (`busy') or a manage pass is wanted (`wanted').  It gets   *)
(* weaker as either becomes true, so that most steps keep it; a render     *)
(* pass is what makes it hold with neither, and a manage pass starts from  *)
(* windows of which only BaseInv, its first half, is known.                *)
(***************************************************************************)
EXTENDS Transaction, FiniteSetTheorems, TLAPS

\* What holds of a window whatever the transaction does.
BaseInv(r) ==
    /\ r \in Window
    /\ r.st \in Managed => r.alive
    /\ r.listed => r.st \in Managed

\* What holds of it while a transaction is in flight or a manage pass wanted.
WindowInv(r, busy, wanted) ==
    /\ BaseInv(r)
    /\ r.st = "Mapped" => r.listed \/ wanted
    /\ r.st = "Closing" => wanted
    /\ r.listed /\ r.cfg \in {"Inflight", "Acked"} => busy \/ wanted
    /\ r.saved => busy \/ wanted

\* A transaction in flight, or a camera frame, may have configured the window.
Busy(w) == wm = "Inflight" \/ w \in ConfiguredAside

WindowsInv ==
    /\ win \in [Windows -> Window]
    /\ \A w \in Windows : WindowInv(win[w], Busy(w), windowing)

FlagType ==
    /\ wm \in {"Idle", "Inflight"} /\ count \in 0..Cardinality(Windows) /\ timer \in BOOLEAN
    /\ windowing \in BOOLEAN /\ rendering \in BOOLEAN /\ armed \in BOOLEAN
    /\ grab \in Windows \cup {None} /\ waiting \subseteq Windows

FlagInv == FlagType /\ InflightIsTimed /\ NoLostWork

DragType == sizing \in BOOLEAN /\ opFrame \in BOOLEAN

IInv == FlagInv /\ DragType /\ WindowsInv

-----------------------------------------------------------------------------
(* The operators on one window.                                            *)

\* A window that is not used satisfies the invariant.
LEMMA NoWindowInv == \A wanted \in BOOLEAN : WindowInv(NoWindow, FALSE, wanted)
BY DEF NoWindow, WindowInv, BaseInv, Window, WindowState, ConfigureState, Client, Managed

\* The invariant gets weaker as a transaction starts or a pass is asked for.
LEMMA WindowInvMonotone ==
    ASSUME NEW r, NEW busy \in BOOLEAN, NEW wanted \in BOOLEAN,
           NEW busy2 \in BOOLEAN, NEW wanted2 \in BOOLEAN,
           WindowInv(r, busy, wanted), busy => busy2 \/ wanted2, wanted => wanted2
    PROVE  WindowInv(r, busy2, wanted2)
BY DEF WindowInv

\* XdgToplevel::configure leaves a configure state.
LEMMA ConfiguredType ==
    ASSUME NEW r \in Window, NEW ask
    PROVE  Configured(r, ask) \in ConfigureState
BY DEF Configured, Window, ConfigureState

\* Window::manage_finish keeps the type of a window, and moves it from Ready to
\* Initialized at most.
LEMMA FinishedFields ==
    ASSUME NEW r \in Window, NEW ask
    PROVE  /\ Finished(r, ask) \in Window
           /\ Finished(r, ask).alive = r.alive
           /\ Finished(r, ask).listed = r.listed
           /\ \/ Finished(r, ask).st = r.st
              \/ r.st = "Ready" /\ Finished(r, ask).st = "Initialized"
<1>1. CASE Skips(r, ask)
  BY <1>1 DEF Finished
<1>2. CASE ~Skips(r, ask)
  <2>1. Configured(r, ask) \in ConfigureState
    BY ConfiguredType
  <2>2. Sends(r, ask) \in BOOLEAN /\ Tracks(r, ask) \in BOOLEAN
    BY DEF Sends, Tracks
  <2>3. r.saved \in BOOLEAN /\ r.told \in BOOLEAN /\ r.answers \in BOOLEAN
    BY DEF Window
  <2> DEFINE saved == r.saved \/ (Tracks(r, ask) /\ r.st = "Mapped")
             told == r.told \/ Sends(r, ask)
             answers == r.answers \/ Sends(r, ask)
             st == IF r.st = "Ready" THEN "Initialized" ELSE r.st
             client == IF r.client = "waiting" /\ Sends(r, ask) THEN "told" ELSE r.client
             cfg == Configured(r, ask)
  <2>4. saved \in BOOLEAN /\ told \in BOOLEAN /\ answers \in BOOLEAN
    BY <2>2, <2>3, Zenon
  <2>5. st \in WindowState /\ client \in Client
    BY DEF Window, WindowState, Client
  <2>6. Finished(r, ask) = [r EXCEPT !.st = st, !.cfg = cfg, !.saved = saved, !.told = told,
                                     !.answers = answers, !.client = client]
    BY <1>2 DEF Finished
  <2>7. st = r.st \/ (r.st = "Ready" /\ st = "Initialized")
    OBVIOUS
  <2>8. cfg \in ConfigureState
    BY <2>1
  <2> HIDE DEF saved, told, answers, st, client, cfg
  <2>9. Finished(r, ask) \in Window
    BY <2>4, <2>5, <2>6, <2>8 DEF Window
  <2>10. /\ Finished(r, ask).alive = r.alive
         /\ Finished(r, ask).listed = r.listed
    BY <2>6 DEF Window
  <2>11. Finished(r, ask).st = st
    BY <2>6 DEF Window
  <2> QED
    BY <2>7, <2>9, <2>10, <2>11
<1> QED
  BY <1>1, <1>2

\* What a configure ends as is a configure of the configuring base.
LEMMA FinishedBase ==
    ASSUME NEW r, NEW ask, BaseInv(r)
    PROVE  BaseInv(Finished(r, ask))
BY FinishedFields DEF BaseInv, Managed

\* While a pass is wanted, a configure of its own disturbs nothing.
LEMMA FinishedWanted ==
    ASSUME NEW r, NEW ask, NEW busy \in BOOLEAN, BaseInv(r)
    PROVE  WindowInv(Finished(r, ask), busy, TRUE)
BY FinishedBase DEF WindowInv

\* After Window::manage_start the render list is that of the managed windows,
\* and nothing is closing.
LEMMA StartedFields ==
    ASSUME NEW r, BaseInv(r)
    PROVE  /\ BaseInv(Started(r))
           /\ Started(r).st # "Closing"
           /\ Started(r).listed <=> Started(r).st \in Managed
<1>1. CASE r.st = "Closing"
  BY <1>1 DEF Started, BaseInv, Window, WindowState, Managed
<1>2. CASE r.st \in Managed
  BY <1>2 DEF Started, BaseInv, Window, Managed
<1>3. CASE r.st # "Closing" /\ r.st \notin Managed
  BY <1>3 DEF Started, BaseInv, Window
<1> QED
  BY <1>1, <1>2, <1>3

\* A window that went through manage_start and manage_finish is fit for a
\* transaction in flight with no further pass wanted.
LEMMA PassedInv ==
    ASSUME NEW r, BaseInv(r), r.st # "Closing", r.listed <=> r.st \in Managed
    PROVE  WindowInv(r, TRUE, FALSE)
BY DEF WindowInv, Managed

\* Window::render_start keeps the type and ends every configure in flight.
LEMMA RenderedFields ==
    ASSUME NEW r \in Window
    PROVE  /\ Rendered(r) \in Window
           /\ Rendered(r).cfg \notin {"Inflight", "Acked"}
           /\ Rendered(r).st = r.st /\ Rendered(r).alive = r.alive
           /\ Rendered(r).listed = r.listed /\ Rendered(r).saved = r.saved
BY DEF Rendered, Window, ConfigureState

\* A render pass leaves a window that needs neither a transaction in flight nor
\* a further manage pass, but for one that is closing.
LEMMA SettledInv ==
    ASSUME NEW r, NEW wanted \in BOOLEAN, WindowInv(r, TRUE, wanted)
    PROVE  WindowInv(Settled(IF r.listed THEN Rendered(r) ELSE r), FALSE, wanted)
<1> DEFINE a == IF r.listed THEN Rendered(r) ELSE r
<1>1. /\ a \in Window /\ a.st = r.st /\ a.alive = r.alive
      /\ a.listed = r.listed /\ a.saved = r.saved
      /\ a.listed => a.cfg \notin {"Inflight", "Acked"}
  BY RenderedFields DEF WindowInv, BaseInv
<1>2. /\ BaseInv(a)
      /\ a.st = "Mapped" => a.listed \/ wanted
      /\ a.st = "Closing" => wanted
  BY <1>1 DEF WindowInv, BaseInv
<1> SUFFICES WindowInv(Settled(a), FALSE, wanted)
  OBVIOUS
<1> HIDE DEF a
<1>3. CASE Freed(a)
  <2>1. a.st # "Closing"
    BY <1>3 DEF Freed
  <2>2. Settled(a) = NoWindow
    BY <1>3, <2>1 DEF Settled
  <2> QED
    BY <2>2, NoWindowInv
<1>4. CASE ~Freed(a) /\ a.st = "Closing"
  <2>1. Settled(a) = a
    BY <1>4 DEF Settled
  <2> QED
    BY <1>1, <1>2, <1>4, <2>1 DEF WindowInv
<1>5. CASE ~Freed(a) /\ a.st # "Closing"
  <2>1. Settled(a) = [a EXCEPT !.saved = FALSE]
    BY <1>5 DEF Settled
  <2> QED
    BY <1>1, <1>2, <1>5, <2>1 DEF WindowInv, BaseInv, Window
<1> QED
  BY <1>3, <1>4, <1>5
\* A window a camera frame may have configured is no less fit for a transaction.
LEMMA BusyWeaker ==
    ASSUME NEW w, NEW r, NEW wanted \in BOOLEAN, WindowInv(r, Busy(w), wanted)
    PROVE  WindowInv(r, TRUE, wanted)
BY DEF WindowInv

\* Whether it may is TRUE or FALSE.
LEMMA BusyType == \A w : Busy(w) \in BOOLEAN
BY DEF Busy

-----------------------------------------------------------------------------
(* The passes.                                                             *)

\* A failed assertion changes nothing else.
LEMMA FailStep ==
    ASSUME FlagInv, WindowsInv, NEW name, Fail(name)
    PROVE  FlagInv' /\ WindowsInv'
BY DEF Fail, FlagInv, FlagType, InflightIsTimed, NoLostWork, WindowsInv, Busy, ConfiguredAside

\* A render pass ends the transaction; what it leaves undone it asks a manage
\* pass for.
LEMMA RenderPassStep ==
    ASSUME FlagType, NEW ws, NEW wanted \in BOOLEAN,
           \A w \in Windows : WindowInv(ws[w], TRUE, wanted),
           RenderPass(ws, wanted)
    PROVE  FlagInv' /\ WindowsInv'
<1> DEFINE again == wanted \/ (\E w \in Windows : ws[w].st = "Closing" /\ ~ws[w].alive)
<1>1. again \in BOOLEAN /\ (wanted => again)
  OBVIOUS
<1>2. \A w \in Windows : win'[w] = Settled(IF ws[w].listed THEN Rendered(ws[w]) ELSE ws[w])
  BY DEF RenderPass
<1>3. /\ wm' = "Idle" /\ count' = 0 /\ timer' = FALSE /\ rendering' = FALSE
      /\ windowing' = again /\ armed' = again /\ waiting' = {}
      /\ grab' \in {None, grab}
  BY DEF RenderPass
<1> HIDE DEF again
<1>4. 0 \in 0..Cardinality(Windows)
  BY FS_CardinalityType, WindowsAssumption
<1>5. FlagInv'
  BY <1>1, <1>3, <1>4 DEF FlagInv, FlagType, InflightIsTimed, NoLostWork
<1>6. ASSUME NEW w \in Windows PROVE WindowInv(win'[w], FALSE, again)
  <2>1. WindowInv(win'[w], FALSE, wanted)
    BY <1>2, SettledInv
  <2> QED
    BY <1>1, <2>1, WindowInvMonotone
<1>7. win' = [w \in Windows |-> win'[w]]
  BY DEF RenderPass
<1>8. \A w \in Windows : win'[w] \in Window
  BY <1>6 DEF WindowInv, BaseInv
<1>9. ASSUME NEW w \in Windows PROVE WindowInv(win'[w], Busy(w)', again)
  BY <1>6 DEF WindowInv
<1> QED
  BY <1>3, <1>5, <1>7, <1>8, <1>9 DEF WindowsInv

\* A manage pass puts a transaction in flight for the clients it counted, or
\* goes on to the render pass.
LEMMA ManagePassStep ==
    ASSUME FlagInv, WindowsInv, NEW ws, \A w \in Windows : BaseInv(ws[w]),
           NEW wasArmed \in BOOLEAN, ManagePass(ws, wasArmed)
    PROVE  FlagInv' /\ WindowsInv'
<1> DEFINE started == [w \in Windows |-> Started(ws[w])]
           listed  == {w \in Windows : started[w].listed}
<1>1. PICK plan \in [Windows -> Ask] :
        LET early   == {w \in StatusBars \cap listed : plan[w] # "none"}
            placed  == [w \in Windows |->
                          IF w \in early THEN Finished(started[w], plan[w]) ELSE started[w]]
            ask     == [w \in Windows |-> IF w \in early THEN "none" ELSE plan[w]]
            counted == {w \in listed : Counts(placed[w], ask[w])}
            done    == [w \in Windows |->
                          IF w \in listed THEN Finished(placed[w], ask[w]) ELSE placed[w]]
        IN  IF \E w \in listed : Unmanageable(started[w]) THEN Fail("managed a window that is gone")
            ELSE IF counted = {} THEN RenderPass(done, FALSE) /\ UNCHANGED failed
            ELSE /\ wm' = "Inflight" /\ count' = Cardinality(counted) /\ timer' = TRUE
                 /\ win' = done /\ waiting' = counted
                 /\ windowing' = FALSE /\ rendering' = TRUE
                 /\ armed' = (wasArmed /\ rendering)
                 /\ UNCHANGED <<grab, failed>>
  BY DEF ManagePass
<1> DEFINE early   == {w \in StatusBars \cap listed : plan[w] # "none"}
           placed  == [w \in Windows |->
                         IF w \in early THEN Finished(started[w], plan[w]) ELSE started[w]]
           ask     == [w \in Windows |-> IF w \in early THEN "none" ELSE plan[w]]
           counted == {w \in listed : Counts(placed[w], ask[w])}
           done    == [w \in Windows |->
                         IF w \in listed THEN Finished(placed[w], ask[w]) ELSE placed[w]]
<1>2. ASSUME NEW w \in Windows PROVE WindowInv(done[w], TRUE, FALSE)
  <2>1. /\ BaseInv(started[w]) /\ started[w].st # "Closing"
        /\ started[w].listed <=> started[w].st \in Managed
    BY StartedFields
  <2> HIDE DEF started
  <2>2. ASSUME NEW r, NEW a, BaseInv(r), r.st # "Closing", r.listed <=> r.st \in Managed
        PROVE  /\ BaseInv(Finished(r, a)) /\ Finished(r, a).st # "Closing"
               /\ Finished(r, a).listed <=> Finished(r, a).st \in Managed
    <3>1. r \in Window
      BY <2>2 DEF BaseInv
    <3> QED
      BY <2>2, <3>1, FinishedFields, FinishedBase DEF Managed
  <2>3. /\ BaseInv(placed[w]) /\ placed[w].st # "Closing"
        /\ placed[w].listed <=> placed[w].st \in Managed
    BY <2>1, <2>2
  <2>4. /\ BaseInv(done[w]) /\ done[w].st # "Closing"
        /\ done[w].listed <=> done[w].st \in Managed
    <3> HIDE DEF placed, listed, ask
    <3> QED
      BY <2>2, <2>3
  <2> HIDE DEF done
  <2> QED
    BY <2>4, PassedInv
<1>3. done = [w \in Windows |-> done[w]]
  OBVIOUS
<1>4. counted \subseteq Windows
  OBVIOUS
<1>5. \/ Fail("managed a window that is gone")
      \/ RenderPass(done, FALSE)
      \/ /\ counted # {}
         /\ wm' = "Inflight" /\ count' = Cardinality(counted) /\ timer' = TRUE
         /\ win' = done /\ waiting' = counted
         /\ windowing' = FALSE /\ rendering' = TRUE
         /\ armed' = (wasArmed /\ rendering)
         /\ grab' = grab
  BY <1>1
<1> HIDE DEF done, counted
<1>6. CASE Fail("managed a window that is gone")
  BY <1>6, FailStep
<1>7. CASE RenderPass(done, FALSE)
  BY <1>2, <1>7, RenderPassStep DEF FlagInv
<1>8. CASE /\ counted # {}
           /\ wm' = "Inflight" /\ count' = Cardinality(counted) /\ timer' = TRUE
           /\ win' = done /\ waiting' = counted
           /\ windowing' = FALSE /\ rendering' = TRUE
           /\ armed' = (wasArmed /\ rendering)
           /\ grab' = grab
  <2>1. IsFiniteSet(counted) /\ Cardinality(counted) <= Cardinality(Windows)
    BY <1>4, FS_Subset, WindowsAssumption
  <2>2. Cardinality(counted) \in Nat /\ Cardinality(Windows) \in Nat /\ Cardinality(counted) # 0
    BY <1>8, <2>1, FS_CardinalityType, FS_EmptySet, WindowsAssumption
  <2>3. count' \in 0..Cardinality(Windows) /\ count' > 0
    BY <1>8, <2>1, <2>2
  <2>4. armed' \in BOOLEAN
    BY <1>8 DEF FlagInv, FlagType
  <2>5. FlagInv'
    BY <1>4, <1>8, <2>3, <2>4 DEF FlagInv, FlagType, InflightIsTimed, NoLostWork
  <2>6. \A w \in Windows : done[w] \in Window
    BY <1>2 DEF WindowInv, BaseInv
  <2> QED
    BY <1>2, <1>3, <1>8, <2>5, <2>6 DEF WindowsInv, Busy, ConfiguredAside
<1> QED
  BY <1>5, <1>6, <1>7, <1>8
-----------------------------------------------------------------------------
(* The event loop.                                                         *)

\* The idle callback starts a pass or waits for the one in flight.
LEMMA IdleCallbackStep ==
    ASSUME FlagInv, WindowsInv, IdleCallback
    PROVE  FlagInv' /\ WindowsInv'
<1>1. /\ \A w \in Windows : BaseInv(win[w])
      /\ windowing \in BOOLEAN /\ wm \in {"Idle", "Inflight"}
  BY DEF FlagInv, FlagType, WindowsInv, WindowInv
<1>2. CASE wm = "Idle" /\ windowing
  <2>1. ManagePass(win, FALSE)
    BY <1>2 DEF IdleCallback
  <2> QED
    BY <1>1, <2>1, ManagePassStep
<1>3. CASE wm = "Idle" /\ ~windowing /\ rendering
  <2>1. RenderPass(win, FALSE)
    BY <1>3 DEF IdleCallback
  <2>2. \A w \in Windows : WindowInv(win[w], TRUE, FALSE)
    BY <1>1, <1>3, BusyWeaker DEF WindowsInv
  <2> QED
    BY <2>1, <2>2, RenderPassStep DEF FlagInv
<1>4. CASE wm = "Inflight" \/ (~windowing /\ ~rendering)
  <2>1. armed' = FALSE /\ UNCHANGED <<wm, count, timer, windowing, rendering, win, grab, waiting>>
    BY <1>4 DEF IdleCallback
  <2> QED
    BY <1>4, <2>1 DEF FlagInv, FlagType, InflightIsTimed, NoLostWork, WindowsInv, Busy, ConfiguredAside
<1> QED
  BY <1>1, <1>2, <1>3, <1>4

\* The timer ends a pass that was not answered in time.
LEMMA TimeoutStep ==
    ASSUME FlagInv, WindowsInv, Timeout
    PROVE  FlagInv' /\ WindowsInv'
<1>0. timer
  BY DEF Timeout
<1>1. wm = "Inflight" /\ count > 0 /\ windowing \in BOOLEAN
  BY <1>0 DEF FlagInv, FlagType, InflightIsTimed
<1>2. RenderPass(win, windowing)
  <2>1. count # 0
    BY <1>1
  <2> QED
    BY <1>1, <2>1 DEF Timeout
<1>3. \A w \in Windows : WindowInv(win[w], TRUE, windowing)
  BY <1>1, BusyWeaker DEF WindowsInv
<1> QED
  BY <1>1, <1>2, <1>3, RenderPassStep DEF FlagInv

\* A handler that only changes flags so that no wish for a manage pass is
\* dropped, and none for a render pass but one that was carried out.
LEMMA FlagStep ==
    ASSUME FlagInv, WindowsInv, UNCHANGED <<wm, count, timer, win, waiting>>,
           grab' \in Windows \cup {None},
           windowing' \in BOOLEAN, rendering' \in BOOLEAN, armed' \in BOOLEAN,
           windowing => windowing', NoLostWork'
    PROVE  FlagInv' /\ WindowsInv'
<1>1. FlagInv'
  BY DEF FlagInv, FlagType, InflightIsTimed
<1>2. wm \in {"Idle", "Inflight"} /\ windowing \in BOOLEAN
  BY DEF FlagInv, FlagType
<1>3. \A w \in Windows : WindowInv(win[w], Busy(w), windowing')
  BY <1>2, BusyType, WindowInvMonotone DEF WindowsInv
<1> QED
  BY <1>1, <1>3 DEF WindowsInv, Busy, ConfiguredAside

\* A handler that changes one window, and asks for whatever that window needs.
LEMMA WindowStep ==
    ASSUME FlagInv, WindowsInv, NEW w \in Windows, NEW r,
           win' = [win EXCEPT ![w] = r],
           UNCHANGED <<wm, count, timer>>, grab' \in Windows \cup {None},
           waiting' \subseteq Windows,
           windowing' \in BOOLEAN, rendering' \in BOOLEAN, armed' \in BOOLEAN,
           windowing => windowing', NoLostWork',
           WindowInv(r, Busy(w), windowing')
    PROVE  FlagInv' /\ WindowsInv'
<1>1. FlagInv'
  BY DEF FlagInv, FlagType, InflightIsTimed
<1>2. wm \in {"Idle", "Inflight"} /\ windowing \in BOOLEAN
  BY DEF FlagInv, FlagType
<1>3. \A v \in Windows : WindowInv(win[v], Busy(v), windowing')
  BY <1>2, BusyType, WindowInvMonotone DEF WindowsInv
<1>4. r \in Window
  BY DEF WindowInv, BaseInv
<1>5. win' \in [Windows -> Window]
  BY <1>4 DEF WindowsInv
<1>6. \A v \in Windows : WindowInv(win'[v], Busy(v), windowing')
  BY <1>3 DEF WindowsInv
<1> QED
  BY <1>1, <1>5, <1>6 DEF WindowsInv, Busy, ConfiguredAside

\* What a dirtied flag keeps.
LEMMA DirtyStep ==
    ASSUME FlagInv
    PROVE  /\ DirtyWindowing => /\ windowing' = TRUE /\ rendering' \in BOOLEAN
                                /\ armed' \in BOOLEAN /\ NoLostWork'
           /\ DirtyRendering => /\ windowing' = windowing /\ windowing' \in BOOLEAN
                                /\ rendering' \in BOOLEAN
                                /\ armed' \in BOOLEAN /\ NoLostWork'
BY DEF FlagInv, FlagType, DirtyWindowing, DirtyRendering, NoLostWork

-----------------------------------------------------------------------------
(* Clients.                                                                *)

\* An answer is taken off the count, or ends the transaction.
LEMMA NotifyStep ==
    ASSUME FlagInv, NEW ws \in [Windows -> Window], NEW left \in SUBSET Windows,
           NEW dirtied \in BOOLEAN,
           \A w \in Windows : WindowInv(ws[w], Busy(w), windowing \/ dirtied),
           NotifyConfigured(ws, left, dirtied)
    PROVE  FlagInv' /\ WindowsInv'
<1>1. wm \in {"Idle", "Inflight"} /\ windowing \in BOOLEAN /\ count \in 0..Cardinality(Windows)
  BY DEF FlagInv, FlagType
<1> DEFINE wanted == windowing \/ dirtied
<1>2. wanted \in BOOLEAN
  OBVIOUS
<1>3. CASE wm = "Inflight" /\ count = 1
  <2>1. RenderPass(ws, wanted)
    BY <1>3 DEF NotifyConfigured
  <2>2. \A w \in Windows : WindowInv(ws[w], TRUE, wanted)
    BY <1>2, BusyWeaker
  <2> QED
    BY <1>2, <2>1, <2>2, RenderPassStep DEF FlagInv
<1>4. CASE ~(wm = "Inflight" /\ count = 1)
  <2>1. /\ count' = IF wm = "Inflight" THEN count - 1 ELSE count
        /\ win' = ws /\ waiting' = left
        /\ windowing' = wanted /\ armed' = (armed \/ dirtied)
        /\ UNCHANGED <<wm, timer, rendering, grab>>
    BY <1>4 DEF NotifyConfigured
  <2>2. Cardinality(Windows) \in Nat
    BY FS_CardinalityType, WindowsAssumption
  <2>3. /\ count' \in 0..Cardinality(Windows)
        /\ wm = "Inflight" => count' > 0
        /\ wm = "Idle" => count' = 0
    BY <1>1, <1>4, <2>1, <2>2 DEF FlagInv, InflightIsTimed
  <2>4. InflightIsTimed'
    BY <2>1, <2>3 DEF FlagInv, InflightIsTimed
  <2>5. armed' \in BOOLEAN /\ NoLostWork'
    BY <2>1 DEF FlagInv, FlagType, NoLostWork
  <2>6. FlagInv'
    BY <1>2, <2>1, <2>3, <2>4, <2>5 DEF FlagInv, FlagType
  <2> QED
    BY <2>1, <2>6 DEF WindowsInv, Busy, ConfiguredAside
<1> QED
  BY <1>3, <1>4

\* handle_commit after the initial one, of a window that is fit for the flags as
\* they will be.
LEMMA CommittedStep ==
    ASSUME FlagInv, WindowsInv, NEW w \in Windows, NEW r, NEW dirtied \in BOOLEAN,
           WindowInv(r, Busy(w), windowing \/ dirtied),
           Committed(w, r, dirtied)
    PROVE  FlagInv' /\ WindowsInv'
<1> DEFINE wanted == windowing \/ dirtied
<1>0. wm \in {"Idle", "Inflight"} /\ windowing \in BOOLEAN /\ wanted \in BOOLEAN
  BY DEF FlagInv, FlagType
<1>1. r \in Window
  BY DEF WindowInv, BaseInv
<1>2. CASE r.cfg = "Acked"
  <2> DEFINE c == [r EXCEPT !.cfg = "Committed", !.late = TRUE]
             ws == [win EXCEPT ![w] = c]
  <2>1. NotifyConfigured(ws, waiting \ {w}, dirtied)
    BY <1>2 DEF Committed
  <2>2. WindowInv(c, Busy(w), wanted)
    BY <1>1 DEF WindowInv, BaseInv, Window, ConfigureState
  <2>3. c \in Window
    BY <2>2 DEF WindowInv, BaseInv
  <2>4. \A v \in Windows : WindowInv(win[v], Busy(v), wanted)
    BY <1>0, BusyType, WindowInvMonotone DEF WindowsInv
  <2> HIDE DEF c
  <2>5. ws \in [Windows -> Window]
    BY <2>3 DEF WindowsInv
  <2>6. \A v \in Windows : WindowInv(ws[v], Busy(v), wanted)
    BY <2>2, <2>4 DEF WindowsInv
  <2>7. waiting \ {w} \in SUBSET Windows
    BY DEF FlagInv, FlagType
  <2> QED
    BY <2>1, <2>5, <2>6, <2>7, NotifyStep
<1>3. CASE r.cfg = "TimedOutAcked"
  <2>1. /\ ClientStep(w, [r EXCEPT !.cfg = "Idle", !.late = TRUE])
        /\ rendering' = TRUE /\ armed' = TRUE /\ windowing' = wanted
        /\ UNCHANGED waiting
    BY <1>3 DEF Committed
  <2>2. WindowInv([r EXCEPT !.cfg = "Idle", !.late = TRUE], Busy(w), wanted)
    BY <1>1 DEF WindowInv, BaseInv, Window, ConfigureState
  <2>3. /\ waiting' \subseteq Windows /\ grab' \in Windows \cup {None}
        /\ windowing' \in BOOLEAN /\ NoLostWork'
        /\ UNCHANGED <<wm, count, timer>> /\ win' = [win EXCEPT ![w] = [r EXCEPT !.cfg = "Idle", !.late = TRUE]]
    BY <1>0, <2>1 DEF FlagInv, FlagType, NoLostWork, ClientStep
  <2> QED
    BY <2>1, <2>2, <2>3, WindowStep
<1>4. CASE r.cfg \notin {"Acked", "TimedOutAcked"} /\ r.cfg = "Inflight" /\ r.st = "Ready"
  <2>1. Fail("frame done before mapped")
    BY <1>4 DEF Committed
  <2> QED
    BY <2>1, FailStep
<1>5. CASE r.cfg \notin {"Acked", "TimedOutAcked"} /\ ~(r.cfg = "Inflight" /\ r.st = "Ready")
  <2>1. /\ ClientStep(w, r)
        /\ windowing' = wanted /\ armed' = (armed \/ dirtied)
        /\ UNCHANGED <<rendering, waiting>>
    BY <1>5 DEF Committed
  <2>2. /\ waiting' \subseteq Windows /\ grab' \in Windows \cup {None}
        /\ windowing' \in BOOLEAN /\ armed' \in BOOLEAN /\ rendering' \in BOOLEAN
        /\ UNCHANGED <<wm, count, timer>> /\ win' = [win EXCEPT ![w] = r]
    BY <1>0, <2>1 DEF FlagInv, FlagType, ClientStep
  <2>3. NoLostWork'
    BY <2>1 DEF FlagInv, NoLostWork, ClientStep
  <2> QED
    BY <2>1, <2>2, <2>3, WindowStep
<1> QED
  BY <1>2, <1>3, <1>4, <1>5
\* The handlers of a client's requests.  One step per request.
LEMMA ClientRequestStep ==
    ASSUME FlagInv, WindowsInv, NEW w \in Windows, ClientRequest(w)
    PROVE  FlagInv' /\ WindowsInv'
<1> DEFINE r == win[w]
<1>0. /\ wm \in {"Idle", "Inflight"}
      /\ windowing \in BOOLEAN /\ rendering \in BOOLEAN /\ armed \in BOOLEAN
      /\ grab \in Windows \cup {None} /\ waiting \subseteq Windows
      /\ r \in Window /\ WindowInv(r, Busy(w), windowing)
      /\ NoLostWork
  BY DEF FlagInv, FlagType, WindowsInv
<1>1. ASSUME NEW s, ClientStep(w, s), waiting' \subseteq Windows,
             UNCHANGED <<windowing, rendering, armed>>,
             WindowInv(s, Busy(w), windowing)
      PROVE  FlagInv' /\ WindowsInv'
  <2>1. NoLostWork'
    BY <1>0, <1>1 DEF NoLostWork, ClientStep
  <2>2. /\ win' = [win EXCEPT ![w] = s] /\ UNCHANGED <<wm, count, timer>>
        /\ grab' \in Windows \cup {None}
    BY <1>0, <1>1 DEF ClientStep
  <2> QED
    BY <1>0, <1>1, <2>1, <2>2, WindowStep
<1>2. ASSUME NEW s, ClientStep(w, s), waiting' \subseteq Windows, DirtyWindowing,
             WindowInv(s, Busy(w), TRUE)
      PROVE  FlagInv' /\ WindowsInv'
  <2>1. /\ windowing' = TRUE /\ rendering' \in BOOLEAN /\ armed' \in BOOLEAN /\ NoLostWork'
    BY <1>2, DirtyStep
  <2>2. /\ win' = [win EXCEPT ![w] = s] /\ UNCHANGED <<wm, count, timer>>
        /\ grab' \in Windows \cup {None}
    BY <1>0, <1>2 DEF ClientStep
  <2> QED
    BY <1>2, <2>1, <2>2, WindowStep
<1>3. CASE NewToplevel(w)
  <2> DEFINE s == [NoWindow EXCEPT !.st = "Init", !.alive = TRUE]
  <2>1. ClientStep(w, s) /\ UNCHANGED <<windowing, rendering, armed, waiting>>
    BY <1>3 DEF NewToplevel
  <2>2. WindowInv(s, Busy(w), windowing)
    BY DEF NoWindow, WindowInv, BaseInv, Window, WindowState, ConfigureState, Client, Managed
  <2> HIDE DEF s
  <2> QED
    BY <1>0, <1>1, <2>1, <2>2
<1>4. CASE InitialCommit(w)
  <2> DEFINE s == [r EXCEPT !.st = "Ready", !.client = "waiting"]
  <2>1. r.alive /\ ClientStep(w, s) /\ DirtyWindowing /\ UNCHANGED waiting
    BY <1>4 DEF InitialCommit
  <2>2. WindowInv(s, Busy(w), TRUE)
    BY <1>0, <2>1 DEF WindowInv, BaseInv, Window, WindowState, Client, Managed
  <2> HIDE DEF s
  <2> QED
    BY <1>0, <1>2, <2>1, <2>2
<1>5. CASE NegotiateDecoration(w)
  <2>1. PICK answers \in {FALSE, r.answers} :
          ClientStep(w, [r EXCEPT !.client = IF @ = "waiting" THEN "told" ELSE @,
                                  !.answers = answers])
    BY <1>5 DEF NegotiateDecoration
  <2>2. DirtyWindowing /\ UNCHANGED waiting
    BY <1>5 DEF NegotiateDecoration
  <2> DEFINE client == IF r.client = "waiting" THEN "told" ELSE r.client
             s == [r EXCEPT !.client = client, !.answers = answers]
  <2>3. client \in Client /\ answers \in BOOLEAN
    BY <1>0 DEF Window, Client
  <2>4. ClientStep(w, s)
    BY <2>1
  <2> HIDE DEF client
  <2>5. WindowInv(s, Busy(w), TRUE)
    BY <1>0, <2>3 DEF WindowInv, BaseInv, Window
  <2> HIDE DEF s
  <2> QED
    BY <1>0, <1>2, <2>2, <2>4, <2>5
<1>6. CASE AckConfigure(w)
  <2> DEFINE acked == CASE r.cfg = "Inflight" /\ r.answers -> "Acked"
                        [] r.cfg = "TimedOut" /\ r.answers -> "TimedOutAcked"
                        [] OTHER -> r.cfg
             client == IF r.client = "told" THEN "ready" ELSE r.client
             s == [r EXCEPT !.cfg = acked, !.client = client]
  <2>1. ClientStep(w, s) /\ UNCHANGED <<windowing, rendering, armed, waiting>>
    BY <1>6 DEF AckConfigure
  <2>2. /\ acked \in ConfigureState /\ client \in Client
        /\ acked \in {"Inflight", "Acked"} => r.cfg \in {"Inflight", "Acked"}
    BY <1>0 DEF Window, ConfigureState, Client
  <2> HIDE DEF acked, client
  <2>3. WindowInv(s, Busy(w), windowing)
    BY <1>0, <2>2 DEF WindowInv, BaseInv, Window
  <2> HIDE DEF s
  <2> QED
    BY <1>0, <1>1, <2>1, <2>3
<1>7. CASE Commit(w)
  <2>1. Committed(w, r, FALSE)
    BY <1>7 DEF Commit
  <2>2. WindowInv(r, Busy(w), windowing \/ FALSE)
    BY <1>0
  <2> HIDE DEF r
  <2> QED
    BY <2>1, <2>2, CommittedStep
<1>8. CASE Map(w)
  <2> DEFINE s == [r EXCEPT !.st = "Mapped", !.client = "mapped"]
  <2>1. CASE r.st = "Initialized"
    <3>1. Committed(w, s, TRUE)
      BY <1>8, <2>1 DEF Map
    <3>2. WindowInv(s, Busy(w), windowing \/ TRUE)
      BY <1>0, <2>1 DEF WindowInv, BaseInv, Window, WindowState, Client, Managed
    <3> HIDE DEF s
    <3> QED
      BY <3>1, <3>2, CommittedStep
  <2>2. CASE r.st # "Initialized"
    BY <1>8, <2>2, FailStep DEF Map
  <2> QED
    BY <2>1, <2>2
<1>9. CASE Unmap(w)
  <2>1. waiting' \subseteq Windows
    BY <1>0, <1>9 DEF Unmap
  <2>2. CASE r.st = "Mapped"
    <3> DEFINE s == [SetClosing(r) EXCEPT !.saved = TRUE, !.client = "new", !.answers = FALSE]
    <3>1. ClientStep(w, s) /\ DirtyWindowing
      BY <1>9, <2>2 DEF Unmap
    <3>2. WindowInv(s, Busy(w), TRUE)
      BY <1>0 DEF SetClosing, WindowInv, BaseInv, Window, WindowState, Client, Managed
    <3> HIDE DEF s
    <3> QED
      BY <1>2, <2>1, <3>1, <3>2
  <2>3. CASE r.st # "Mapped"
    <3> DEFINE s == [r EXCEPT !.client = "new", !.answers = FALSE]
    <3>1. ClientStep(w, s) /\ UNCHANGED <<windowing, rendering, armed>>
      BY <1>9, <2>3 DEF Unmap
    <3>2. WindowInv(s, Busy(w), windowing)
      BY <1>0 DEF WindowInv, BaseInv, Window, Client
    <3> HIDE DEF s
    <3> QED
      BY <1>1, <2>1, <3>1, <3>2
  <2> QED
    BY <2>2, <2>3
<1>10. CASE Destroy(w)
  <2>1. waiting' \subseteq Windows
    BY <1>0, <1>10 DEF Destroy
  <2>2. CASE r.st \in Managed
    <3> DEFINE s == [SetClosing(r) EXCEPT !.alive = FALSE]
    <3>1. ClientStep(w, s) /\ DirtyWindowing
      BY <1>10, <2>2 DEF Destroy
    <3>2. WindowInv(s, Busy(w), TRUE)
      BY <1>0 DEF SetClosing, WindowInv, BaseInv, Window, WindowState, Managed
    <3> HIDE DEF s
    <3> QED
      BY <1>2, <2>1, <3>1, <3>2
  <2>3. CASE r.st \notin Managed
    <3> DEFINE s == [r EXCEPT !.alive = FALSE]
    <3>1. ClientStep(w, s) /\ UNCHANGED <<windowing, rendering, armed>>
      BY <1>10, <2>3 DEF Destroy
    <3>2. WindowInv(s, Busy(w), windowing)
      BY <1>0, <2>3 DEF WindowInv, BaseInv, Window
    <3> HIDE DEF s
    <3> QED
      BY <1>1, <2>1, <3>1, <3>2
  <2> QED
    BY <2>2, <2>3
<1> QED
  BY <1>3, <1>4, <1>5, <1>6, <1>7, <1>8, <1>9, <1>10 DEF ClientRequest
-----------------------------------------------------------------------------
(* The user and the camera.                                                *)

\* The handlers of a drag, and the frames that follow it.
LEMMA UserInputStep ==
    ASSUME FlagInv, WindowsInv, DragType, UserInput
    PROVE  FlagInv' /\ WindowsInv' /\ DragType'
<1>0. /\ wm \in {"Idle", "Inflight"}
      /\ windowing \in BOOLEAN /\ rendering \in BOOLEAN /\ armed \in BOOLEAN
      /\ grab \in Windows \cup {None} /\ waiting \subseteq Windows
      /\ \A w \in Windows : BaseInv(win[w]) /\ WindowInv(win[w], Busy(w), windowing)
      /\ NoLostWork
  BY DEF FlagInv, FlagType, WindowsInv, WindowInv
<1>1. ASSUME NEW w \in Windows, NEW resize \in BOOLEAN, OpStart(w, resize)
      PROVE  FlagInv' /\ WindowsInv' /\ DragType'
  <2>1. /\ UNCHANGED <<wm, count, timer, win, waiting>> /\ grab' \in Windows \cup {None}
        /\ windowing' = TRUE /\ armed' = TRUE /\ rendering' = rendering
    BY <1>1 DEF OpStart, UserStep
  <2>2. DragType'
    BY <1>1 DEF OpStart, DragType
  <2>3. NoLostWork'
    BY <2>1 DEF NoLostWork
  <2> QED
    BY <1>0, <2>1, <2>2, <2>3, FlagStep
<1>2. CASE OpMotion
  <2> DEFINE r == win[grab]
             s == [r EXCEPT !.resizing = r.resizing \/ sizing]
  <2>1. /\ grab \in Windows /\ win' = [win EXCEPT ![grab] = s]
        /\ UNCHANGED <<wm, count, timer, rendering, waiting, windowing, armed, grab>>
    BY <1>0, <1>2 DEF OpMotion, UserStep
  <2>2. DragType'
    BY <1>2 DEF OpMotion, DragType
  <2>3. NoLostWork'
    BY <1>0, <2>1 DEF NoLostWork
  <2>4. r \in Window /\ WindowInv(r, Busy(grab), windowing)
    BY <1>0, <2>1 DEF WindowInv, BaseInv
  <2>5. r.resizing \/ sizing \in BOOLEAN
    BY <2>4 DEF Window, DragType
  <2>6. WindowInv(s, Busy(grab), windowing)
    BY <2>4, <2>5 DEF WindowInv, BaseInv, Window
  <2> HIDE DEF s
  <2> QED
    BY <1>0, <2>1, <2>2, <2>3, <2>6, WindowStep
<1>3. CASE OpEnd
  <2>1. CASE ~sizing
    <3>1. /\ UNCHANGED <<wm, count, timer, rendering, waiting, windowing, armed, win>>
          /\ grab' = None /\ UNCHANGED <<sizing, opFrame>>
      BY <1>3, <2>1 DEF OpEnd, UserStep
    <3>2. NoLostWork'
      BY <1>0, <3>1 DEF NoLostWork
    <3> QED
      BY <1>0, <3>1, <3>2, FlagStep DEF DragType
  <2>2. CASE sizing
    <3>1. PICK ask \in Asks(win[grab]) :
            IF Unmanageable(win[grab]) THEN Fail("dragged a window that is gone")
            ELSE /\ win' = [win EXCEPT ![grab] = Finished([@ EXCEPT !.resizing = FALSE], ask)]
                 /\ grab' = None /\ sizing' = FALSE
                 /\ windowing' = TRUE /\ armed' = TRUE
                 /\ UserStep /\ UNCHANGED <<opFrame, failed>>
      BY <1>3, <2>2 DEF OpEnd
    <3>2. CASE Unmanageable(win[grab])
      BY <3>1, <3>2, FailStep DEF Fail, DragType
    <3>3. CASE ~Unmanageable(win[grab])
      <4> DEFINE r == [win[grab] EXCEPT !.resizing = FALSE]
                 s == Finished(r, ask)
      <4>1. /\ grab \in Windows /\ win' = [win EXCEPT ![grab] = s]
            /\ UNCHANGED <<wm, count, timer, rendering, waiting, opFrame>>
            /\ windowing' = TRUE /\ armed' = TRUE /\ grab' = None /\ sizing' = FALSE
        BY <1>0, <1>3, <3>1, <3>3 DEF OpEnd, UserStep
      <4>2. BaseInv(r)
        BY <1>0, <4>1 DEF BaseInv, Window
      <4> HIDE DEF r
      <4>3. WindowInv(s, Busy(grab), TRUE)
        BY <4>2, BusyType, FinishedWanted
      <4> HIDE DEF s
      <4>4. NoLostWork' /\ DragType'
        BY <4>1 DEF NoLostWork, DragType
      <4> QED
        BY <1>0, <4>1, <4>3, <4>4, WindowStep
    <3> QED
      BY <3>2, <3>3
  <2> QED
    BY <2>1, <2>2
<1> QED
  BY <1>1, <1>2, <1>3 DEF UserInput

\* step_op_frame, which configures the dragged window and runs a manage pass at
\* once, or asks for one while a transaction is in flight.
LEMMA OpFrameStep ==
    ASSUME FlagInv, WindowsInv, DragType, OpFrame
    PROVE  FlagInv' /\ WindowsInv' /\ DragType'
<1>0. /\ wm \in {"Idle", "Inflight"} /\ armed \in BOOLEAN
      /\ windowing \in BOOLEAN /\ rendering \in BOOLEAN
      /\ grab \in Windows \cup {None} /\ waiting \subseteq Windows
      /\ \A w \in Windows : BaseInv(win[w]) /\ WindowInv(win[w], Busy(w), windowing)
  BY DEF FlagInv, FlagType, WindowsInv, WindowInv
<1>1. PICK ask \in IF grab = None THEN {"none"} ELSE Asks(win[grab]) :
        LET moved == IF grab = None THEN win ELSE [win EXCEPT ![grab] = Finished(@, ask)]
        IN  IF grab # None /\ Unmanageable(win[grab]) THEN Fail("dragged a window that is gone")
            ELSE /\ opFrame' = FALSE /\ UNCHANGED sizing
                 /\ IF wm = "Idle" THEN ManagePass(moved, armed)
                    ELSE /\ win' = moved /\ DirtyWindowing
                         /\ UNCHANGED <<wm, count, timer, grab, waiting, failed>>
  BY DEF OpFrame
<1> DEFINE moved == IF grab = None THEN win ELSE [win EXCEPT ![grab] = Finished(@, ask)]
<1>2. \A w \in Windows : BaseInv(moved[w])
  <2>1. CASE grab = None
    BY <1>0, <2>1
  <2>2. CASE grab # None
    <3>1. grab \in Windows
      BY <1>0, <2>2
    <3>2. BaseInv(Finished(win[grab], ask))
      BY <1>0, <3>1, FinishedBase
    <3>3. \A w \in Windows : moved[w] = IF w = grab THEN Finished(win[grab], ask) ELSE win[w]
      BY <2>2 DEF WindowsInv
    <3> HIDE DEF moved
    <3> QED
      BY <1>0, <3>2, <3>3
  <2> QED
    BY <2>1, <2>2
<1>3. CASE grab # None /\ Unmanageable(win[grab])
  BY <1>1, <1>3, FailStep DEF Fail, DragType
<1>4. CASE ~(grab # None /\ Unmanageable(win[grab])) /\ wm = "Idle"
  <2>1. ManagePass(moved, armed) /\ DragType'
    BY <1>1, <1>4 DEF DragType
  <2> HIDE DEF moved
  <2> QED
    BY <1>0, <1>2, <2>1, ManagePassStep
<1>5. CASE ~(grab # None /\ Unmanageable(win[grab])) /\ wm # "Idle"
  <2>1. /\ win' = moved /\ DirtyWindowing /\ DragType'
        /\ UNCHANGED <<wm, count, timer, grab, waiting>>
    BY <1>1, <1>5 DEF DragType
  <2>2. windowing' = TRUE /\ armed' = TRUE /\ rendering' \in BOOLEAN /\ NoLostWork'
    BY <2>1, DirtyStep DEF DirtyWindowing
  <2>3. CASE grab = None
    <3>1. UNCHANGED win
      BY <2>1, <2>3
    <3> QED
      BY <1>0, <2>1, <2>2, <3>1, FlagStep
  <2>4. CASE grab # None
    <3> DEFINE s == Finished(win[grab], ask)
    <3>1. grab \in Windows /\ win' = [win EXCEPT ![grab] = s]
      BY <1>0, <2>1, <2>4
    <3>2. WindowInv(s, Busy(grab), TRUE)
      BY <1>0, <3>1, BusyType, FinishedWanted
    <3> HIDE DEF s
    <3> QED
      BY <1>0, <2>1, <2>2, <3>1, <3>2, WindowStep
  <2> QED
    BY <2>3, <2>4
<1> QED
  BY <1>3, <1>4, <1>5

\* A camera frame with no status bar to configure leaves the windows alone.
LEMMA FrameConfiguresNone ==
    ASSUME WindowsInv, ConfiguredAside = {}, ViewportFrame
    PROVE  UNCHANGED win
BY DEF WindowsInv, ConfiguredAside, ViewportFrame

\* update_viewport_local lays out at once what a render pass was wanted for, and
\* configures status bars.
LEMMA ViewportFrameStep ==
    ASSUME FlagInv, WindowsInv, ViewportFrame
    PROVE  FlagInv' /\ WindowsInv'
<1>1. PICK plan \in [StatusBars -> Ask] :
        win' = [w \in Windows |->
                  IF w \in StatusBars /\ plan[w] # "none" THEN Finished(win[w], plan[w])
                  ELSE win[w]]
  BY DEF ViewportFrame
<1>2. /\ UNCHANGED <<wm, count, timer, waiting, windowing, grab>>
      /\ rendering' = FALSE /\ armed' = (armed /\ windowing)
      /\ ConfiguredAside = StatusBars
  BY DEF ViewportFrame, ConfiguredAside
<1>3. windowing \in BOOLEAN /\ armed \in BOOLEAN /\ grab \in Windows \cup {None}
  BY DEF FlagInv, FlagType
<1>4. armed' \in BOOLEAN /\ NoLostWork'
  BY <1>2, <1>3 DEF FlagInv, NoLostWork
<1>5. FlagInv'
  BY <1>2, <1>3, <1>4 DEF FlagInv, FlagType, InflightIsTimed
<1>6. ASSUME NEW w \in Windows
      PROVE  win'[w] \in Window /\ WindowInv(win'[w], Busy(w), windowing)
  <2>1. win[w] \in Window /\ WindowInv(win[w], Busy(w), windowing)
    BY DEF WindowsInv
  <2>2. CASE w \in StatusBars /\ plan[w] # "none"
    <3> DEFINE f == Finished(win[w], plan[w])
    <3>1. win'[w] = f /\ Busy(w)
      BY <1>1, <1>2, <2>2 DEF Busy
    <3>2. BaseInv(f) /\ (f.st = "Mapped" => win[w].st = "Mapped")
            /\ (f.st = "Closing" => win[w].st = "Closing") /\ f.listed = win[w].listed
      BY <2>1, FinishedBase, FinishedFields DEF WindowInv
    <3> HIDE DEF f
    <3> QED
      BY <2>1, <3>1, <3>2 DEF WindowInv, BaseInv
  <2>3. CASE ~(w \in StatusBars /\ plan[w] # "none")
    BY <1>1, <2>1, <2>3
  <2> QED
    BY <2>2, <2>3
<1>7. win' \in [Windows -> Window]
  BY <1>1, <1>6
<1> QED
  BY <1>2, <1>5, <1>6, <1>7 DEF WindowsInv, Busy, ConfiguredAside

-----------------------------------------------------------------------------
(* The invariant, and what follows from it.                                *)

\* Nothing is configured yet.
LEMMA InitIInv == Init => IInv
<1> SUFFICES ASSUME Init PROVE IInv
  OBVIOUS
<1>1. Cardinality(Windows) \in Nat
  BY FS_CardinalityType, WindowsAssumption
<1>2. FlagInv /\ DragType
  <2>1. FlagType
    <3>1. 0 \in 0..Cardinality(Windows)
      BY <1>1
    <3>2. wm = "Idle" /\ count = 0 /\ timer = FALSE /\ windowing = FALSE
            /\ rendering = FALSE /\ armed = FALSE /\ grab = None /\ waiting = {}
      BY DEF Init
    <3> QED
      BY <3>1, <3>2 DEF FlagType
  <2>2. InflightIsTimed /\ NoLostWork /\ DragType
    BY DEF Init, InflightIsTimed, NoLostWork, DragType
  <2> QED
    BY <2>1, <2>2 DEF FlagInv
<1>3. win = [w \in Windows |-> NoWindow] /\ wm = "Idle" /\ windowing = FALSE
  BY DEF Init
<1>4. WindowInv(NoWindow, FALSE, FALSE) /\ NoWindow \in Window
  BY NoWindowInv DEF WindowInv, BaseInv
<1>5. WindowsInv
  BY <1>3, <1>4, WindowInvMonotone, BusyType DEF WindowsInv
<1> QED
  BY <1>2, <1>5 DEF IInv

\* Every step keeps what holds of the flags and of each window.
LEMMA NextStep == IInv /\ [Next]_vars => IInv'
<1> SUFFICES ASSUME FlagInv, WindowsInv, DragType, [Next]_vars
             PROVE  FlagInv' /\ WindowsInv' /\ DragType'
  BY DEF IInv
<1>0. UNCHANGED <<sizing, opFrame>> => DragType'
  BY DEF DragType
<1>1. CASE IdleCallback
  BY <1>0, <1>1, IdleCallbackStep DEF IdleCallback
<1>2. CASE Timeout
  BY <1>0, <1>2, TimeoutStep DEF Timeout
<1>3. CASE LayoutChanged
  <2>1. /\ DirtyWindowing \/ DirtyRendering
        /\ UNCHANGED <<wm, count, timer, win, grab, waiting, sizing, opFrame>>
    BY <1>3 DEF LayoutChanged
  <2>2. windowing' \in BOOLEAN /\ rendering' \in BOOLEAN /\ armed' \in BOOLEAN /\ NoLostWork'
    BY <2>1, DirtyStep
  <2>3. windowing => windowing'
    BY <2>1 DEF DirtyWindowing, DirtyRendering
  <2>4. grab' \in Windows \cup {None}
    BY <2>1 DEF FlagInv, FlagType
  <2> QED
    BY <1>0, <2>1, <2>2, <2>3, <2>4, FlagStep
<1>4. ASSUME NEW w \in Windows, ClientRequest(w)
      PROVE  FlagInv' /\ WindowsInv' /\ DragType'
  <2>1. UNCHANGED <<sizing, opFrame>>
    BY <1>4 DEF ClientRequest, NewToplevel, InitialCommit, NegotiateDecoration, AckConfigure,
                Commit, Map, Unmap, Destroy, Committed, ClientStep, Fail
  <2> QED
    BY <1>0, <1>4, <2>1, ClientRequestStep
<1>5. CASE UserInput
  BY <1>5, UserInputStep
<1>6. CASE OpFrame
  BY <1>6, OpFrameStep
<1>7. CASE ViewportFrame
  BY <1>0, <1>7, ViewportFrameStep DEF ViewportFrame
<1>8. CASE UNCHANGED vars
  BY <1>8 DEF vars, FlagInv, FlagType, InflightIsTimed, NoLostWork, WindowsInv, DragType,
              Busy, ConfiguredAside
<1> QED
  BY <1>1, <1>2, <1>3, <1>4, <1>5, <1>6, <1>7, <1>8 DEF Next

\* So it holds in every state.
LEMMA Inductive == Spec => []IInv
<1>1. Init => IInv
  BY InitIInv
<1>2. IInv /\ [Next]_vars => IInv'
  BY NextStep
<1> QED
  BY <1>1, <1>2, PTL DEF Spec

\* Every variable keeps its type; in particular the count of configures never
\* exceeds the number of windows nor drops below zero (notify_configured).
THEOREM TypeCorrect == Spec => []TypeOK
<1>1. IInv => TypeOK
  BY DEF IInv, FlagInv, FlagType, DragType, WindowsInv, TypeOK
<1> QED
  BY <1>1, Inductive, PTL

\* A transaction in flight counts a configure and has its timer running, and none
\* is left over from an earlier one (manage_finish, render_start).
THEOREM TransactionsTimed == Spec => []InflightIsTimed
<1>1. IInv => InflightIsTimed
  BY DEF IInv, FlagInv
<1> QED
  BY <1>1, Inductive, PTL

\* No handler loses a wish for a pass: the idle callback is armed, or a transaction
\* in flight will arm it (Pending, handle_idle).
THEOREM WorkIsDone == Spec => []NoLostWork
<1>1. IInv => NoLostWork
  BY DEF IInv, FlagInv
<1> QED
  BY <1>1, Inductive, PTL

\* The render list holds only windows a pass can manage, and no mapped window stays
\* outside it (Window::manage_start, set_closing).
THEOREM RenderListSound == Spec => []RenderListFollowsWindows
<1>1. IInv => RenderListFollowsWindows
  BY DEF IInv, WindowsInv, WindowInv, BaseInv, RenderListFollowsWindows
<1> QED
  BY <1>1, Inductive, PTL

\* A configure a listed window still has to answer has a pass that will take the
\* answer (Window::render_start), unless a camera frame sent it.
THEOREM AnswersSound == Spec => []AnswersAreExpected
<1>1. IInv => AnswersAreExpected
  BY DEF IInv, WindowsInv, WindowInv, AnswersAreExpected, Busy
<1> QED
  BY <1>1, Inductive, PTL

\* A frozen window has a render pass coming (Window::manage_finish, render_finish),
\* but for the status bars that camera frames configure.
THEOREM FrozenSound == Spec => []FrozenWillThaw
<1>1. IInv => FrozenWillThaw
  BY DEF IInv, FlagInv, FlagType, WindowsInv, WindowInv, FrozenWillThaw, Busy
<1> QED
  BY <1>1, Inductive, PTL

\* Nothing is left without a pass that takes care of it, with that exception.
THEOREM NothingLeftSound == Spec => []NothingIsLeft
<1>1. NoLostWork /\ AnswersAreExpected /\ FrozenWillThaw => NothingIsLeft
  BY DEF NothingIsLeft
<1> QED
  BY <1>1, WorkIsDone, AnswersSound, FrozenSound, PTL
-----------------------------------------------------------------------------
(* The abstract passes.                                                    *)

\* A render pass that ends a transaction finishes the abstract pass; between
\* transactions it is a wish for the next pass, or nothing.
LEMMA RenderPassMaps ==
    ASSUME NEW ws, NEW wanted \in BOOLEAN, FlagType,
           windowing => wanted, RenderPass(ws, wanted)
    PROVE  [Promise!Next]_(Promise!vars)
<1>1. wm' = "Idle" /\ windowing' \in {wanted, TRUE}
  BY DEF RenderPass
<1> QED
  BY <1>1 DEF FlagType, Promise!Next, Promise!Want, Promise!Finish, Promise!vars

\* A manage pass is an abstract pass, or begins one that waits.
LEMMA ManagePassMaps ==
    ASSUME NEW ws, NEW wasArmed, FlagType, wm = "Idle", ManagePass(ws, wasArmed)
    PROVE  [Promise!Next]_(Promise!vars)
<1>1. \/ wm' = "Idle" /\ windowing' \in BOOLEAN
      \/ wm' = "Inflight" /\ windowing' = FALSE
      \/ UNCHANGED <<wm, windowing>>
  BY DEF ManagePass, RenderPass, Fail
<1> QED
  BY <1>1 DEF FlagType, Promise!Next, Promise!Want, Promise!Begin, Promise!Pass, Promise!vars

\* An answer is no event of the abstract passes, a wish, or the end of one.
LEMMA NotifyMaps ==
    ASSUME NEW ws, NEW left, NEW dirtied \in BOOLEAN, FlagType,
           NotifyConfigured(ws, left, dirtied)
    PROVE  [Promise!Next]_(Promise!vars)
<1>1. CASE wm = "Inflight" /\ count = 1
  <2>1. RenderPass(ws, windowing \/ dirtied)
    BY <1>1 DEF NotifyConfigured
  <2> QED
    BY <2>1, RenderPassMaps DEF FlagType
<1>2. CASE ~(wm = "Inflight" /\ count = 1)
  <2>1. UNCHANGED wm /\ windowing' = (windowing \/ dirtied)
    BY <1>2 DEF NotifyConfigured
  <2> QED
    BY <2>1 DEF FlagType, Promise!Next, Promise!Want, Promise!vars
<1> QED
  BY <1>1, <1>2

\* A commit of a client is a step of the promise, or none.
LEMMA CommittedMaps ==
    ASSUME NEW w \in Windows, NEW r, NEW dirtied \in BOOLEAN, FlagType, Committed(w, r, dirtied)
    PROVE  [Promise!Next]_(Promise!vars)
<1>1. CASE r.cfg = "Acked"
  <2>1. \E ws, left : NotifyConfigured(ws, left, dirtied)
    BY <1>1 DEF Committed
  <2> QED
    BY <2>1, NotifyMaps
<1>2. CASE r.cfg # "Acked"
  <2>1. UNCHANGED wm /\ windowing' \in {windowing, TRUE}
    BY <1>2 DEF Committed, ClientStep, Fail, FlagType
  <2> QED
    BY <2>1 DEF Promise!Next, Promise!Want, Promise!vars
<1> QED
  BY <1>1, <1>2

\* Every step of the transactions is a step of the abstract passes or none.
LEMMA StepMaps == IInv /\ [Next]_vars => [Promise!Next]_(Promise!vars)
<1> SUFFICES ASSUME IInv, [Next]_vars PROVE [Promise!Next]_(Promise!vars)
  OBVIOUS
<1> USE DEF IInv, FlagInv
<1>1. CASE IdleCallback
  <2>1. CASE wm = "Idle" /\ windowing
    BY <1>1, <2>1, ManagePassMaps DEF IdleCallback
  <2>2. CASE wm = "Idle" /\ ~windowing /\ rendering
    <3>1. RenderPass(win, FALSE)
      BY <1>1, <2>2 DEF IdleCallback
    <3> QED
      BY <2>2, <3>1, RenderPassMaps
  <2>3. CASE ~(wm = "Idle" /\ (windowing \/ rendering))
    BY <1>1, <2>3 DEF IdleCallback, Promise!vars
  <2> QED
    BY <2>1, <2>2, <2>3
<1>2. CASE Timeout
  <2>0. timer
    BY <1>2 DEF Timeout
  <2>1. wm = "Inflight" /\ count > 0 /\ count # 0
    BY <2>0 DEF FlagType, InflightIsTimed
  <2>2. RenderPass(win, windowing)
    BY <1>2, <2>1 DEF Timeout
  <2> QED
    BY <2>2, RenderPassMaps DEF FlagType
<1>3. CASE LayoutChanged
  BY <1>3 DEF LayoutChanged, DirtyWindowing, DirtyRendering, Promise!Next, Promise!Want, Promise!vars
<1>4. ASSUME NEW w \in Windows, ClientRequest(w) PROVE [Promise!Next]_(Promise!vars)
  <2>1. CASE Commit(w)
    BY <2>1, CommittedMaps DEF Commit
  <2>2. CASE Map(w)
    <3>1. CASE win[w].st = "Initialized"
      BY <2>2, <3>1, CommittedMaps DEF Map
    <3>2. CASE win[w].st # "Initialized"
      BY <2>2, <3>2 DEF Map, Fail, Promise!vars
    <3> QED
      BY <3>1, <3>2
  <2>3. CASE ~Commit(w) /\ ~Map(w)
    <3>1. UNCHANGED wm /\ windowing' \in {windowing, TRUE}
      BY <1>4, <2>3 DEF ClientRequest, NewToplevel, InitialCommit, NegotiateDecoration,
         AckConfigure, Unmap, Destroy, ClientStep, DirtyWindowing
    <3> QED
      BY <3>1 DEF Promise!Next, Promise!Want, Promise!vars
  <2> QED
    BY <2>1, <2>2, <2>3
<1>5. CASE UserInput \/ ViewportFrame
  <2>1. UNCHANGED wm /\ windowing' \in {windowing, TRUE}
    BY <1>5 DEF UserInput, ViewportFrame, OpStart, OpMotion, OpEnd, UserStep, Fail
  <2> QED
    BY <2>1 DEF Promise!Next, Promise!Want, Promise!vars
<1>6. CASE OpFrame
  <2>1. (\E ws : wm = "Idle" /\ ManagePass(ws, armed))
          \/ (UNCHANGED wm /\ windowing' \in {windowing, TRUE})
    BY <1>6 DEF OpFrame, Fail, DirtyWindowing
  <2> QED
    BY <2>1, ManagePassMaps DEF Promise!Next, Promise!Want, Promise!vars
<1>7. CASE UNCHANGED vars
  BY <1>7 DEF vars, Promise!vars
<1> QED
  BY <1>1, <1>2, <1>3, <1>4, <1>5, <1>6, <1>7 DEF Next

\* The transactions implement the abstract passes: whatever clients, the user
\* and the camera do, a wish for a manage pass is dropped only by a pass that
\* begins after it was made (Pending::clean_windowing in manage_start).
THEOREM ImplementsPasses == Spec => Promise!Spec
<1>1. Init => Promise!Init
  BY DEF Init, Promise!Init
<1>2. IInv /\ [Next]_vars => [Promise!Next]_(Promise!vars)
  BY StepMaps
<1> QED
  BY <1>1, <1>2, Inductive, PTL DEF Spec, Promise!Spec
-----------------------------------------------------------------------------
(* What clients are owed.  A size that was committed late is drawn unless  *)
(* a camera frame takes the wish for a render pass along.                  *)

\* What a manage pass does to each window, and which it counts.
PassedTo(ws, done, counted, w) ==
    LET s == Started(ws[w]) IN
    \/ ~s.listed /\ done[w] = s /\ w \notin counted
    \/ /\ s.listed
       /\ \E a \in Asks(s) :
            \/ done[w] = Finished(s, a) /\ (w \in counted <=> Counts(s, a))
            \/ /\ w \in StatusBars
               /\ done[w] = Finished(Finished(s, a), "none")
               /\ (w \in counted <=> Counts(Finished(s, a), "none"))

\* How a manage pass ends.
PassEnds(ws, done, counted) ==
    \/ /\ Fail("managed a window that is gone")
       /\ \E w \in Windows : Started(ws[w]).listed /\ Unmanageable(Started(ws[w]))
    \/ counted = {} /\ RenderPass(done, FALSE) /\ UNCHANGED failed
    \/ /\ counted # {}
       /\ wm' = "Inflight" /\ count' = Cardinality(counted)
       /\ win' = done /\ waiting' = counted
       /\ UNCHANGED <<grab, failed>>

\* A manage pass, a window at a time.
LEMMA ManagePassCases ==
    ASSUME NEW ws, NEW wasArmed, ManagePass(ws, wasArmed)
    PROVE  \E done, counted :
             /\ done = [w \in Windows |-> done[w]] /\ counted \subseteq Windows
             /\ \A w \in Windows : PassedTo(ws, done, counted, w)
             /\ PassEnds(ws, done, counted)
<1> DEFINE started == [w \in Windows |-> Started(ws[w])]
           listed  == {w \in Windows : started[w].listed}
<1>1. PICK plan \in [Windows -> Ask] :
        LET early   == {w \in StatusBars \cap listed : plan[w] # "none"}
            placed  == [w \in Windows |->
                          IF w \in early THEN Finished(started[w], plan[w]) ELSE started[w]]
            ask     == [w \in Windows |-> IF w \in early THEN "none" ELSE plan[w]]
            counted == {w \in listed : Counts(placed[w], ask[w])}
            done    == [w \in Windows |->
                          IF w \in listed THEN Finished(placed[w], ask[w]) ELSE placed[w]]
        IN  /\ \A w \in Windows :
                  plan[w] \in IF w \in listed THEN Asks(started[w]) ELSE {"none"}
            /\ IF \E w \in listed : Unmanageable(started[w]) THEN Fail("managed a window that is gone")
               ELSE IF counted = {} THEN RenderPass(done, FALSE) /\ UNCHANGED failed
               ELSE /\ wm' = "Inflight" /\ count' = Cardinality(counted) /\ timer' = TRUE
                    /\ win' = done /\ waiting' = counted
                    /\ windowing' = FALSE /\ rendering' = TRUE
                    /\ armed' = (wasArmed /\ rendering)
                    /\ UNCHANGED <<grab, failed>>
  BY DEF ManagePass
<1> DEFINE early   == {w \in StatusBars \cap listed : plan[w] # "none"}
           placed  == [w \in Windows |->
                         IF w \in early THEN Finished(started[w], plan[w]) ELSE started[w]]
           ask     == [w \in Windows |-> IF w \in early THEN "none" ELSE plan[w]]
           counted == {w \in listed : Counts(placed[w], ask[w])}
           done    == [w \in Windows |->
                         IF w \in listed THEN Finished(placed[w], ask[w]) ELSE placed[w]]
<1>2. ASSUME NEW w \in Windows PROVE PassedTo(ws, done, counted, w)
  <2> DEFINE s == Started(ws[w])
  <2>1. started[w] = s /\ (w \in listed <=> s.listed)
    OBVIOUS
  <2>2. plan[w] \in IF w \in listed THEN Asks(started[w]) ELSE {"none"}
    BY <1>1
  <2> HIDE DEF started, listed
  <2>3. CASE w \notin listed
    <3>1. w \notin early
      BY <2>3
    <3>2. done[w] = s /\ w \notin counted
      BY <2>1, <2>3, <3>1
    <3> QED
      BY <2>1, <2>3, <3>2 DEF PassedTo
  <2>4. CASE w \in listed /\ w \notin early
    <3>1. placed[w] = s /\ ask[w] = plan[w]
      BY <2>1, <2>4
    <3> HIDE DEF placed, ask
    <3>2. done[w] = Finished(s, plan[w]) /\ (w \in counted <=> Counts(s, plan[w]))
      BY <2>4, <3>1
    <3>3. plan[w] \in Asks(s) /\ s.listed
      BY <2>1, <2>2, <2>4
    <3> HIDE DEF done, counted, s
    <3> QED
      BY <3>2, <3>3, Zenon DEF PassedTo, s
  <2>5. CASE w \in listed /\ w \in early
    <3>1. placed[w] = Finished(s, plan[w]) /\ ask[w] = "none" /\ w \in StatusBars
      BY <2>1, <2>5
    <3> HIDE DEF placed, ask
    <3>2. /\ done[w] = Finished(Finished(s, plan[w]), "none")
          /\ (w \in counted <=> Counts(Finished(s, plan[w]), "none"))
      BY <2>5, <3>1
    <3>3. plan[w] \in Asks(s) /\ s.listed /\ w \in StatusBars
      BY <2>1, <2>2, <2>5, <3>1
    <3> HIDE DEF done, counted, s
    <3> QED
      BY <3>2, <3>3, Zenon DEF PassedTo, s
  <2> QED
    BY <2>3, <2>4, <2>5
<1>3. PassEnds(ws, done, counted)
  <2>1. \A w \in listed : w \in Windows /\ started[w] = Started(ws[w]) /\ started[w].listed
    OBVIOUS
  <2>2. \/ /\ Fail("managed a window that is gone")
           /\ \E w \in listed : Unmanageable(started[w])
        \/ counted = {} /\ RenderPass(done, FALSE) /\ UNCHANGED failed
        \/ /\ counted # {}
           /\ wm' = "Inflight" /\ count' = Cardinality(counted)
           /\ win' = done /\ waiting' = counted
           /\ UNCHANGED <<grab, failed>>
    BY <1>1
  <2> HIDE DEF done, counted, listed, started
  <2> QED
    BY <2>1, <2>2 DEF PassEnds
<1>4. done = [w \in Windows |-> done[w]] /\ counted \subseteq Windows
  OBVIOUS
<1> HIDE DEF done, counted
<1> QED
  BY <1>2, <1>3, <1>4

\* After a manage pass every window that shows is in the render list.
LEMMA PassedFields ==
    ASSUME NEW ws, NEW done, NEW counted, NEW w \in Windows, BaseInv(ws[w]),
           PassedTo(ws, done, counted, w)
    PROVE  WindowInv(done[w], TRUE, FALSE)
<1> DEFINE s == Started(ws[w])
<1>1. BaseInv(s) /\ s.st # "Closing" /\ (s.listed <=> s.st \in Managed)
  BY StartedFields
<1>2. ASSUME NEW r, NEW a, BaseInv(r), r.st # "Closing", r.listed <=> r.st \in Managed
      PROVE  /\ BaseInv(Finished(r, a)) /\ Finished(r, a).st # "Closing"
             /\ Finished(r, a).listed <=> Finished(r, a).st \in Managed
  <2>1. r \in Window
    BY <1>2 DEF BaseInv
  <2> QED
    BY <1>2, <2>1, FinishedFields, FinishedBase DEF Managed
<1>3. \/ done[w] = s
      \/ \E a : done[w] = Finished(s, a)
      \/ \E a : done[w] = Finished(Finished(s, a), "none")
  BY DEF PassedTo
<1> HIDE DEF s
<1>4. \A a : /\ BaseInv(Finished(s, a)) /\ Finished(s, a).st # "Closing"
             /\ Finished(s, a).listed <=> Finished(s, a).st \in Managed
  BY <1>1, <1>2
<1>5. /\ BaseInv(done[w]) /\ done[w].st # "Closing"
      /\ done[w].listed <=> done[w].st \in Managed
  BY <1>1, <1>2, <1>3, <1>4
<1> QED
  BY <1>5, PassedInv

\* A render pass adopts every late size, or leaves a manage pass to do it.
LEMMA RenderDraws ==
    ASSUME NEW ws, NEW wanted \in BOOLEAN,
           \A w \in Windows : WindowInv(ws[w], TRUE, wanted),
           RenderPass(ws, wanted)
    PROVE  LateSizeIsDrawn'
<1> SUFFICES ASSUME NEW w \in Windows, win'[w].late, win'[w].st = "Mapped"
             PROVE  windowing'
  BY DEF LateSizeIsDrawn
<1> DEFINE r == ws[w]
           a == IF r.listed THEN Rendered(r) ELSE r
<1>1. win'[w] = Settled(a) /\ (wanted => windowing')
  BY DEF RenderPass
<1>2. r \in Window /\ (r.st = "Mapped" => r.listed \/ wanted)
  BY DEF WindowInv, BaseInv
<1>3. a \in Window /\ a.st = r.st /\ (r.listed => ~a.late)
  <2>1. CASE r.listed
    BY <1>2, <2>1, RenderedFields DEF Rendered, Window
  <2>2. CASE ~r.listed
    BY <1>2, <2>2
  <2> QED
    BY <2>1, <2>2
<1> HIDE DEF a
<1>4. ~Freed(a) /\ a.st = "Mapped" /\ a.late
  <2>1. Settled(a) = NoWindow \/ Settled(a) = a \/ Settled(a) = [a EXCEPT !.saved = FALSE]
    BY DEF Settled
  <2>2. NoWindow.st = "Free"
    BY DEF NoWindow
  <2>3. a.st = "Mapped" /\ a.late
    BY <1>1, <1>3, <2>1, <2>2 DEF Window
  <2> QED
    BY <2>3 DEF Freed
<1> QED
  BY <1>1, <1>2, <1>3, <1>4

\* So does a manage pass.
LEMMA ManageDraws ==
    ASSUME NEW ws, \A w \in Windows : BaseInv(ws[w]), NEW wasArmed, ManagePass(ws, wasArmed),
           LateSizeIsDrawn
    PROVE  LateSizeIsDrawn'
<1>1. PICK done, counted :
        /\ \A w \in Windows : PassedTo(ws, done, counted, w)
        /\ PassEnds(ws, done, counted)
  BY ManagePassCases
<1>2. \A w \in Windows : WindowInv(done[w], TRUE, FALSE)
  BY <1>1, PassedFields
<1>3. CASE Fail("managed a window that is gone")
  BY <1>3 DEF Fail, LateSizeIsDrawn
<1>4. CASE RenderPass(done, FALSE)
  BY <1>2, <1>4, RenderDraws
<1>5. CASE wm' = "Inflight"
  BY <1>5 DEF LateSizeIsDrawn
<1> QED
  BY <1>1, <1>3, <1>4, <1>5 DEF PassEnds

\* The answer of one client leaves its size to the pass that is coming.
LEMMA CommittedDraws ==
    ASSUME ConfiguredAside = {}, FlagInv, WindowsInv, LateSizeIsDrawn, NEW w \in Windows, NEW r,
           NEW dirtied \in BOOLEAN,
           WindowInv(r, Busy(w), windowing \/ dirtied),
           r.late /\ r.st = "Mapped" => wm = "Inflight" \/ windowing \/ dirtied \/ rendering,
           Committed(w, r, dirtied)
    PROVE  LateSizeIsDrawn'
<1> DEFINE wanted == windowing \/ dirtied
<1>0. wm \in {"Idle", "Inflight"} /\ windowing \in BOOLEAN /\ wanted \in BOOLEAN
  BY DEF FlagInv, FlagType
<1>1. r \in Window /\ win \in [Windows -> Window]
  BY DEF WindowInv, BaseInv, WindowsInv
<1>2. CASE r.cfg = "Acked"
  <2> DEFINE c == [r EXCEPT !.cfg = "Committed", !.late = TRUE]
             ws == [win EXCEPT ![w] = c]
  <2>1. NotifyConfigured(ws, waiting \ {w}, dirtied)
    BY <1>2 DEF Committed
  <2>2. /\ WindowInv(c, Busy(w), wanted) /\ c.st = r.st
    BY <1>1 DEF WindowInv, BaseInv, Window, ConfigureState
  <2>3. \A v \in Windows : WindowInv(win[v], Busy(v), wanted)
    BY <1>0, BusyType, WindowInvMonotone DEF WindowsInv
  <2>4. r.st = "Mapped" => wm = "Inflight" \/ wanted
    BY <1>2 DEF WindowInv, Busy
  <2> HIDE DEF c
  <2>5. \A v \in Windows : /\ WindowInv(ws[v], Busy(v), wanted)
                           /\ v # w => ws[v] = win[v]
                           /\ v = w => ws[v] = c
    BY <1>1, <2>2, <2>3
  <2>6. CASE wm = "Inflight" /\ count = 1
    <3>1. RenderPass(ws, wanted)
      BY <2>1, <2>6 DEF NotifyConfigured
    <3>2. \A v \in Windows : WindowInv(ws[v], TRUE, wanted)
      BY <1>0, <2>5, BusyWeaker
    <3> QED
      BY <1>0, <3>1, <3>2, RenderDraws
  <2>7. CASE ~(wm = "Inflight" /\ count = 1)
    <3>1. win' = ws /\ windowing' = wanted /\ UNCHANGED <<wm, rendering>>
      BY <2>1, <2>7 DEF NotifyConfigured
    <3>2. ASSUME NEW v \in Windows, ws[v].late, ws[v].st = "Mapped"
          PROVE  wm = "Inflight" \/ wanted \/ rendering
      BY <2>2, <2>4, <2>5, <3>2 DEF LateSizeIsDrawn
    <3> HIDE DEF ws, wanted
    <3> QED
      BY <3>1, <3>2 DEF LateSizeIsDrawn
  <2> QED
    BY <2>6, <2>7
<1>3. CASE r.cfg = "TimedOutAcked"
  BY <1>3 DEF Committed, LateSizeIsDrawn
<1>4. CASE r.cfg \notin {"Acked", "TimedOutAcked"}
  <2>1. CASE Fail("frame done before mapped")
    BY <2>1 DEF Fail, LateSizeIsDrawn
  <2>2. CASE ~Fail("frame done before mapped")
    <3>1. /\ win' = [win EXCEPT ![w] = r] /\ windowing' = wanted /\ UNCHANGED <<wm, rendering>>
      BY <1>4, <2>2 DEF Committed, ClientStep
    <3>2. \A v \in Windows : (v # w => win'[v] = win[v]) /\ (v = w => win'[v] = r)
      BY <1>1, <3>1
    <3> QED
      BY <3>1, <3>2 DEF LateSizeIsDrawn
  <2> QED
    BY <2>1, <2>2
<1> QED
  BY <1>2, <1>3, <1>4

\* A window that is not committed a late size leaves the property alone.
LEMMA LateElsewhere ==
    ASSUME LateSizeIsDrawn, win \in [Windows -> Window], NEW w \in Windows, NEW r,
           win' = [win EXCEPT ![w] = r], UNCHANGED wm,
           r.late /\ r.st = "Mapped" => win[w].late /\ win[w].st = "Mapped",
           windowing => windowing', rendering => rendering'
    PROVE  LateSizeIsDrawn'
<1>1. \A v \in Windows : (v # w => win'[v] = win[v]) /\ (v = w => win'[v] = r)
  OBVIOUS
<1> QED
  BY <1>1 DEF LateSizeIsDrawn

\* A size of a manage pass or of a drag is no answer of a client.
LEMMA FinishedLate ==
    ASSUME NEW r \in Window, NEW ask
    PROVE  /\ Finished(r, ask).late = r.late
           /\ Finished(r, ask).st = "Mapped" => r.st = "Mapped"
<1>1. CASE Skips(r, ask)
  BY <1>1 DEF Finished
<1>2. CASE ~Skips(r, ask)
  BY <1>2 DEF Finished, Window
<1> QED
  BY <1>1, <1>2

\* A client's requests that answer nothing.
LEMMA RequestDraws ==
    ASSUME ConfiguredAside = {}, FlagInv, WindowsInv, LateSizeIsDrawn, NEW w \in Windows,
           ClientRequest(w)
    PROVE  LateSizeIsDrawn'
<1> DEFINE r == win[w]
<1>0. /\ wm \in {"Idle", "Inflight"} /\ windowing \in BOOLEAN
      /\ r \in Window /\ WindowInv(r, Busy(w), windowing)
      /\ win \in [Windows -> Window]
  BY DEF FlagInv, FlagType, WindowsInv
<1>1. DirtyWindowing => (windowing => windowing') /\ (rendering => rendering')
  BY DEF DirtyWindowing
<1>2. ASSUME NEW s, ClientStep(w, s), s.late /\ s.st = "Mapped" => r.late /\ r.st = "Mapped",
             DirtyWindowing \/ UNCHANGED <<windowing, rendering>>
      PROVE  LateSizeIsDrawn'
  <2>1. win' = [win EXCEPT ![w] = s] /\ UNCHANGED wm
    BY <1>2 DEF ClientStep
  <2>2. (windowing => windowing') /\ (rendering => rendering')
    BY <1>1, <1>2
  <2>3. s.late /\ s.st = "Mapped" => win[w].late /\ win[w].st = "Mapped"
    BY <1>2
  <2> HIDE DEF r
  <2> QED
    BY <1>0, <2>1, <2>2, <2>3, LateElsewhere
<1>3. CASE NewToplevel(w)
  <2> DEFINE s == [NoWindow EXCEPT !.st = "Init", !.alive = TRUE]
  <2>1. ClientStep(w, s) /\ UNCHANGED <<windowing, rendering>>
    BY <1>3 DEF NewToplevel
  <2>2. s.st = "Init"
    BY DEF NoWindow
  <2> HIDE DEF s
  <2> QED
    BY <1>2, <2>1, <2>2
<1>4. CASE InitialCommit(w)
  <2> DEFINE s == [r EXCEPT !.st = "Ready", !.client = "waiting"]
  <2>1. ClientStep(w, s) /\ DirtyWindowing
    BY <1>4 DEF InitialCommit
  <2>2. s.st = "Ready"
    BY <1>0 DEF Window
  <2> HIDE DEF s
  <2> QED
    BY <1>2, <2>1, <2>2
<1>5. CASE NegotiateDecoration(w)
  <2>1. PICK answers : ClientStep(w, [r EXCEPT !.client = IF @ = "waiting" THEN "told" ELSE @,
                                               !.answers = answers])
                       /\ DirtyWindowing
    BY <1>5 DEF NegotiateDecoration
  <2> DEFINE s == [r EXCEPT !.client = IF @ = "waiting" THEN "told" ELSE @, !.answers = answers]
  <2>2. s.st = r.st /\ s.late = r.late
    BY <1>0 DEF Window
  <2>3. ClientStep(w, s) /\ DirtyWindowing
    BY <2>1
  <2> HIDE DEF s
  <2> QED
    BY <1>2, <2>2, <2>3
<1>6. CASE AckConfigure(w)
  <2>1. PICK cfg, client : /\ ClientStep(w, [r EXCEPT !.cfg = cfg, !.client = client])
                           /\ UNCHANGED <<windowing, rendering>>
    BY <1>6 DEF AckConfigure
  <2> DEFINE s == [r EXCEPT !.cfg = cfg, !.client = client]
  <2>2. s.st = r.st /\ s.late = r.late
    BY <1>0 DEF Window
  <2>3. ClientStep(w, s)
    BY <2>1
  <2> HIDE DEF s
  <2> QED
    BY <1>2, <2>1, <2>2, <2>3
<1>7. CASE Commit(w)
  <2>1. Committed(w, r, FALSE) /\ FALSE \in BOOLEAN
    BY <1>7 DEF Commit
  <2>2. WindowInv(r, Busy(w), windowing \/ FALSE)
    BY <1>0
  <2>3. r.late /\ r.st = "Mapped" => wm = "Inflight" \/ windowing \/ FALSE \/ rendering
    BY DEF LateSizeIsDrawn
  <2> HIDE DEF r
  <2> QED
    BY <2>1, <2>2, <2>3, CommittedDraws
<1>8. CASE Map(w)
  <2> DEFINE s == [r EXCEPT !.st = "Mapped", !.client = "mapped"]
  <2>1. CASE r.st = "Initialized"
    <3>1. Committed(w, s, TRUE) /\ TRUE \in BOOLEAN
      BY <1>8, <2>1 DEF Map
    <3>2. WindowInv(s, Busy(w), windowing \/ TRUE)
      BY <1>0, <2>1 DEF WindowInv, BaseInv, Window, WindowState, Client, Managed
    <3> HIDE DEF s
    <3>3. s.late /\ s.st = "Mapped" => wm = "Inflight" \/ windowing \/ TRUE \/ rendering
      OBVIOUS
    <3> QED
      BY <3>1, <3>2, <3>3, CommittedDraws
  <2>2. CASE r.st # "Initialized"
    <3>1. UNCHANGED <<wm, windowing, rendering, win>>
      BY <1>8, <2>2 DEF Map, Fail
    <3> QED
      BY <3>1 DEF LateSizeIsDrawn
  <2> QED
    BY <2>1, <2>2
<1>9. CASE Unmap(w)
  <2>1. CASE r.st = "Mapped"
    <3> DEFINE s == [SetClosing(r) EXCEPT !.saved = TRUE, !.client = "new", !.answers = FALSE]
    <3>1. ClientStep(w, s) /\ DirtyWindowing
      BY <1>9, <2>1 DEF Unmap
    <3>2. s.st = "Closing"
      BY <1>0 DEF SetClosing, Window
    <3> HIDE DEF s
    <3> QED
      BY <1>2, <3>1, <3>2
  <2>2. CASE r.st # "Mapped"
    <3> DEFINE s == [r EXCEPT !.client = "new", !.answers = FALSE]
    <3>1. ClientStep(w, s) /\ UNCHANGED <<windowing, rendering>>
      BY <1>9, <2>2 DEF Unmap
    <3>2. s.st = r.st /\ s.late = r.late
      BY <1>0 DEF Window
    <3> HIDE DEF s
    <3> QED
      BY <1>2, <3>1, <3>2
  <2> QED
    BY <2>1, <2>2
<1>10. CASE Destroy(w)
  <2> DEFINE t == IF r.st \in Managed THEN SetClosing(r) ELSE r
             s == [t EXCEPT !.alive = FALSE]
  <2>1. ClientStep(w, s) /\ (DirtyWindowing \/ UNCHANGED <<windowing, rendering>>)
    BY <1>10 DEF Destroy
  <2>2. s.st # "Mapped"
    BY <1>0 DEF SetClosing, Window, Managed
  <2> HIDE DEF s
  <2> QED
    BY <1>2, <2>1, <2>2
<1> QED
  BY <1>3, <1>4, <1>5, <1>6, <1>7, <1>8, <1>9, <1>10 DEF ClientRequest

\* Every step but a camera frame, which draws no late size but takes the wish for
\* a render pass along (update_viewport_local).
LEMMA LateStep ==
    ASSUME ~Camera, IInv, LateSizeIsDrawn, [Next]_vars
    PROVE  LateSizeIsDrawn'
<1>0. /\ FlagInv /\ WindowsInv
      /\ wm \in {"Idle", "Inflight"} /\ windowing \in BOOLEAN /\ armed \in BOOLEAN
      /\ win \in [Windows -> Window]
      /\ \A w \in Windows : win[w] \in Window /\ BaseInv(win[w])
      /\ \A w \in Windows : WindowInv(win[w], Busy(w), windowing)
  BY DEF IInv, FlagInv, FlagType, WindowsInv, WindowInv
<1>1. ASSUME UNCHANGED <<wm, win>>, windowing => windowing', rendering => rendering'
      PROVE  LateSizeIsDrawn'
  BY <1>1 DEF LateSizeIsDrawn
<1>2. CASE IdleCallback
  <2>1. CASE wm = "Idle" /\ windowing
    <3>1. ManagePass(win, FALSE)
      BY <1>2, <2>1 DEF IdleCallback
    <3> QED
      BY <1>0, <3>1, ManageDraws
  <2>2. CASE wm = "Idle" /\ ~windowing /\ rendering
    <3>1. RenderPass(win, FALSE) /\ FALSE \in BOOLEAN
      BY <1>2, <2>2 DEF IdleCallback
    <3>2. \A w \in Windows : WindowInv(win[w], TRUE, FALSE)
      BY <1>0, <2>2, BusyWeaker
    <3> QED
      BY <3>1, <3>2, RenderDraws
  <2>3. CASE wm # "Idle" \/ (~windowing /\ ~rendering)
    BY <1>1, <1>2, <2>3 DEF IdleCallback
  <2> QED
    BY <1>0, <2>1, <2>2, <2>3
<1>3. CASE Timeout
  <2>1. timer /\ wm = "Inflight" /\ count > 0
    BY <1>0, <1>3 DEF Timeout, FlagInv, FlagType, InflightIsTimed
  <2>2. count # 0
    BY <2>1
  <2>3. RenderPass(win, windowing)
    BY <1>3, <2>1, <2>2 DEF Timeout
  <2>4. \A w \in Windows : WindowInv(win[w], TRUE, windowing)
    BY <1>0, BusyWeaker
  <2> QED
    BY <1>0, <2>3, <2>4, RenderDraws
<1>4. CASE LayoutChanged
  BY <1>1, <1>4 DEF LayoutChanged, DirtyWindowing, DirtyRendering
<1>5. ASSUME NEW w \in Windows, ClientRequest(w) PROVE LateSizeIsDrawn'
  BY <1>0, <1>5, RequestDraws DEF ConfiguredAside
<1>6. CASE UserInput
  <2>1. CASE \E w \in Windows, resize \in BOOLEAN : OpStart(w, resize)
    BY <1>1, <2>1 DEF OpStart, UserStep
  <2>2. CASE OpMotion
    <3> DEFINE s == [win[grab] EXCEPT !.resizing = @ \/ sizing]
    <3>1. grab \in Windows
      BY <1>0, <2>2 DEF OpMotion, FlagInv, FlagType
    <3>2. win' = [win EXCEPT ![grab] = s] /\ UNCHANGED <<wm, windowing, rendering>>
      BY <2>2 DEF OpMotion, UserStep
    <3>3. s.late = win[grab].late /\ s.st = win[grab].st
      BY <1>0, <3>1 DEF Window
    <3> HIDE DEF s
    <3> QED
      BY <1>0, <3>1, <3>2, <3>3, LateElsewhere
  <2>3. CASE OpEnd
    <3>1. grab \in Windows
      BY <1>0, <2>3 DEF OpEnd, FlagInv, FlagType
    <3>2. CASE sizing
      <4>1. CASE Fail("dragged a window that is gone")
        BY <4>1 DEF Fail, LateSizeIsDrawn
      <4>2. CASE ~Fail("dragged a window that is gone")
        <5> DEFINE q == [win[grab] EXCEPT !.resizing = FALSE]
        <5>1. PICK ask : win' = [win EXCEPT ![grab] = Finished(q, ask)]
          BY <2>3, <3>2, <4>2 DEF OpEnd
        <5>2. windowing' = TRUE /\ UNCHANGED <<wm, rendering>>
          BY <2>3, <3>2, <4>2 DEF OpEnd, UserStep
        <5>3. q \in Window /\ q.late = win[grab].late /\ q.st = win[grab].st
          BY <1>0, <3>1 DEF Window
        <5> DEFINE s == Finished(q, ask)
        <5> HIDE DEF q
        <5>4. s.late = win[grab].late /\ (s.st = "Mapped" => win[grab].st = "Mapped")
          BY <5>3, FinishedLate
        <5>5. win' = [win EXCEPT ![grab] = s]
          BY <5>1
        <5> HIDE DEF s
        <5> QED
          BY <1>0, <3>1, <5>2, <5>4, <5>5, LateElsewhere
      <4> QED
        BY <4>1, <4>2
    <3>3. CASE ~sizing
      BY <1>1, <2>3, <3>3 DEF OpEnd, UserStep
    <3> QED
      BY <3>2, <3>3
  <2> QED
    BY <1>6, <2>1, <2>2, <2>3 DEF UserInput
<1>7. CASE OpFrame
  <2>1. PICK ask : LET moved == IF grab = None THEN win ELSE [win EXCEPT ![grab] = Finished(@, ask)]
                   IN  \/ Fail("dragged a window that is gone")
                       \/ wm = "Idle" /\ ManagePass(moved, armed)
                       \/ wm # "Idle" /\ win' = moved /\ DirtyWindowing /\ UNCHANGED wm
    BY <1>7 DEF OpFrame
  <2> DEFINE moved == IF grab = None THEN win ELSE [win EXCEPT ![grab] = Finished(@, ask)]
  <2>2. \A w \in Windows : BaseInv(moved[w])
    BY <1>0, FinishedBase
  <2>3. CASE Fail("dragged a window that is gone")
    BY <2>3 DEF Fail, LateSizeIsDrawn
  <2>4. CASE ManagePass(moved, armed)
    <3> HIDE DEF moved
    <3> QED
      BY <1>0, <2>2, <2>4, ManageDraws
  <2>5. CASE wm # "Idle" /\ win' = moved /\ UNCHANGED wm
    BY <1>0, <2>5 DEF LateSizeIsDrawn
  <2> QED
    BY <2>1, <2>3, <2>4, <2>5
<1>8. ~ViewportFrame
  BY DEF ViewportFrame
<1>9. CASE UNCHANGED vars
  BY <1>1, <1>9 DEF vars
<1> QED
  BY <1>2, <1>3, <1>4, <1>5, <1>6, <1>7, <1>8, <1>9 DEF Next

\* A size that a client commits after the transaction gave up on it is drawn by a
\* pass still to come (handle_commit, TimedOutAcked), whatever clients and the user
\* do; only a camera frame between may take that pass along.
THEOREM LateSizesDrawn ==
    ASSUME ~Camera
    PROVE  Spec => []LateSizeIsDrawn
<1>1. Init => LateSizeIsDrawn
  <2>1. NoWindow.late = FALSE
    BY DEF NoWindow
  <2> QED
    BY <2>1 DEF Init, LateSizeIsDrawn
<1>2. IInv /\ LateSizeIsDrawn /\ [Next]_vars => LateSizeIsDrawn'
  BY LateStep
<1> QED
  BY <1>1, <1>2, Inductive, PTL DEF Spec
-----------------------------------------------------------------------------
(* What clients are owed, when none is dragged, shown again after an unmap,  *)
(* or told its decoration late: each of these breaks a part of it.           *)

\* How a window, its configure and its client keep step.
ClientInv(r) ==
    /\ r.alive /\ r.client = "new" => r.st \in {"Init", "Closing"} /\ (r.told \/ r.st = "Init")
    /\ r.alive /\ r.client = "waiting" => r.st = "Ready" /\ ~r.told
    /\ r.alive /\ r.client \in {"told", "ready"} => r.st = "Initialized" /\ r.told
    /\ r.alive /\ r.client = "mapped" => r.st = "Mapped" /\ r.told
    /\ ~r.told => r.cfg = "Idle"
    /\ r.st = "Free" => ~r.told
    /\ r.st \in Managed /\ r.cfg \in {"Inflight", "TimedOut"} => r.answers
    /\ r.st \in {"Initialized", "Mapped"} => r.listed
    /\ ~r.resizing

\* A client that has something left to answer.
Answering(r) == r.cfg = "Acked" \/ (r.cfg = "Inflight" /\ r.answers)

QuietInv ==
    /\ grab = None /\ opFrame = FALSE /\ failed = "none"
    /\ \A w \in Windows : ClientInv(win[w])
    /\ \A w \in waiting : Answering(win[w])

\* A window that is not used has no client.
LEMMA NoWindowClient == ClientInv(NoWindow)
BY DEF NoWindow, ClientInv, Managed

\* Window::manage_start: a window that closed takes no further part.
LEMMA StartedClient ==
    ASSUME NEW r, BaseInv(r), ClientInv(r)
    PROVE  ClientInv(Started(r))
<1>1. r \in Window /\ (r.st \in Managed => r.alive) /\ (r.listed => r.st \in Managed)
  BY DEF BaseInv
<1>2. CASE r.st = "Closing"
  <2>1. Started(r) = [r EXCEPT !.st = "Init", !.listed = FALSE, !.resizing = FALSE, !.late = FALSE]
    BY <1>2 DEF Started, Managed
  <2> QED
    BY <1>1, <1>2, <2>1 DEF ClientInv, Window, Managed
<1>3. CASE r.st \in Managed
  <2>1. Started(r) = [r EXCEPT !.listed = TRUE]
    BY <1>3 DEF Started, Managed
  <2> QED
    BY <1>1, <1>3, <2>1 DEF ClientInv, Window, Managed
<1>4. CASE r.st # "Closing" /\ r.st \notin Managed
  BY <1>4 DEF Started
<1> QED
  BY <1>2, <1>3, <1>4

\* Window::manage_finish tells a new client the configure it has to ack, and
\* counts a window only if its client has something left to answer.
LEMMA FinishedClient ==
    ASSUME NEW r, BaseInv(r), ClientInv(r), r.listed, NEW a \in Asks(r)
    PROVE  /\ BaseInv(Finished(r, a)) /\ ClientInv(Finished(r, a)) /\ Finished(r, a).listed
           /\ Counts(r, a) => Answering(Finished(r, a))
<1>1. r \in Window /\ r.alive /\ r.st \in Managed
  BY DEF BaseInv
<1>2. BaseInv(Finished(r, a)) /\ Finished(r, a).listed
  BY <1>1, FinishedBase, FinishedFields
<1>3. CASE Skips(r, a)
  <2>1. Finished(r, a) = r /\ ~Counts(r, a)
    BY <1>3 DEF Finished, Counts
  <2> QED
    BY <1>2, <2>1
<1>4. CASE ~Skips(r, a)
  <2> DEFINE saved == r.saved \/ (Tracks(r, a) /\ r.st = "Mapped")
             told == r.told \/ Sends(r, a)
             answers == r.answers \/ Sends(r, a)
             st == IF r.st = "Ready" THEN "Initialized" ELSE r.st
             client == IF r.client = "waiting" /\ Sends(r, a) THEN "told" ELSE r.client
             cfg == Configured(r, a)
             f == [r EXCEPT !.st = st, !.cfg = cfg, !.saved = saved, !.told = told,
                            !.answers = answers, !.client = client]
  <2>1. Finished(r, a) = f
    BY <1>4 DEF Finished
  <2>2. st \in {"Initialized", "Mapped"} /\ (r.st # "Ready" => st = r.st)
    BY <1>1 DEF Managed
  <2>3. r.client \in Client /\ r.told \in BOOLEAN /\ r.answers \in BOOLEAN
    BY <1>1 DEF Window
  <2>4. r.st = "Ready" => ~r.told /\ r.client = "waiting" /\ Sends(r, a)
    BY <1>1, <1>4, <2>3 DEF ClientInv, Client, Managed, Asks, Skips, Sends
  <2>5. /\ told /\ client \in {"told", "ready", "mapped"}
        /\ client \in {"told", "ready"} => st = "Initialized"
        /\ client = "mapped" => st = "Mapped"
    BY <1>1, <2>2, <2>3, <2>4 DEF ClientInv, Client, Managed
  <2>6. cfg \in {"Inflight", "TimedOut"} => answers
    BY <1>1, <2>4 DEF ClientInv, Configured, Managed, Sends
  <2>7. Tracks(r, a) => cfg \in {"Inflight", "Acked"}
    BY DEF Configured, Tracks, Sends
  <2>8. r.st # "Free" /\ ~r.resizing
    BY <1>1 DEF Managed, ClientInv
  <2>9. /\ f.st = st /\ f.cfg = cfg /\ f.told = told /\ f.answers = answers /\ f.client = client
        /\ f.listed = r.listed /\ f.resizing = r.resizing /\ f.alive = r.alive
    <3> HIDE DEF saved, told, answers, st, client, cfg
    <3> QED
      BY <1>1 DEF Window
  <2> HIDE DEF saved, told, answers, st, client, cfg, f
  <2>10. ClientInv(f)
    BY <1>1, <2>2, <2>5, <2>6, <2>8, <2>9 DEF ClientInv
  <2>11. Counts(r, a) => Answering(f)
    BY <2>6, <2>7, <2>9 DEF Counts, Answering
  <2> QED
    BY <1>2, <2>1, <2>10, <2>11
<1> QED
  BY <1>3, <1>4

\* A render pass: a configure nobody answered in time is given up, and a window
\* whose client has gone is free again.
LEMMA SettledClient ==
    ASSUME NEW r, BaseInv(r), ClientInv(r)
    PROVE  ClientInv(Settled(IF r.listed THEN Rendered(r) ELSE r))
<1> DEFINE a == IF r.listed THEN Rendered(r) ELSE r
<1>1. r \in Window
  BY DEF BaseInv
<1>2. a \in Window /\ ClientInv(a)
  <2>1. CASE r.listed
    <3> DEFINE cfg == CASE r.cfg = "Inflight"  -> "TimedOut"
                        [] r.cfg = "Acked"     -> "TimedOutAcked"
                        [] r.cfg = "Committed" -> "Idle"
                        [] OTHER -> r.cfg
    <3>1. a = [r EXCEPT !.late = FALSE, !.cfg = cfg]
      BY <2>1 DEF Rendered
    <3>2. /\ cfg \in {"Inflight", "TimedOut"} => r.cfg \in {"Inflight", "TimedOut"}
          /\ r.cfg = "Idle" => cfg = "Idle"
      OBVIOUS
    <3>3. a \in Window
      BY <1>1, <2>1, RenderedFields
    <3> HIDE DEF cfg
    <3> QED
      BY <1>1, <3>1, <3>2, <3>3 DEF ClientInv, Window
  <2>2. CASE ~r.listed
    BY <1>1, <2>2
  <2> QED
    BY <2>1, <2>2
<1> HIDE DEF a
<1>3. \/ Settled(a) = NoWindow
      \/ Settled(a) = a
      \/ Settled(a) = [a EXCEPT !.saved = FALSE]
  BY DEF Settled
<1>4. ClientInv([a EXCEPT !.saved = FALSE])
  BY <1>2 DEF ClientInv, Window
<1>5. ClientInv(Settled(a))
  BY <1>2, <1>3, <1>4, NoWindowClient
<1> QED
  BY <1>5 DEF a

\* A render pass waits for nobody.
LEMMA RenderServes ==
    ASSUME NEW ws, NEW wanted, \A w \in Windows : BaseInv(ws[w]) /\ ClientInv(ws[w]),
           QuietInv, RenderPass(ws, wanted), UNCHANGED <<opFrame, failed>>
    PROVE  QuietInv'
<1>1. /\ \A w \in Windows : win'[w] = Settled(IF ws[w].listed THEN Rendered(ws[w]) ELSE ws[w])
      /\ waiting' = {} /\ grab' = None
  BY DEF RenderPass, QuietInv
<1>2. \A w \in Windows : ClientInv(win'[w])
  BY <1>1, SettledClient
<1> QED
  BY <1>1, <1>2 DEF QuietInv

\* What a manage pass leaves of one window.
LEMMA PassedClient ==
    ASSUME NEW ws, NEW done, NEW counted, NEW w \in Windows, BaseInv(ws[w]), ClientInv(ws[w]),
           PassedTo(ws, done, counted, w)
    PROVE  /\ BaseInv(done[w]) /\ ClientInv(done[w])
           /\ w \in counted => Answering(done[w])
<1> DEFINE s == Started(ws[w])
<1>1. BaseInv(s) /\ ClientInv(s)
  BY StartedFields, StartedClient
<1>2. \/ ~s.listed /\ done[w] = s /\ w \notin counted
      \/ /\ s.listed
         /\ \E a \in Asks(s) :
              \/ done[w] = Finished(s, a) /\ (w \in counted <=> Counts(s, a))
              \/ /\ done[w] = Finished(Finished(s, a), "none")
                 /\ (w \in counted <=> Counts(Finished(s, a), "none"))
  BY DEF PassedTo
<1> HIDE DEF s
<1>3. ASSUME NEW a \in Asks(s), s.listed
      PROVE  /\ BaseInv(Finished(s, a)) /\ ClientInv(Finished(s, a)) /\ Finished(s, a).listed
             /\ Counts(s, a) => Answering(Finished(s, a))
  BY <1>1, <1>3, FinishedClient
<1>4. ASSUME NEW t, BaseInv(t), ClientInv(t), t.listed
      PROVE  /\ BaseInv(Finished(t, "none")) /\ ClientInv(Finished(t, "none"))
             /\ Counts(t, "none") => Answering(Finished(t, "none"))
  <2>1. "none" \in Asks(t)
    BY DEF Asks, Ask
  <2> QED
    BY <1>4, <2>1, FinishedClient
<1> QED
  BY <1>1, <1>2, <1>3, <1>4

\* A manage pass takes only windows it may manage, and counts only clients that
\* have something to answer.
LEMMA ManageServes ==
    ASSUME NEW ws, NEW wasArmed, \A w \in Windows : BaseInv(ws[w]) /\ ClientInv(ws[w]),
           QuietInv, ManagePass(ws, wasArmed), UNCHANGED opFrame
    PROVE  QuietInv'
<1>1. PICK done, counted :
        /\ counted \subseteq Windows
        /\ \A w \in Windows : PassedTo(ws, done, counted, w)
        /\ PassEnds(ws, done, counted)
  BY ManagePassCases
<1>2. \A w \in Windows : /\ BaseInv(done[w]) /\ ClientInv(done[w])
                         /\ w \in counted => Answering(done[w])
  BY <1>1, PassedClient
<1>3. \A w \in Windows : Started(ws[w]).listed => ~Unmanageable(Started(ws[w]))
  BY StartedFields DEF BaseInv, Managed, Unmanageable
<1>4. CASE RenderPass(done, FALSE) /\ UNCHANGED failed
  BY <1>2, <1>4, RenderServes
<1>5. CASE win' = done /\ waiting' = counted /\ UNCHANGED <<grab, failed>>
  BY <1>1, <1>2, <1>5 DEF QuietInv
<1> QED
  BY <1>1, <1>3, <1>4, <1>5 DEF PassEnds

\* A step that disturbs one window, and takes it off the waiting ones or leaves
\* it something to answer.
LEMMA OneWindow ==
    ASSUME QuietInv, win \in [Windows -> Window], waiting \subseteq Windows,
           NEW w \in Windows, NEW r,
           win' = [win EXCEPT ![w] = r], ClientInv(r), UNCHANGED <<grab, opFrame, failed>>,
           waiting' \subseteq waiting, w \in waiting' => Answering(r)
    PROVE  QuietInv'
<1>1. \A v \in Windows : (v # w => win'[v] = win[v]) /\ (v = w => win'[v] = r)
  OBVIOUS
<1> QED
  BY <1>1 DEF QuietInv

\* The commit of a client that has acked its configure, or asks for nothing.
LEMMA CommittedServes ==
    ASSUME IInv, QuietInv, NEW w \in Windows, NEW r, NEW dirtied,
           BaseInv(r), ClientInv(r), r.alive, r.client # "new",
           w \in waiting => Answering(r),
           Committed(w, r, dirtied)
    PROVE  QuietInv'
<1>0. /\ win \in [Windows -> Window] /\ waiting \subseteq Windows /\ r \in Window
      /\ \A v \in Windows : BaseInv(win[v])
  BY DEF IInv, FlagInv, FlagType, WindowsInv, WindowInv, BaseInv
<1>1. CASE r.cfg = "Acked"
  <2> DEFINE c == [r EXCEPT !.cfg = "Committed", !.late = TRUE]
             ws == [win EXCEPT ![w] = c]
  <2>1. NotifyConfigured(ws, waiting \ {w}, dirtied) /\ UNCHANGED <<opFrame, failed>>
    BY <1>1 DEF Committed
  <2>2. BaseInv(c) /\ ClientInv(c)
    <3>1. /\ c \in Window /\ c.cfg = "Committed"
          /\ c.alive = r.alive /\ c.st = r.st /\ c.client = r.client /\ c.told = r.told
          /\ c.answers = r.answers /\ c.listed = r.listed /\ c.resizing = r.resizing
      BY <1>0 DEF Window, ConfigureState
    <3>2. r.told
      BY <1>1 DEF ClientInv
    <3> HIDE DEF c
    <3> QED
      BY <3>1, <3>2 DEF BaseInv, ClientInv
  <2> HIDE DEF c
  <2>3. CASE wm = "Inflight" /\ count = 1
    <3>1. RenderPass(ws, windowing \/ dirtied)
      BY <2>1, <2>3 DEF NotifyConfigured
    <3>2. \A v \in Windows : ws[v] = win[v] \/ ws[v] = c
      BY <1>0
    <3>3. \A v \in Windows : BaseInv(ws[v]) /\ ClientInv(ws[v])
      BY <1>0, <2>2, <3>2 DEF QuietInv
    <3> HIDE DEF ws
    <3> QED
      BY <2>1, <3>1, <3>3, RenderServes
  <2>4. CASE ~(wm = "Inflight" /\ count = 1)
    <3>1. win' = [win EXCEPT ![w] = c] /\ waiting' = waiting \ {w} /\ UNCHANGED grab
      BY <2>1, <2>4 DEF NotifyConfigured
    <3>2. w \notin waiting' /\ waiting' \subseteq waiting
      BY <3>1
    <3> QED
      BY <1>0, <2>1, <2>2, <3>1, <3>2, OneWindow
  <2> QED
    BY <2>3, <2>4
<1>2. CASE r.cfg = "TimedOutAcked"
  <2> DEFINE c == [r EXCEPT !.cfg = "Idle", !.late = TRUE]
  <2>1. win' = [win EXCEPT ![w] = c] /\ UNCHANGED <<grab, opFrame, failed, waiting>>
    BY <1>2 DEF Committed, ClientStep
  <2>2. ClientInv(c)
    BY <1>0 DEF ClientInv, Window
  <2>3. w \notin waiting
    BY <1>2 DEF Answering
  <2> HIDE DEF c
  <2> QED
    BY <1>0, <2>1, <2>2, <2>3, OneWindow
<1>3. CASE r.cfg \notin {"Acked", "TimedOutAcked"}
  <2>1. ~(r.cfg = "Inflight" /\ r.st = "Ready")
    BY <1>0 DEF ClientInv, Window, Client
  <2>2. win' = [win EXCEPT ![w] = r] /\ UNCHANGED <<grab, opFrame, failed, waiting>>
    BY <1>3, <2>1 DEF Committed, ClientStep
  <2> QED
    BY <1>0, <2>2, OneWindow
<1> QED
  BY <1>1, <1>2, <1>3

\* What clients may ask, one request at a time.
LEMMA RequestServes ==
    ASSUME Draggable = {}, Remapping = {}, Decorating = {}, IInv, QuietInv,
           NEW w \in Windows, ClientRequest(w)
    PROVE  QuietInv'
<1> DEFINE r == win[w]
<1>0. /\ win \in [Windows -> Window] /\ waiting \subseteq Windows
      /\ r \in Window /\ BaseInv(r) /\ ClientInv(r) /\ (w \in waiting => Answering(r))
  BY DEF IInv, FlagInv, FlagType, WindowsInv, WindowInv, BaseInv, QuietInv
<1>1. ASSUME NEW s, ClientStep(w, s), ClientInv(s), waiting' \subseteq waiting,
             w \in waiting' => Answering(s)
      PROVE  QuietInv'
  <2>1. win' = [win EXCEPT ![w] = s] /\ UNCHANGED <<grab, opFrame, failed>>
    BY <1>1 DEF ClientStep
  <2> HIDE DEF r
  <2> QED
    BY <1>0, <1>1, <2>1, OneWindow
<1>2. CASE NewToplevel(w)
  <2> DEFINE s == [NoWindow EXCEPT !.st = "Init", !.alive = TRUE]
  <2>1. ClientStep(w, s) /\ UNCHANGED waiting /\ r.st = "Free"
    BY <1>2 DEF NewToplevel
  <2>2. ClientInv(s)
    BY DEF ClientInv, NoWindow, Managed
  <2>3. w \notin waiting
    BY <1>0, <2>1 DEF ClientInv, Answering
  <2> HIDE DEF s, r
  <2> QED
    BY <1>1, <2>1, <2>2, <2>3
<1>3. CASE InitialCommit(w)
  <2> DEFINE s == [r EXCEPT !.st = "Ready", !.client = "waiting"]
  <2>1. ClientStep(w, s) /\ UNCHANGED waiting /\ r.alive /\ r.client = "new" /\ ~r.told
    BY <1>3 DEF InitialCommit
  <2>2. r.cfg = "Idle" /\ ~r.resizing
    BY <1>0, <2>1 DEF ClientInv
  <2>3. /\ s.st = "Ready" /\ s.client = "waiting"
        /\ s.alive = r.alive /\ s.told = r.told /\ s.cfg = r.cfg /\ s.resizing = r.resizing
    BY <1>0 DEF Window
  <2>4. w \notin waiting
    BY <1>0, <2>2 DEF Answering
  <2> HIDE DEF s, r
  <2>5. ClientInv(s)
    BY <2>1, <2>2, <2>3 DEF ClientInv
  <2> QED
    BY <1>1, <2>1, <2>4, <2>5
<1>4. ~NegotiateDecoration(w)
  BY DEF NegotiateDecoration
<1>5. CASE AckConfigure(w)
  <2> DEFINE acked == CASE r.cfg = "Inflight" /\ r.answers -> "Acked"
                        [] r.cfg = "TimedOut" /\ r.answers -> "TimedOutAcked"
                        [] OTHER -> r.cfg
             client == IF r.client = "told" THEN "ready" ELSE r.client
             s == [r EXCEPT !.cfg = acked, !.client = client]
  <2>1. ClientStep(w, s) /\ UNCHANGED waiting /\ r.alive /\ r.client \in {"told", "ready", "mapped"}
    BY <1>5 DEF AckConfigure
  <2>2. /\ s.cfg = acked /\ s.client = client
        /\ s.alive = r.alive /\ s.told = r.told /\ s.st = r.st /\ s.resizing = r.resizing
        /\ s.answers = r.answers /\ s.listed = r.listed
    BY <1>0 DEF Window
  <2>3. /\ acked \in {"Inflight", "TimedOut"} => acked = r.cfg
        /\ r.cfg = "Acked" \/ (r.cfg = "Inflight" /\ r.answers) => acked = "Acked"
        /\ client \in {"told", "ready", "mapped"}
        /\ client = "mapped" => r.client = "mapped"
        /\ client \in {"told", "ready"} => r.client \in {"told", "ready"}
    BY <2>1
  <2>4. r.told
    BY <1>0, <2>1 DEF ClientInv
  <2> HIDE DEF s, r, acked, client
  <2>5. ClientInv(s)
    BY <1>0, <2>1, <2>2, <2>3, <2>4 DEF ClientInv
  <2>6. w \in waiting => Answering(s)
    BY <1>0, <2>2, <2>3 DEF Answering
  <2> QED
    BY <1>1, <2>1, <2>5, <2>6
<1>6. CASE Commit(w)
  <2>1. Committed(w, r, FALSE) /\ r.alive /\ r.client # "new"
    BY <1>6 DEF Commit
  <2> HIDE DEF r
  <2> QED
    BY <1>0, <2>1, CommittedServes
<1>7. CASE Map(w)
  <2>1. r.alive /\ r.client = "ready"
    BY <1>7 DEF Map
  <2>2. r.st = "Initialized" /\ r.told /\ r.listed
    BY <1>0, <2>1 DEF ClientInv
  <2> DEFINE s == [r EXCEPT !.st = "Mapped", !.client = "mapped"]
  <2>3. Committed(w, s, TRUE)
    BY <1>7, <2>2 DEF Map
  <2>4. /\ s \in Window /\ s.st = "Mapped" /\ s.client = "mapped" /\ s.cfg = r.cfg
        /\ s.alive = r.alive /\ s.told = r.told /\ s.resizing = r.resizing
        /\ s.answers = r.answers /\ s.listed = r.listed
    BY <1>0 DEF Window, WindowState, Client
  <2> HIDE DEF s, r
  <2>5. BaseInv(s) /\ ClientInv(s)
    BY <1>0, <2>1, <2>2, <2>4 DEF BaseInv, ClientInv, Managed
  <2>6. w \in waiting => Answering(s)
    BY <1>0, <2>4 DEF Answering
  <2> QED
    BY <2>1, <2>3, <2>4, <2>5, <2>6, CommittedServes
<1>8. CASE Unmap(w)
  <2>1. r.alive /\ r.client = "mapped" /\ w \notin waiting' /\ waiting' \subseteq waiting
    BY <1>8 DEF Unmap
  <2>2. r.st = "Mapped" /\ r.told
    BY <1>0, <2>1 DEF ClientInv
  <2> DEFINE s == [SetClosing(r) EXCEPT !.saved = TRUE, !.client = "new", !.answers = FALSE]
  <2>3. ClientStep(w, s)
    BY <1>8, <2>2 DEF Unmap
  <2>4. /\ s.st = "Closing" /\ s.client = "new" /\ s.cfg = r.cfg
        /\ s.alive = r.alive /\ s.told = r.told /\ s.resizing = r.resizing
    BY <1>0 DEF Window, SetClosing
  <2> HIDE DEF s, r
  <2>5. ClientInv(s)
    BY <1>0, <2>2, <2>4 DEF ClientInv, Managed
  <2> QED
    BY <1>1, <2>1, <2>3, <2>5
<1>9. CASE Destroy(w)
  <2> DEFINE t == IF r.st \in Managed THEN SetClosing(r) ELSE r
             s == [t EXCEPT !.alive = FALSE]
  <2>1. /\ ClientStep(w, s) /\ w \notin waiting' /\ waiting' \subseteq waiting
        /\ r.alive /\ r.client # "mapped"
    BY <1>9 DEF Destroy
  <2>2. r.st # "Free"
    BY <1>0, <2>1 DEF ClientInv, Window, Client
  <2>3. /\ ~s.alive /\ s.cfg = r.cfg /\ s.told = r.told /\ s.resizing = r.resizing
        /\ s.st = "Closing" \/ (s.st = r.st /\ r.st \notin Managed)
    BY <1>0 DEF Window, SetClosing
  <2> HIDE DEF s, t, r
  <2>4. ClientInv(s)
    BY <1>0, <2>2, <2>3 DEF ClientInv, Managed
  <2> QED
    BY <1>1, <2>1, <2>4
<1> QED
  BY <1>2, <1>3, <1>4, <1>5, <1>6, <1>7, <1>8, <1>9 DEF ClientRequest

\* Every step.
LEMMA QuietStep ==
    ASSUME Draggable = {}, Remapping = {}, Decorating = {}, ConfiguredAside = {}, IInv, QuietInv, [Next]_vars
    PROVE  QuietInv'
<1>0. /\ wm \in {"Idle", "Inflight"}
      /\ \A w \in Windows : BaseInv(win[w]) /\ ClientInv(win[w])
  BY DEF IInv, FlagInv, FlagType, WindowsInv, WindowInv, QuietInv
<1>1. ASSUME UNCHANGED <<win, grab, opFrame, waiting, failed>> PROVE QuietInv'
  BY <1>1 DEF QuietInv
<1>2. CASE IdleCallback
  <2>0. UNCHANGED opFrame
    BY <1>2 DEF IdleCallback
  <2>1. CASE wm = "Idle" /\ windowing
    <3>1. ManagePass(win, FALSE)
      BY <1>2, <2>1 DEF IdleCallback
    <3> QED
      BY <1>0, <2>0, <3>1, ManageServes
  <2>2. CASE wm = "Idle" /\ ~windowing /\ rendering
    <3>1. RenderPass(win, FALSE) /\ UNCHANGED failed
      BY <1>2, <2>2 DEF IdleCallback
    <3> QED
      BY <1>0, <2>0, <3>1, RenderServes
  <2>3. CASE wm # "Idle" \/ (~windowing /\ ~rendering)
    BY <1>1, <1>2, <2>3 DEF IdleCallback
  <2> QED
    BY <2>1, <2>2, <2>3
<1>3. CASE Timeout
  <2>1. timer /\ UNCHANGED opFrame
    BY <1>3 DEF Timeout
  <2>2. wm = "Inflight" /\ count > 0 /\ count # 0
    BY <2>1 DEF IInv, FlagInv, FlagType, InflightIsTimed
  <2>3. RenderPass(win, windowing) /\ UNCHANGED failed
    BY <1>3, <2>2 DEF Timeout
  <2> QED
    BY <1>0, <2>1, <2>3, RenderServes
<1>4. CASE LayoutChanged
  BY <1>1, <1>4 DEF LayoutChanged
<1>5. ASSUME NEW w \in Windows, ClientRequest(w) PROVE QuietInv'
  BY <1>5, RequestServes
<1>6. ~UserInput /\ ~OpFrame
  BY DEF UserInput, OpStart, OpMotion, OpEnd, OpFrame, QuietInv
<1>7. CASE ViewportFrame
  BY <1>1, <1>7, FrameConfiguresNone DEF ViewportFrame, IInv, ConfiguredAside
<1>8. CASE UNCHANGED vars
  BY <1>1, <1>8 DEF vars
<1> QED
  BY <1>2, <1>3, <1>4, <1>5, <1>6, <1>7, <1>8 DEF Next

\* Without drags, second mappings, late decorations and windows that camera
\* frames configure, the clients and the transactions keep step.
LEMMA QuietInductive ==
    ASSUME Draggable = {}, Remapping = {}, Decorating = {}, ConfiguredAside = {}
    PROVE  Spec => []QuietInv
<1>1. Init => QuietInv
  BY NoWindowClient DEF Init, QuietInv
<1>2. IInv /\ QuietInv /\ [Next]_vars => QuietInv'
  BY QuietStep
<1> QED
  BY <1>1, <1>2, Inductive, PTL DEF Spec

\* Every client whose window takes part is told the configure it has to ack before
\* it maps (manage_finish), is waited for only while it has something left to
\* answer (InflightConfigures), has a size it commits late drawn by a pass to come,
\* and meets no assertion of the handlers that fails - whatever it and the layout
\* do, as long as no window is dragged, mapped again after an unmap, or decorated
\* after its first commit, and no camera frame comes between two passes.
THEOREM ClientsServed ==
    ASSUME Draggable = {}, Remapping = {}, Decorating = {}, ~Camera
    PROVE  Spec => []ClientsAreServed
<1>1. IInv /\ QuietInv /\ LateSizeIsDrawn => ClientsAreServed
  <2> SUFFICES ASSUME IInv, QuietInv, LateSizeIsDrawn PROVE ClientsAreServed
    OBVIOUS
  <2>1. AssertionsHold /\ WaitsForAnswers
    BY DEF QuietInv, AssertionsHold, WaitsForAnswers, Answering
  <2>2. ASSUME NEW w \in Windows, win[w].st = "Initialized" PROVE win[w].client # "waiting"
    BY <2>2 DEF IInv, WindowsInv, WindowInv, BaseInv, QuietInv, ClientInv, Managed
  <2> QED
    BY <2>1, <2>2 DEF ClientsAreServed, InitializedWasConfigured
<1>2. ConfiguredAside = {}
  BY DEF ConfiguredAside
<1> QED
  BY <1>1, <1>2, Inductive, QuietInductive, LateSizesDrawn, PTL
-----------------------------------------------------------------------------
(* How a transaction ends, when moreover no window is a status bar: those  *)
(* are configured by arrange_views, which counts no answer.                *)

\* A client that may still commit an answer.
Owes(r) == r.st \in Managed /\ r.cfg \in {"Inflight", "Acked"}

\* Whoever owes an answer is waited for, and the count is never behind.
EndsInv ==
    /\ wm = "Inflight" => Cardinality(waiting) <= count
    /\ \A w \in Windows : Owes(win[w]) => wm = "Inflight" /\ w \in waiting

\* What the last answer of a transaction looks like.
LastAnswer == waiting = {} \/ \E w \in Windows : waiting = {w} /\ win[w].cfg = "Acked"

\* The waiting clients can be counted.
LEMMA WaitingFinite ==
    ASSUME IInv
    PROVE  /\ IsFiniteSet(waiting) /\ Cardinality(waiting) \in Nat /\ waiting \subseteq Windows
           /\ count \in Nat /\ wm \in {"Idle", "Inflight"} /\ win \in [Windows -> Window]
<1>1. waiting \subseteq Windows /\ IsFiniteSet(Windows)
  BY WindowsAssumption DEF IInv, FlagInv, FlagType
<1>2. IsFiniteSet(waiting) /\ Cardinality(waiting) \in Nat
  BY <1>1, FS_Subset, FS_CardinalityType
<1>3. count \in Nat
  BY <1>1, FS_CardinalityType DEF IInv, FlagInv, FlagType
<1> QED
  BY <1>1, <1>2, <1>3 DEF IInv, FlagInv, FlagType, WindowsInv

\* After a render pass nobody owes an answer.
LEMMA RenderEnds ==
    ASSUME NEW ws, NEW wanted, \A w \in Windows : BaseInv(ws[w]) /\ ClientInv(ws[w]),
           RenderPass(ws, wanted)
    PROVE  EndsInv'
<1>1. wm' = "Idle" /\ "Idle" # "Inflight"
  BY DEF RenderPass
<1>2. ASSUME NEW w \in Windows PROVE ~Owes(win'[w])
  <2> DEFINE r == ws[w]
             a == IF r.listed THEN Rendered(r) ELSE r
  <2>1. win'[w] = Settled(a)
    BY DEF RenderPass
  <2>2. r \in Window /\ BaseInv(r) /\ ClientInv(r)
    BY DEF BaseInv
  <2>3. a \in Window /\ ~Owes(a)
    <3>1. CASE r.listed
      BY <2>2, <3>1, RenderedFields DEF Owes
    <3>2. CASE ~r.listed
      <4>1. r.st = "Ready" => ~r.told
        BY <2>2 DEF BaseInv, ClientInv, Window, Client, Managed
      <4> QED
        BY <2>2, <3>2, <4>1 DEF Owes, ClientInv, Managed
    <3> QED
      BY <3>1, <3>2
  <2> HIDE DEF a, r
  <2>4. Settled(a) = NoWindow \/ Settled(a) = a \/ Settled(a) = [a EXCEPT !.saved = FALSE]
    BY DEF Settled
  <2>5. ~Owes(NoWindow)
    BY DEF Owes, NoWindow, Managed
  <2>6. ~Owes([a EXCEPT !.saved = FALSE])
    BY <2>3 DEF Owes, Window
  <2> QED
    BY <2>1, <2>3, <2>4, <2>5, <2>6
<1> QED
  BY <1>1, <1>2 DEF EndsInv

\* A manage pass counts everyone who will owe an answer.
LEMMA PassedOwes ==
    ASSUME StatusBars = {}, NEW ws, NEW done, NEW counted, NEW w \in Windows,
           BaseInv(ws[w]), ClientInv(ws[w]), ~Owes(ws[w]), PassedTo(ws, done, counted, w),
           Owes(done[w])
    PROVE  w \in counted
<1> DEFINE s == Started(ws[w])
<1>1. BaseInv(s) /\ ClientInv(s) /\ (s.listed <=> s.st \in Managed)
  BY StartedFields, StartedClient
<1>2. ~Owes(s)
  BY DEF Owes, Started, BaseInv, Window, Managed
<1>3. \/ ~s.listed /\ done[w] = s
      \/ s.listed /\ \E a \in Asks(s) : done[w] = Finished(s, a) /\ (w \in counted <=> Counts(s, a))
  BY DEF PassedTo
<1> HIDE DEF s
<1>4. PICK a : s.listed /\ done[w] = Finished(s, a) /\ (w \in counted <=> Counts(s, a))
  BY <1>2, <1>3
<1>5. s \in Window /\ s.st \in Managed /\ s.cfg \notin {"Inflight", "Acked"}
  BY <1>1, <1>2, <1>4 DEF BaseInv, Owes
<1>6. ~Skips(s, a)
  BY <1>2, <1>4 DEF Finished
<1>7. Configured(s, a) \in {"Inflight", "Acked"}
  BY <1>4, <1>5, <1>6 DEF Finished, Owes, Window
<1>8. Tracks(s, a)
  BY <1>5, <1>7 DEF Configured, Tracks, Sends
<1> QED
  BY <1>1, <1>4, <1>6, <1>8 DEF Counts, ClientInv

\* So the transaction it begins waits for all of them.
LEMMA ManageEnds ==
    ASSUME StatusBars = {}, NEW ws, NEW wasArmed,
           \A w \in Windows : BaseInv(ws[w]) /\ ClientInv(ws[w]) /\ ~Owes(ws[w]),
           QuietInv, ManagePass(ws, wasArmed)
    PROVE  EndsInv'
<1>1. PICK done, counted :
        /\ counted \subseteq Windows
        /\ \A w \in Windows : PassedTo(ws, done, counted, w)
        /\ PassEnds(ws, done, counted)
  BY ManagePassCases
<1>2. \A w \in Windows : /\ BaseInv(done[w]) /\ ClientInv(done[w])
                         /\ Owes(done[w]) => w \in counted
  BY <1>1, PassedClient, PassedOwes
<1>3. \A w \in Windows : Started(ws[w]).listed => ~Unmanageable(Started(ws[w]))
  BY StartedFields DEF BaseInv, Managed, Unmanageable
<1>4. CASE RenderPass(done, FALSE)
  BY <1>2, <1>4, RenderEnds
<1>5. CASE wm' = "Inflight" /\ count' = Cardinality(counted) /\ win' = done /\ waiting' = counted
  <2>1. Cardinality(counted) \in Nat
    BY <1>1, FS_Subset, FS_CardinalityType, WindowsAssumption
  <2> QED
    BY <1>2, <1>5, <2>1 DEF EndsInv
<1> QED
  BY <1>1, <1>3, <1>4, <1>5 DEF PassEnds

\* A step that disturbs one window and ends nothing.
LEMMA OneOwes ==
    ASSUME IInv, EndsInv, NEW w \in Windows, NEW r,
           win' = [win EXCEPT ![w] = r], UNCHANGED <<wm, count>>,
           \/ waiting' = waiting /\ (Owes(r) => Owes(win[w]))
           \/ waiting' = waiting \ {w} /\ ~Owes(r)
    PROVE  EndsInv'
<1>0. win \in [Windows -> Window]
  BY WaitingFinite
<1>1. \A v \in Windows : (v # w => win'[v] = win[v]) /\ (v = w => win'[v] = r)
  BY <1>0
<1>2. Cardinality(waiting') <= Cardinality(waiting) /\ Cardinality(waiting') \in Nat
  BY WaitingFinite, FS_Subset, FS_CardinalityType
<1>3. wm = "Inflight" => Cardinality(waiting') <= count
  BY <1>2, WaitingFinite DEF EndsInv
<1> QED
  BY <1>1, <1>3 DEF EndsInv

\* The commit of a client: the answer it owes is taken off the count, and it
\* ends the transaction only if nobody else is waited for.
LEMMA CommittedEnds ==
    ASSUME IInv, QuietInv, EndsInv, NEW w \in Windows, NEW r, NEW dirtied,
           BaseInv(r), ClientInv(r), r.st \in Managed, r.client # "new",
           win[w].st \in Managed, r.cfg = win[w].cfg,
           Committed(w, r, dirtied)
    PROVE  EndsInv' /\ (wm = "Inflight" /\ wm' = "Idle" => LastAnswer)
<1>0. /\ win \in [Windows -> Window] /\ r \in Window /\ r.alive
      /\ \A v \in Windows : BaseInv(win[v]) /\ ClientInv(win[v])
  BY DEF IInv, WindowsInv, WindowInv, BaseInv, QuietInv
<1>1. CASE r.cfg = "Acked"
  <2> DEFINE c == [r EXCEPT !.cfg = "Committed", !.late = TRUE]
             ws == [win EXCEPT ![w] = c]
  <2>1. NotifyConfigured(ws, waiting \ {w}, dirtied)
    BY <1>1 DEF Committed
  <2>2. c \in Window /\ c.cfg = "Committed"
        /\ c.alive = r.alive /\ c.st = r.st /\ c.client = r.client /\ c.told = r.told
        /\ c.answers = r.answers /\ c.listed = r.listed /\ c.resizing = r.resizing
    BY <1>0 DEF Window, ConfigureState
  <2>3. r.told
    BY <1>1 DEF ClientInv
  <2>4. wm = "Inflight" /\ w \in waiting /\ Cardinality(waiting) <= count
    BY <1>1 DEF EndsInv, Owes
  <2> HIDE DEF c
  <2>5. BaseInv(c) /\ ClientInv(c) /\ ~Owes(c)
    BY <2>2, <2>3 DEF BaseInv, ClientInv, Owes
  <2>6. \A v \in Windows : (v # w => ws[v] = win[v]) /\ (v = w => ws[v] = c)
    BY <1>0
  <2>7. \A v \in Windows : BaseInv(ws[v]) /\ ClientInv(ws[v])
    BY <1>0, <2>5, <2>6
  <2>8. Cardinality(waiting \ {w}) = Cardinality(waiting) - 1 /\ Cardinality(waiting \ {w}) \in Nat
    BY <2>4, WaitingFinite, FS_RemoveElement, FS_Subset, FS_CardinalityType
  <2>9. CASE count = 1
    <3>1. RenderPass(ws, windowing \/ dirtied)
      BY <2>1, <2>4, <2>9 DEF NotifyConfigured
    <3>2. EndsInv'
      <4> HIDE DEF ws
      <4> QED
        BY <2>7, <3>1, RenderEnds
    <3>3. Cardinality(waiting \ {w}) = 0
      BY <2>4, <2>8, <2>9, WaitingFinite
    <3>4. waiting \ {w} = {}
      BY <3>3, WaitingFinite, FS_Subset, FS_EmptySet
    <3> QED
      BY <1>1, <2>4, <3>2, <3>4 DEF LastAnswer
  <2>10. CASE count # 1
    <3>1. wm' = wm /\ count' = count - 1 /\ win' = ws /\ waiting' = waiting \ {w}
      BY <2>1, <2>4, <2>10 DEF NotifyConfigured
    <3>2. Cardinality(waiting') <= count'
      BY <2>4, <2>8, <3>1, WaitingFinite
    <3>3. \A v \in Windows : Owes(win'[v]) => v \in waiting'
      BY <2>5, <2>6, <3>1 DEF EndsInv
    <3>4. EndsInv'
      BY <2>4, <3>1, <3>2, <3>3 DEF EndsInv
    <3> QED
      BY <2>4, <3>1, <3>4
  <2> QED
    BY <2>9, <2>10
<1>2. CASE r.cfg = "TimedOutAcked"
  <2> DEFINE c == [r EXCEPT !.cfg = "Idle", !.late = TRUE]
  <2>1. win' = [win EXCEPT ![w] = c] /\ UNCHANGED <<wm, count, waiting>>
    BY <1>2 DEF Committed, ClientStep
  <2>2. ~Owes(c)
    BY <1>0 DEF Owes, Window
  <2> HIDE DEF c
  <2>3. EndsInv'
    BY <2>1, <2>2, OneOwes
  <2> QED
    BY <2>1, <2>3
<1>3. CASE r.cfg \notin {"Acked", "TimedOutAcked"}
  <2>1. ~(r.cfg = "Inflight" /\ r.st = "Ready")
    BY <1>0 DEF ClientInv, Window, Client
  <2>2. win' = [win EXCEPT ![w] = r] /\ UNCHANGED <<wm, count, waiting>>
    BY <1>3, <2>1 DEF Committed, ClientStep
  <2>3. Owes(r) => Owes(win[w])
    BY DEF Owes
  <2>4. EndsInv'
    BY <2>2, <2>3, OneOwes
  <2> QED
    BY <2>2, <2>4
<1> QED
  BY <1>1, <1>2, <1>3

\* What clients may ask.
LEMMA RequestEnds ==
    ASSUME Draggable = {}, Remapping = {}, Decorating = {}, IInv, QuietInv, EndsInv,
           NEW w \in Windows, ClientRequest(w)
    PROVE  EndsInv' /\ (wm = "Inflight" /\ wm' = "Idle" => LastAnswer)
<1> DEFINE r == win[w]
<1>0. /\ win \in [Windows -> Window] /\ r \in Window /\ BaseInv(r) /\ ClientInv(r)
      /\ wm \in {"Idle", "Inflight"}
  BY DEF IInv, FlagInv, FlagType, WindowsInv, WindowInv, BaseInv, QuietInv
<1>1. ASSUME NEW s, ClientStep(w, s),
             \/ waiting' = waiting /\ (Owes(s) => Owes(r))
             \/ waiting' = waiting \ {w} /\ ~Owes(s)
      PROVE  EndsInv' /\ (wm = "Inflight" /\ wm' = "Idle" => LastAnswer)
  <2>1. win' = [win EXCEPT ![w] = s] /\ UNCHANGED <<wm, count>>
    BY <1>1 DEF ClientStep
  <2>2. EndsInv'
    BY <1>1, <2>1, OneOwes
  <2> QED
    BY <2>1, <2>2
<1>2. CASE NewToplevel(w)
  <2> DEFINE s == [NoWindow EXCEPT !.st = "Init", !.alive = TRUE]
  <2>1. ClientStep(w, s) /\ UNCHANGED waiting
    BY <1>2 DEF NewToplevel
  <2>2. ~Owes(s)
    BY DEF Owes, NoWindow, Managed
  <2> HIDE DEF s
  <2> QED
    BY <1>1, <2>1, <2>2
<1>3. CASE InitialCommit(w)
  <2> DEFINE s == [r EXCEPT !.st = "Ready", !.client = "waiting"]
  <2>1. ClientStep(w, s) /\ UNCHANGED waiting /\ ~r.told
    BY <1>3 DEF InitialCommit
  <2>2. s.cfg = "Idle"
    BY <1>0, <2>1 DEF ClientInv, Window
  <2>3. ~Owes(s)
    BY <2>2 DEF Owes
  <2> HIDE DEF s
  <2> QED
    BY <1>1, <2>1, <2>3
<1>4. ~NegotiateDecoration(w)
  BY DEF NegotiateDecoration
<1>5. CASE AckConfigure(w)
  <2> DEFINE acked == CASE r.cfg = "Inflight" /\ r.answers -> "Acked"
                        [] r.cfg = "TimedOut" /\ r.answers -> "TimedOutAcked"
                        [] OTHER -> r.cfg
             client == IF r.client = "told" THEN "ready" ELSE r.client
             s == [r EXCEPT !.cfg = acked, !.client = client]
  <2>1. ClientStep(w, s) /\ UNCHANGED waiting
    BY <1>5 DEF AckConfigure
  <2>2. s.cfg = acked /\ s.st = r.st
    BY <1>0 DEF Window
  <2>3. acked \in {"Inflight", "Acked"} => r.cfg \in {"Inflight", "Acked"}
    OBVIOUS
  <2>4. Owes(s) => Owes(r)
    BY <2>2, <2>3 DEF Owes
  <2> HIDE DEF s
  <2> QED
    BY <1>1, <2>1, <2>4
<1>6. CASE Commit(w)
  <2>1. Committed(w, r, FALSE) /\ r.st \in Managed /\ r.client # "new"
    BY <1>6 DEF Commit, Managed
  <2> QED
    BY <1>0, <2>1, CommittedEnds
<1>7. CASE Map(w)
  <2>1. r.alive /\ r.client = "ready"
    BY <1>7 DEF Map
  <2>2. r.st = "Initialized" /\ r.told /\ r.listed
    BY <1>0, <2>1 DEF ClientInv
  <2> DEFINE s == [r EXCEPT !.st = "Mapped", !.client = "mapped"]
  <2>3. Committed(w, s, TRUE)
    BY <1>7, <2>2 DEF Map
  <2>4. /\ s \in Window /\ s.st = "Mapped" /\ s.client = "mapped" /\ s.cfg = r.cfg
        /\ s.alive = r.alive /\ s.told = r.told /\ s.resizing = r.resizing
        /\ s.answers = r.answers /\ s.listed = r.listed
    BY <1>0 DEF Window, WindowState, Client
  <2> HIDE DEF s
  <2>5. /\ BaseInv(s) /\ ClientInv(s) /\ s.client # "new"
        /\ s.st \in Managed /\ win[w].st \in Managed
    BY <1>0, <2>1, <2>2, <2>4 DEF BaseInv, ClientInv, Managed
  <2> QED
    BY <2>3, <2>4, <2>5, CommittedEnds
<1>8. CASE Unmap(w)
  <2>1. r.alive /\ r.client = "mapped" /\ waiting' = waiting \ {w}
    BY <1>8 DEF Unmap
  <2>2. r.st = "Mapped"
    BY <1>0, <2>1 DEF ClientInv
  <2> DEFINE s == [SetClosing(r) EXCEPT !.saved = TRUE, !.client = "new", !.answers = FALSE]
  <2>3. ClientStep(w, s)
    BY <1>8, <2>2 DEF Unmap
  <2>4. ~Owes(s)
    BY <1>0 DEF Window, SetClosing, Owes, Managed
  <2> HIDE DEF s
  <2> QED
    BY <1>1, <2>1, <2>3, <2>4
<1>9. CASE Destroy(w)
  <2> DEFINE t == IF r.st \in Managed THEN SetClosing(r) ELSE r
             s == [t EXCEPT !.alive = FALSE]
  <2>1. ClientStep(w, s) /\ waiting' = waiting \ {w}
    BY <1>9 DEF Destroy
  <2>2. ~Owes(s)
    BY <1>0 DEF Window, SetClosing, Owes, Managed
  <2> HIDE DEF s
  <2> QED
    BY <1>1, <2>1, <2>2
<1> QED
  BY <1>2, <1>3, <1>4, <1>5, <1>6, <1>7, <1>8, <1>9 DEF ClientRequest

\* Every step, but one that waits for no answer: the timer's.
LEMMA EndsStep ==
    ASSUME Draggable = {}, Remapping = {}, Decorating = {}, StatusBars = {},
           IInv, QuietInv, EndsInv, [Next]_vars
    PROVE  EndsInv' /\ (wm = "Inflight" /\ wm' = "Idle" /\ ~Timeout => LastAnswer)
<1>0. /\ wm \in {"Idle", "Inflight"}
      /\ \A w \in Windows : BaseInv(win[w]) /\ ClientInv(win[w])
      /\ wm = "Idle" => \A w \in Windows : ~Owes(win[w])
  BY DEF IInv, FlagInv, FlagType, WindowsInv, WindowInv, QuietInv, EndsInv
<1>1. ASSUME UNCHANGED <<wm, count, win, waiting>>
      PROVE  EndsInv' /\ ~(wm = "Inflight" /\ wm' = "Idle")
  BY <1>1 DEF EndsInv
<1>2. CASE IdleCallback
  <2>1. CASE wm = "Idle" /\ windowing
    <3>1. ManagePass(win, FALSE)
      BY <1>2, <2>1 DEF IdleCallback
    <3>2. EndsInv'
      BY <1>0, <2>1, <3>1, ManageEnds
    <3> QED
      BY <2>1, <3>2
  <2>2. CASE wm = "Idle" /\ ~windowing /\ rendering
    <3>1. RenderPass(win, FALSE)
      BY <1>2, <2>2 DEF IdleCallback
    <3>2. EndsInv'
      BY <1>0, <3>1, RenderEnds
    <3> QED
      BY <2>2, <3>2
  <2>3. CASE wm # "Idle" \/ (~windowing /\ ~rendering)
    BY <1>1, <1>2, <2>3 DEF IdleCallback
  <2> QED
    BY <2>1, <2>2, <2>3
<1>3. CASE Timeout
  <2>1. timer
    BY <1>3 DEF Timeout
  <2>2. wm = "Inflight" /\ count > 0 /\ count # 0
    BY <2>1 DEF IInv, FlagInv, FlagType, InflightIsTimed
  <2>3. RenderPass(win, windowing)
    BY <1>3, <2>2 DEF Timeout
  <2>4. EndsInv'
    BY <1>0, <2>3, RenderEnds
  <2> QED
    BY <1>3, <2>4
<1>4. CASE LayoutChanged
  BY <1>1, <1>4 DEF LayoutChanged
<1>5. ASSUME NEW w \in Windows, ClientRequest(w)
      PROVE  EndsInv' /\ (wm = "Inflight" /\ wm' = "Idle" => LastAnswer)
  BY <1>5, RequestEnds
<1>6. ~UserInput /\ ~OpFrame
  BY DEF UserInput, OpStart, OpMotion, OpEnd, OpFrame, QuietInv
<1>7. CASE ViewportFrame
  BY <1>1, <1>7, FrameConfiguresNone DEF ViewportFrame, IInv, ConfiguredAside
<1>8. CASE UNCHANGED vars
  BY <1>1, <1>8 DEF vars
<1> QED
  BY <1>2, <1>3, <1>4, <1>5, <1>6, <1>7, <1>8 DEF Next

\* A transaction that ends before its 100 ms are over ends with the commit that
\* the last client it waits for owes it (notify_configured): no other commit
\* takes the count to zero, as long as no window is dragged, mapped again,
\* decorated late, or a status bar.
THEOREM EndsSound ==
    ASSUME Draggable = {}, Remapping = {}, Decorating = {}, StatusBars = {}
    PROVE  Spec => EndsWithLastAnswer
<1>1. Init => EndsInv
  <2>1. ~Owes(NoWindow) /\ "Idle" # "Inflight"
    BY DEF Owes, NoWindow, Managed
  <2> QED
    BY <2>1 DEF Init, EndsInv
<1>2. IInv /\ QuietInv /\ EndsInv /\ [Next]_vars => EndsInv'
  BY EndsStep
<1>3. IInv /\ QuietInv /\ EndsInv /\ [Next]_vars
        => [wm = "Inflight" /\ wm' = "Idle" /\ ~Timeout =>
              waiting = {} \/ \E w \in Windows : waiting = {w} /\ win[w].cfg = "Acked"]_vars
  BY EndsStep DEF LastAnswer
<1>4. ConfiguredAside = {}
  BY DEF ConfiguredAside
<1> QED
  BY <1>1, <1>2, <1>3, <1>4, Inductive, QuietInductive, PTL DEF Spec, EndsWithLastAnswer
=============================================================================
