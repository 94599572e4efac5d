----------------------------- MODULE X11MinSize -----------------------------
(***************************************************************************)
(* The minimum size an X11 program reveals by refusing a smaller one, on   *)
(* one axis (xwayland_window.rs, min_sizes.rs).  Wine publishes none, so   *)
(* the compositor learns it from a drag: a program that answers two        *)
(* different sizes with the same larger one has a floor there.  The floor  *)
(* is held against the window's drags and kept in a file for its next      *)
(* start.                                                                  *)
(*                                                                         *)
(* Window sizes are logical, those of X and of the file in device pixels.  *)
(***************************************************************************)
EXTENDS Integers, Sequences

CONSTANTS
    Scale,      \* device pixels to a logical one
    Drags,      \* logical sizes a drag asks for
    Floors,     \* device sizes a program may not go under
    Cell,       \* device size of the cells a rounding program rounds up to
    MaxEvents,  \* bound on what the user and the program do
    None

VARIABLES
    rounds,     \* the program rounds its size up and has no floor
    floor,      \* its floor
    open,       \* its window is mapped
    size,       \* the size it has, device pixels
    asked,      \* its requests on the way
    sent,       \* configure_sent.width
    hint,       \* dimensions_hint.min_width, 0 for none
    refusal,    \* the last refusal, <<sent, asked>>, or None
    resizing,   \* wm_requested.resizing
    stored,     \* its entry in min-sizes.json, 0 for none
    floors,     \* ghost: the floors it has had
    fights,     \* ghost: refusals of a new size since it mapped or its floor fell by a pixel
    mixed,      \* ghost: since it mapped a drag has begun while a request was on the way
    events

program == <<rounds, floor, floors>>
vars == <<program, open, size, asked, sent, hint, refusal, resizing, stored, fights, mixed, events>>

ToX11(v)   == v * Scale
FromX11(v) == (2 * v + Scale) \div (2 * Scale)

AtLeast(a, b) == IF a < b THEN b ELSE a

TypeOK ==
    /\ rounds \in BOOLEAN /\ open \in BOOLEAN /\ resizing \in BOOLEAN /\ mixed \in BOOLEAN
    /\ asked \in Seq(Nat)
    /\ size \in Nat /\ hint \in Nat /\ stored \in Nat /\ fights \in Nat
    /\ (refusal = None \/ refusal[2] > refusal[1])

Init ==
    /\ rounds \in BOOLEAN
    /\ floor \in IF rounds THEN {0} ELSE Floors
    /\ floors = {floor}
    /\ open = FALSE /\ size = 0 /\ asked = <<>> /\ sent = None
    /\ hint = 0 /\ refusal = None /\ resizing = FALSE
    /\ stored = 0
    /\ fights = 0 /\ mixed = FALSE /\ events = 0

Happens == events < MaxEvents /\ events' = events + 1

\* MinSizes.set: the program's entry, 0 to forget it, is on disk at once.
Store(px) == stored' = px

\* Mutant: the stored minimum is kept whatever the window maps at.
LoweredNever(min, actual) == min

\* lowered_min
LoweredMin(min, actual) == IF min > 0 /\ actual < min THEN actual ELSE min

\* handle_map_impl: a new window of the program maps at a size it takes, and
\* apply_stored_min_size holds it to the minimum an earlier one taught.
Map ==
    /\ Happens /\ ~open
    /\ open' = TRUE
    /\ size' = IF rounds THEN Cell ELSE floor
    /\ Store(LoweredMin(stored, size'))
    /\ hint' = IF stored' > 0 THEN FromX11(stored') ELSE 0
    /\ refusal' = None /\ sent' = FromX11(size') /\ asked' = <<>>
    /\ fights' = 0 /\ mixed' = FALSE
    /\ UNCHANGED <<program, resizing>>

\* Unmapped and destroyed, or the compositor restarts: the file stays.
Close ==
    /\ Happens /\ open
    /\ open' = FALSE /\ resizing' = FALSE /\ asked' = <<>>
    /\ hint' = 0 /\ refusal' = None /\ sent' = None
    /\ UNCHANGED <<program, size, stored, fights, mixed>>

\* What the program makes of a size it is configured to.
Taken(px) == IF rounds THEN Cell * ((px + Cell - 1) \div Cell) ELSE AtLeast(px, floor)

\* The user drags an edge: the size is clamped to what is known
\* (DimensionsHint::clamp) and configured.  A program that will not have it
\* asks for the size it takes, which is heard after what it asked for before.
Drag ==
    /\ Happens /\ open
    /\ resizing' = TRUE
    /\ \E w \in Drags :
          LET px == ToX11(AtLeast(w, hint))
          IN  /\ sent' = AtLeast(w, hint)
              /\ size' = px
              /\ asked' = IF Taken(px) # px THEN Append(asked, Taken(px)) ELSE asked
    /\ mixed' = (mixed \/ (~resizing /\ asked # <<>>))
    /\ UNCHANGED <<program, open, hint, refusal, stored, fights>>

EndDrag ==
    /\ resizing
    /\ resizing' = FALSE
    /\ UNCHANGED <<program, open, size, asked, sent, hint, refusal, stored, fights, mixed, events>>

\* Mutant: one refusal is enough.
FloorAtOnce(req) == TRUE

\* Two different sizes answered with the same one.
IsFloor(req) == refusal # None /\ refusal[2] = req /\ refusal[1] # sent

\* learned_min: the new minimum, or None.
LearnedMin(req) == IF req > sent /\ IsFloor(req) /\ req > hint THEN req ELSE None

\* Mutant: a minimum the program goes under stays.
LowersNever(req) == None

\* A window that takes less than its minimum outside a drag lowers it.
Lowers(req) == IF hint > 0 /\ req < hint THEN req ELSE None

\* handle_request_configure of a floating window: the minimum is learned or
\* lowered by what was sent last, to this request or since, and stored, and the
\* size granted.
HandleRequest ==
    /\ asked # <<>>
    /\ LET req == FromX11(Head(asked))
           min == IF resizing THEN LearnedMin(req) ELSE Lowers(req)
       IN  /\ refusal' = IF resizing /\ req > sent THEN <<sent, req>> ELSE refusal
           /\ fights' = IF refusal' # refusal THEN fights + 1 ELSE fights
           /\ hint' = IF min = None THEN hint ELSE min
           /\ Store(IF min = None THEN stored ELSE ToX11(min))
    /\ size' = Head(asked) /\ asked' = Tail(asked)
    /\ UNCHANGED <<program, open, sent, resizing, mixed, events>>

\* The program comes to take less, and asks for it.
ProgramShrinks ==
    /\ Happens /\ open /\ ~rounds /\ ~resizing
    /\ \E f \in Floors :
          /\ f < floor /\ floor' = f /\ floors' = floors \cup {f} /\ asked' = Append(asked, f)
          /\ fights' = IF FromX11(f) < FromX11(floor) THEN 0 ELSE fights
    /\ UNCHANGED <<rounds, open, size, sent, hint, refusal, resizing, stored, mixed>>

\* A later start of it does.
ProgramUpdated ==
    /\ Happens /\ ~open /\ ~rounds
    /\ \E f \in Floors : f < floor /\ floor' = f /\ floors' = floors \cup {f}
    /\ UNCHANGED <<rounds, open, size, asked, sent, hint, refusal, resizing, stored, fights, mixed>>

\* min-size forget, of an open window.
Forget ==
    /\ Happens /\ open
    /\ Store(0) /\ hint' = 0 /\ refusal' = None
    /\ fights' = 0
    /\ UNCHANGED <<program, open, size, asked, sent, resizing, mixed>>

\* min-size forget-entry, of any.
ForgetEntry ==
    /\ Happens
    /\ Store(0)
    /\ UNCHANGED <<program, open, size, asked, sent, hint, refusal, resizing, fights, mixed>>

Next == Map \/ Close \/ Drag \/ EndDrag \/ HandleRequest \/ ProgramShrinks \/ ProgramUpdated
        \/ Forget \/ ForgetEntry

Spec == Init /\ [][Next]_vars

-----------------------------------------------------------------------------

\* However late its requests are heard, the minimum of a program with a floor is
\* a floor it has had (handle_request_configure, lowered_min).
MinimumIsAFloor ==
    ~rounds => \A m \in {ToX11(hint), stored} \ {0} :
                  \E f \in floors \ {0} : FromX11(f) = FromX11(m)

\* A program with a floor that is the one it began with, or whose requests were
\* all heard before the next drag began.
HeardInTime == ~rounds /\ (mixed => floors = {floor})

\* Its window is not held above the size it has.
NeverHeldAbove ==
    HeardInTime /\ open /\ ~resizing /\ asked = <<>> => hint <= FromX11(size)

\* A drag past the floor is refused at two sizes and then no more, and a window
\* held to a stored minimum is never refused.
TwoRefusalsTeach ==
    HeardInTime /\ open => fights <= 2 /\ (hint > 0 /\ fights < 2 => fights = 0)

MinimumIsSound == MinimumIsAFloor /\ NeverHeldAbove /\ TwoRefusalsTeach

\* Holds not: a program that rounds its size up is not taught a minimum
\* (learned_min).  It is by two drag sizes in one of its cells, and by a request
\* that is heard after the next size was sent.
RoundersHaveNone == rounds => hint = 0 /\ stored = 0
=============================================================================
