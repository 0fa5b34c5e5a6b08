---------------------------- MODULE DynamicDelay ----------------------------
(***************************************************************************)
(* The delay controller of one stream (internal/dynamicdelay/delay.go):    *)
(* the curve both tracks play at. Controller.mu makes Configure, Step and  *)
(* Jump atomic; the curve itself is read without a lock. Times and delays  *)
(* are in one unit, ticks.                                                 *)
(***************************************************************************)
EXTENDS Integers

CONSTANTS
    Second,      \* time.Second, and the length of a curve
    Growth,      \* 50ms: what a curve may grow by
    Margin,      \* 100ms: asked for on top of the lateness seen
    Quiet,       \* 5s without lateness before the delay comes down
    MinCatchUp,  \* 10ms and
    MaxCatchUp   \* 200ms: what a curve may come down by

ASSUME DelayConstants ==
    /\ Second \in Nat \ {0} /\ Growth \in Nat /\ Margin \in Nat /\ Quiet \in Nat
    /\ MinCatchUp \in Nat /\ MaxCatchUp \in Nat /\ MinCatchUp <= MaxCatchUp
    /\ Second + Quiet < 1000

VARIABLES
    now,
    active,      \* the state pointer is not nil
    curve,       \* what it points to
    options, base, goal, quietUntil, lastStep,
    shift, cutoff

curveVars == <<active, curve>>
policyVars == <<options, base, goal, quietUntil, lastStep>>
jumpVars == <<shift, cutoff>>
controllerVars == <<curveVars, policyVars, jumpVars>>

(* The zero time.Time: long before anything. *)
Never == - 1000

Larger(a, b) == IF a >= b THEN a ELSE b
Smaller(a, b) == IF a <= b THEN a ELSE b

Curve == [start : Int, from : Int, to : Int, shift : Int, cutoff : Int, pending : BOOLEAN]
Options == [enabled : BOOLEAN, maximum : Nat, jump : BOOLEAN, automatic : BOOLEAN, catchUp : Nat]

(* Go's integer division, which rounds towards zero. *)
Quotient(a, b) == IF a >= 0 THEN a \div b ELSE - ((- a) \div b)

NoCurve == [start |-> Never, from |-> 0, to |-> 0, shift |-> 0, cutoff |-> Never,
            pending |-> FALSE]

Flat(at, delay) == [start |-> at, from |-> delay, to |-> delay,
                    shift |-> shift, cutoff |-> cutoff, pending |-> FALSE]

(* State.Delay *)
Delay(s, at) ==
    s.from + Quotient((s.to - s.from) * Smaller(Second, Larger(0, at - s.start)), Second)

(* Settings models the rest of Normalize; here it keeps the maximum above the base. *)
Normalize(o, delay) == [o EXCEPT !.maximum = Larger(1, Larger(delay, @))]

(* Slow near the base, fastest at 90% of the space above it. *)
CatchUp(o, current, delay) ==
    IF o.automatic
    THEN Smaller(MaxCatchUp, MinCatchUp +
             Quotient((MaxCatchUp - MinCatchUp) * 10 * Larger(0, current - delay),
                      9 * Larger(1, o.maximum - delay)))
    ELSE o.catchUp

(* Only the speed differs. *)
SamePolicy(o, p) == [o EXCEPT !.automatic = p.automatic, !.catchUp = p.catchUp] = p

-----------------------------------------------------------------------------
ControllerInit(delay, o) ==
    /\ now = 0
    /\ active = o.enabled
    /\ curve = IF o.enabled THEN [NoCurve EXCEPT !.start = 0, !.from = delay, !.to = delay]
                            ELSE NoCurve
    /\ options = Normalize(o, delay)
    /\ base = delay
    /\ goal = delay
    /\ quietUntil = Never /\ lastStep = Never
    /\ shift = 0 /\ cutoff = Never

(* A change of speed keeps growth, quiet time and a pending jump. *)
ConfigureSpeed(delay, o) ==
    /\ base = delay /\ SamePolicy(options, Normalize(o, delay))
    /\ options' = Normalize(o, delay)
    /\ UNCHANGED <<curveVars, base, goal, quietUntil, lastStep, jumpVars>>

(* A mutant of ConfigurePolicy: the goal grown under the old limit stays. *)
ConfigureKeepsGoal(delay, o) ==
    /\ ~ (base = delay /\ SamePolicy(options, Normalize(o, delay)))
    /\ options' = Normalize(o, delay) /\ base' = delay
    /\ active' = (active \/ o.enabled)
    /\ curve' = IF active' THEN Flat(now, IF active /\ o.enabled THEN Delay(curve, now) ELSE delay)
                           ELSE curve
    /\ UNCHANGED <<goal, quietUntil, lastStep, jumpVars>>

(* Any other change starts a flat curve where playout is, and at the new
   delay when there was none or adaptation is switched off. *)
ConfigurePolicy(delay, o) ==
    /\ ~ (base = delay /\ SamePolicy(options, Normalize(o, delay)))
    /\ options' = Normalize(o, delay) /\ base' = delay /\ goal' = delay
    /\ active' = (active \/ o.enabled)
    /\ curve' = IF active' THEN Flat(now, IF active /\ o.enabled THEN Delay(curve, now) ELSE delay)
                           ELSE curve
    /\ UNCHANGED <<quietUntil, lastStep, jumpVars>>

-----------------------------------------------------------------------------
(* Step, with the time and the lateness its caller sampled. *)
StepDue(at) == active /\ at >= curve.cutoff /\ at - lastStep >= Second

StepNothing(at) == ~ StepDue(at) /\ UNCHANGED controllerVars

(* The disabled curve is retired. *)
StepRetires(at) ==
    /\ StepDue(at) /\ ~ options.enabled
    /\ active' = FALSE /\ curve' = NoCurve
    /\ lastStep' = at
    /\ UNCHANGED <<options, base, goal, quietUntil, jumpVars>>

Wanted(at, late) == Delay(curve, at) + (IF late > 0 THEN late + Margin ELSE 0)

(* updateGoal *)
NewGoal(at, late) ==
    IF late > 0 THEN Larger(goal, Smaller(options.maximum, Wanted(at, late)))
    ELSE IF at > quietUntil THEN base ELSE goal

StepCurve(at, late) ==
    LET current == Delay(curve, at) IN
    /\ StepDue(at) /\ options.enabled
    /\ lastStep' = at
    /\ goal' = NewGoal(at, late)
    /\ quietUntil' = IF late > 0 THEN at + Quiet ELSE quietUntil
    /\ curve' = [curve EXCEPT
           !.start = at, !.from = current,
           !.to = Larger(current - CatchUp(options, current, base),
                         Smaller(current + Growth, goal')),
           !.pending = @ \/ (options.jump /\ Wanted(at, late) > options.maximum)]
    /\ UNCHANGED <<active, options, base, jumpVars>>

Step(at, late) == StepNothing(at) \/ StepRetires(at) \/ StepCurve(at, late)

-----------------------------------------------------------------------------
JumpDue == active /\ curve.pending

(* A keyframe whose media was expected at mediaTime arrives now: it plays at the
   normal delay from here on, and what came before the cutoff is given up. Two
   jumps are a Step apart and never read the same time. *)
Jump(mediaTime) ==
    /\ JumpDue /\ now # cutoff
    /\ shift' = curve.shift + (now - mediaTime)
    /\ cutoff' = now
    /\ curve' = [start |-> now, from |-> base, to |-> base,
                 shift |-> shift', cutoff |-> cutoff', pending |-> FALSE]
    /\ goal' = base
    /\ quietUntil' = now + Quiet
    /\ UNCHANGED <<active, options, base, lastStep>>

-----------------------------------------------------------------------------
(* The controller on its own, with any policy, lateness and media time. The
   stream in Playout is one way to drive it. *)
ControllerStep ==
    \/ now' = now + 1 /\ UNCHANGED controllerVars
    \/ /\ now' = now
       /\ \/ \E delay \in Nat, o \in Options : ConfigureSpeed(delay, o) \/ ConfigurePolicy(delay, o)
          \/ \E at \in 0 .. now, late \in Nat : Step(at, late)
          \/ \E mediaTime \in Int : Jump(mediaTime)

ControllerSpec ==
    /\ \E delay \in Nat, o \in Options : ControllerInit(delay, o)
    /\ [][ControllerStep]_<<now, controllerVars>>

(* The delay aimed at is between the configured delay and the maximum, and no
   curve leads out of that range from within, however the settings change. *)
DelayBounded ==
    /\ base <= goal /\ goal <= options.maximum
    /\ active /\ options.enabled =>
          /\ curve.to <= Larger(curve.from, options.maximum)
          /\ curve.to >= Smaller(curve.from, base)
=============================================================================
