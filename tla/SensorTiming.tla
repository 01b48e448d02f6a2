----------------------------- MODULE SensorTiming -----------------------------
(***************************************************************************)
(* The registers that decide how the OV5640 clocks out a frame, and the    *)
(* order in which applySensorTuning() writes them (mjpeg2sd.cpp).  The     *)
(* sensor goes on reading frames while they are written one at a time over *)
(* a two-wire bus, so every state between two writes is one a frame may be *)
(* read in; and a write may be lost, which nothing reports unless it is    *)
(* read back.                                                              *)
(*                                                                         *)
(* Rows and columns are those of the sensor array.  Of the window only the *)
(* start and end row are kept apart; columns are a width.  Clocks are in   *)
(* kHz, and the floating point of the code is integer division here.       *)
(* Where the line a night session needs is past its register the code has  *)
(* a second regime (a longer frame and a manual exposure): no session is   *)
(* longer than NIGHT_MAX_MS, so that it is never entered (NightLine).      *)
(***************************************************************************)
EXTENDS Integers, Sequences, FiniteSetsExt

CONSTANTS
    Driver,       \* what set_framesize() leaves for each size, and frameData[] of it
    Rates,        \* frame rates the user asks for
    Long,         \* frame periods asked of a night session, in ms
    MaxAsks,      \* choices the user makes
    MaxLost       \* writes that are lost

Sizes == DOMAIN Driver
None == "none"

HTS_FLOOR == 2060
HTS_FLOOR_FULLRES == 2200
NIGHT_HTS_MAX == 8191
NIGHT_MAX_MS == 3180
NIGHT_KHZ == 10133
AEC_VTS_CEIL == 1968
HTS_LEAST == 2048       \* no mode of the driver has a shorter line

ASSUME TimingAssumption ==
    /\ Rates \subseteq 1..150 /\ Long \subseteq Nat \ {0} /\ MaxAsks \in Nat /\ MaxLost \in Nat

\* What every mode of the driver gives: a window on the subsampling grid, a frame
\* that covers it and that the AEC can expose, a line of its usual length; a size
\* tuned by its clock alone has neither route B nor a night session.
DriverFloor(d) == IF d.ss = 2 THEN d.rows \div 2 + 8 ELSE d.rows + 16
ASSUME DriverAssumption ==
    /\ \A fs \in Sizes : LET d == Driver[fs] IN
          /\ d.ss \in {1, 2}
          /\ {d.ySt, d.rows, d.cols, d.xOff, d.yOff, d.outH, d.pre, d.vts} \subseteq Nat
          /\ {d.outW, d.maxFPS} \subseteq Nat \ {0}
          /\ d.hts \in HTS_LEAST..NIGHT_HTS_MAX
          /\ d.ySt % 4 = 0
          /\ DriverFloor(d) <= d.vts /\ DriverFloor(d) <= AEC_VTS_CEIL
          /\ d.byClock => fs \notin {"HD", "HDV2", "1280X960", "QSXGA", "FHDNARROW"}
    /\ "HDV2" \in Sizes => LET d == Driver["HDV2"] IN
          /\ d.ss = 2 /\ d.pre = 0
          /\ d.ySt <= 256 /\ d.ySt + d.rows > 1695

VARIABLES
    reg,                    \* the registers, by name
    sensorFS,               \* the size the sensor has
    todo, pc,               \* writes still to be made, and the step that follows them
    plan,                   \* what the retime is to reach
    fsizePtr, captureFPS, retimePending,      \* what the web server wants
    nightFrameMs, nightFS, nightPrev,         \* the night session, and what it restores
    nightHtsBase, nightHtsFS,                 \* the size's own line length
    asks, lost

web   == <<fsizePtr, captureFPS, retimePending, nightFrameMs, nightFS, nightPrev, asks>>
base  == <<nightHtsBase, nightHtsFS>>
vars  == <<reg, sensorFS, todo, pc, plan, web, base, lost>>

Lower(a, b) == IF a < b THEN a ELSE b
Higher(a, b) == IF a > b THEN a ELSE b

Hi(v) == v \div 256
Lo(v) == v % 256
Binned(fs) == Driver[fs].ss = 2
LineFactor(fs) == IF Binned(fs) THEN 1 ELSE 2

\* What one line and one frame of the size must not go below.
RouteB(fs) == fs \in {"HD", "HDV2", "1280X960"}
HtsFloorFor(fs) == IF RouteB(fs) THEN 2112 ELSE HTS_FLOOR
RowsRead == reg.yEnd - reg.ySt + 1
RowFloor(fs) == IF Binned(fs) THEN RowsRead \div 2 + 8 ELSE RowsRead + 16
FloorAsBinned(fs) == RowsRead \div 2 + 8       \* MUTANT of VtsFloor: the line factor is forgotten
VtsFloor(fs) == Higher(RowFloor(fs), IF fs = "HDV2" THEN 738 ELSE 0)

\* What the ISP is given, less its border: it must be the output unless the
\* scaler is on, and then no less than the output.
PreScale(fs) == (RowsRead \div Driver[fs].ss) - 2 * reg.yOff

\* The clock that counts pixels: route B has half the dividers of route A.
Sclk(r) == ((r.mul * 2000) \div (3 * r.sysDiv)) * (IF r.route = "B" THEN 2 ELSE 1)

\* A write of a register, or of one byte of it.
w(name, v) == [reg |-> name, part |-> "all", val |-> v]
hi(name, v) == [reg |-> name, part |-> "hi", val |-> Hi(v)]
lo(name, v) == [reg |-> name, part |-> "lo", val |-> Lo(v)]
Written(old, x) ==
    CASE x.part = "hi" -> x.val * 256 + Lo(old)
      [] x.part = "lo" -> Hi(old) * 256 + x.val
      [] OTHER -> x.val

\* set_framesize() of the driver: its own geometry, line, frame and 50 MHz clock.
DriverRegs(fs) ==
    LET d == Driver[fs] IN
    [route |-> "A", sysDiv |-> 1, mul |-> 75, hts |-> d.hts, vts |-> d.vts,
     ySt |-> d.ySt, yEnd |-> d.ySt + d.rows - 1, cols |-> d.cols, yOff |-> d.yOff,
     outH |-> d.baseH, scaler |-> (d.rows \div d.ss) - 2 * d.yOff # d.baseH,
     damped |-> FALSE, aec |-> [maxExp |-> 984, b50 |-> 295, b60 |-> 246, n50 |-> 3, n60 |-> 3]]

NoPlan == [route |-> "A", sysDiv |-> 1, mul |-> 75, hts |-> 0, vts |-> 0]
NoPrev == [fs |-> None, fps |-> 0]

Init ==
    /\ sensorFS \in Sizes /\ fsizePtr = sensorFS
    /\ captureFPS \in {Lower(r, Driver[fsizePtr].maxFPS) : r \in Rates}
    /\ retimePending = FALSE
    /\ reg = DriverRegs(sensorFS)
    /\ todo = <<>> /\ pc = "size" /\ plan = NoPlan
    /\ nightFrameMs = 0 /\ nightFS = None /\ nightPrev = NoPrev
    /\ nightHtsBase = 0 /\ nightHtsFS = None
    /\ asks = 0 /\ lost = 0
----------------------------------------------------------------------------
(* The web server sets targets; only the capture task writes registers.    *)
NightOff(restoreSize, restoreRate) ==
    /\ nightFrameMs' = 0 /\ nightFS' = None /\ nightPrev' = NoPrev
    /\ retimePending' = TRUE
    /\ fsizePtr' = IF restoreSize THEN nightPrev.fs ELSE fsizePtr
    /\ captureFPS' = IF restoreRate THEN nightPrev.fps ELSE captureFPS

SetSize(fs) ==
    /\ fs # fsizePtr
    /\ fsizePtr' = fs
    /\ captureFPS' = Lower(IF nightFrameMs > 0 THEN nightPrev.fps ELSE captureFPS, Driver[fs].maxFPS)
    /\ IF nightFrameMs > 0
       THEN nightFrameMs' = 0 /\ nightFS' = None /\ nightPrev' = NoPrev
       ELSE UNCHANGED <<nightFrameMs, nightFS, nightPrev>>
    /\ retimePending' = TRUE

SetRate(r) ==
    /\ fsizePtr' = IF nightFrameMs > 0 THEN nightPrev.fs ELSE fsizePtr
    /\ captureFPS' = Lower(r, Driver[fsizePtr].maxFPS)
    /\ nightFrameMs' = 0 /\ nightFS' = None /\ nightPrev' = NoPrev
    /\ retimePending' = TRUE

NightEnter(fs, ms) ==
    /\ fs \in {"QSXGA", "FHDNARROW"}
    /\ nightFS' = fs /\ nightFrameMs' = Lower(ms, NIGHT_MAX_MS)
    /\ nightPrev' = IF nightPrev = NoPrev THEN [fs |-> fsizePtr, fps |-> captureFPS] ELSE nightPrev
    /\ fsizePtr' = fs /\ captureFPS' = 1
    /\ retimePending' = TRUE

NightExit == nightFrameMs > 0 /\ NightOff(TRUE, TRUE)

Web ==
    /\ asks < MaxAsks /\ asks' = asks + 1
    /\ \/ \E fs \in Sizes : SetSize(fs)
       \/ \E r \in Rates : SetRate(r)
       \/ \E fs \in Sizes, ms \in Long : NightEnter(fs, ms)
       \/ NightExit
    /\ UNCHANGED <<reg, sensorFS, todo, pc, plan, base, lost>>
----------------------------------------------------------------------------
(* The bus.                                                                *)
Write ==
    /\ todo # <<>>
    /\ reg' = [reg EXCEPT ![Head(todo).reg] = Written(@, Head(todo))]
    /\ todo' = Tail(todo)
    /\ UNCHANGED <<sensorFS, pc, plan, web, base, lost>>

\* A write of the window that is not read back as written ends the cropping.
Lose ==
    /\ todo # <<>> /\ lost < MaxLost
    /\ lost' = lost + 1
    /\ todo' = IF pc = "cropRest" THEN <<>> ELSE Tail(todo)
    /\ UNCHANGED <<reg, sensorFS, pc, plan, web, base>>

Step(from, to, writes) ==
    /\ pc = from /\ todo = <<>>
    /\ todo' = writes /\ pc' = to
    /\ UNCHANGED <<reg, sensorFS, web, lost>>

\* Two bytes, the high one first when the value rises.
InOrder(name, old, new) ==
    CASE new = old -> <<>>
      [] new > old -> <<hi(name, new), lo(name, new)>>
      [] new < old -> <<lo(name, new), hi(name, new)>>

\* senWrite16(): the high byte first, whichever way the value goes.
WriteVts(v) == <<hi("vts", v), lo("vts", v)>>
----------------------------------------------------------------------------
(* applySensorTuning(), a step for each of its parts.                      *)

\* settleSensor(): the size first, or a retime at the size that is there.
Settle ==
    /\ pc = "idle" /\ todo = <<>>
    /\ \/ /\ fsizePtr # sensorFS
          /\ sensorFS' = fsizePtr /\ reg' = DriverRegs(fsizePtr)
       \/ /\ fsizePtr = sensorFS /\ retimePending
          /\ UNCHANGED <<sensorFS, reg>>
    /\ retimePending' = FALSE
    /\ pc' = "size"
    /\ UNCHANGED <<todo, plan, fsizePtr, captureFPS, nightFrameMs, nightFS, nightPrev, asks, base, lost>>

\* setOutputSize(), for the size whose output the driver does not know.
ApplyOutputSize ==
    /\ Step("size", "crop",
            IF sensorFS = "1280X960" THEN <<w("outH", Driver[sensorFS].outH)>> ELSE <<>>)
    /\ UNCHANGED <<plan, base>>

\* The window is cut to what the wanted input of the ISP needs, if that is less.
CropRows(fs) ==
    LET d == Driver[fs]
    IN  ((IF d.pre > 0 THEN (d.pre * d.outH) \div d.outW ELSE d.outH) + 2 * reg.yOff) * d.ss
CropCols(fs) ==
    LET d == Driver[fs] IN ((IF d.pre > 0 THEN d.pre ELSE d.outW) + 2 * d.xOff) * d.ss
Crops(fs) ==
    /\ ~Binned(fs) \/ Driver[fs].pre > 0
    /\ CropRows(fs) <= RowsRead /\ CropCols(fs) <= reg.cols
    /\ ~(CropRows(fs) = RowsRead /\ CropCols(fs) = reg.cols)

\* The start stays on the subsampling grid.
CropStart(fs) ==
    LET st == reg.ySt + (RowsRead - CropRows(fs)) \div 2 IN st - (st % (2 * Driver[fs].ss))

ApplyCropWindow ==
    /\ IF Crops(sensorFS)
       THEN Step("crop", "cropRest",
                 <<w("cols", CropCols(sensorFS)), w("ySt", CropStart(sensorFS)),
                   w("yEnd", CropStart(sensorFS) + CropRows(sensorFS) - 1)>>)
       ELSE Step("crop", "rows", <<>>)
    /\ UNCHANGED <<plan, base>>

\* Only when the window took: the frame, the scaler, and the line of a size
\* that is not binned.
ApplyCropRest ==
    LET d == Driver[sensorFS]
        noOp == d.pre = 0 \/ d.pre = d.outW
        floor == Higher(reg.cols + 76, HTS_FLOOR_FULLRES)
    IN  /\ IF CropRows(sensorFS) = RowsRead /\ CropCols(sensorFS) = reg.cols
           THEN Step("cropRest", "rows",
                     WriteVts(RowFloor(sensorFS))
                     \o (IF noOp /\ reg.scaler THEN <<w("scaler", FALSE)>> ELSE <<>>)
                     \o (IF ~Binned(sensorFS) /\ reg.hts > floor
                         THEN <<hi("hts", floor), lo("hts", floor)>> ELSE <<>>))
           ELSE Step("cropRest", "rows", <<>>)
        /\ UNCHANGED <<plan, base>>

\* HDV2 alone: the scaler covers the moment at which offset and window differ.
ApplyTightRows ==
    /\ Step("rows", "line",
            IF sensorFS = "HDV2" /\ ~(reg.ySt = 256 /\ reg.yEnd = 1695 /\ reg.yOff = 0)
            THEN <<w("scaler", TRUE), w("yOff", 0), w("ySt", 256), w("yEnd", 1695),
                   w("scaler", FALSE)>>
            ELSE <<>>)
    /\ UNCHANGED <<plan, base>>

ApplyHtsFloor ==
    /\ Step("line", "retime",
            IF Binned(sensorFS) THEN InOrder("hts", reg.hts, HtsFloorFor(sensorFS)) ELSE <<>>)
    /\ UNCHANGED <<plan, base>>
----------------------------------------------------------------------------
(* The retime: a clock, a line and a frame length that give the rate.      *)

\* In thousandths: the sensor runs that much faster than the request.
FpsOverdrive(fps) == 1000 + Lower(50, Higher(10, fps))

\* Lines of a frame of the wanted rate at a clock, and the clock of one of vts lines.
VtsAt(kHz, hts, fs, fps) ==
    (kHz * 10000) \div ((hts * LineFactor(fs) * fps * FpsOverdrive(fps)) \div 100)
ClockFor(vts, hts, fs, fps) ==
    (((hts * LineFactor(fs) * fps * FpsOverdrive(fps)) \div 1000) * vts) \div 1000

\* The smallest divider for which the multiplier is one the PLL has.
Multiplier(kHz, sd) ==
    LET m == (kHz * 3 * sd + 1000) \div 2000 IN IF m > 127 THEN m - (m % 2) ELSE m
Fits(kHz, sd) ==
    LET m == Multiplier(kHz, sd) IN m \in 75..150 /\ m * 2000 <= 80050 * 3 * sd
Dividers(kHz) == {sd \in 1..15 : Fits(kHz, sd)}
PickPll(kHz) == [sysDiv |-> Min(Dividers(kHz)), mul |-> Multiplier(kHz, Min(Dividers(kHz)))]

FAST == [sysDiv |-> 1, mul |-> 120]      \* 80 MHz
SLOW == [sysDiv |-> 5, mul |-> 76]       \* 10.13 MHz
ROUTE_B == [sysDiv |-> 1, mul |-> 66]    \* 88 MHz, on the halved dividers

Planned(route, pll, hts, vts) ==
    [route |-> route, sysDiv |-> pll.sysDiv, mul |-> pll.mul, hts |-> hts, vts |-> vts]

NightRuns(fs) == nightFrameMs > 0 /\ nightFS = fs /\ ~Binned(fs)

\* A night session has the slow clock and the longest frame the AEC knows; the
\* line makes up the rest.  nightHtsBase is the line before the session.
NightLine(fs) ==
    LET own == IF nightHtsBase > 0 /\ nightHtsFS = fs THEN nightHtsBase ELSE reg.hts
        needed == (nightFrameMs * NIGHT_KHZ + AEC_VTS_CEIL) \div (2 * AEC_VTS_CEIL)
    IN  Lower(NIGHT_HTS_MAX, Higher(needed, own))

\* The rate by the frame length, down to what the window needs; below what the
\* AEC can expose, by the clock; above what 80 MHz reaches, on route B.
DayPlan(fs, fps, hts) ==
    LET vts == VtsAt(80000, hts, fs, fps)
        target == Higher(AEC_VTS_CEIL, VtsFloor(fs))
        kHz == ClockFor(target, hts, fs, fps)
    IN  CASE vts > AEC_VTS_CEIL /\ kHz < 10000 -> Planned("A", SLOW, hts, target)
          [] vts > AEC_VTS_CEIL /\ kHz >= 10000 /\ Dividers(kHz) # {} ->
                Planned("A", PickPll(kHz), hts, target)
          [] vts < VtsFloor(fs) /\ RouteB(fs) ->
                Planned("B", ROUTE_B, hts, Higher(VtsFloor(fs), VtsAt(88000, hts, fs, fps)))
          [] OTHER -> Planned("A", FAST, hts, Higher(VtsFloor(fs), vts))

\* The PLL: the larger root divider before the multiplier, the smaller after it.
PllRouteFirst(p) ==                 \* MUTANT of PllWrites: the root divider always first
    <<w("route", p.route), w("sysDiv", p.sysDiv), w("mul", p.mul)>>
PllWrites(p) ==
    (IF p.route = "A" THEN <<w("route", "A")>> ELSE <<>>)
    \o <<w("sysDiv", p.sysDiv), w("mul", p.mul)>>
    \o (IF p.route = "B" THEN <<w("route", "B")>> ELSE <<>>)

\* A session that is over gives the line back, once.
KeepsLine(fs) == FALSE              \* MUTANT of GivesBack: the line of the session stays
GivesBack(fs) == nightFrameMs = 0 /\ nightHtsBase > 0 /\ nightHtsFS = fs

\* applyTunedTiming().
ApplyTunedTiming ==
    LET fs == sensorFS
        back == GivesBack(fs)
        own == IF back THEN nightHtsBase ELSE reg.hts
        capture == NightRuns(fs) /\ ~(nightHtsBase > 0 /\ nightHtsFS = fs)
        p == IF NightRuns(fs) THEN Planned("A", SLOW, NightLine(fs), AEC_VTS_CEIL)
             ELSE DayPlan(fs, captureFPS, own)
    IN  /\ ~Driver[fs].byClock
        /\ plan' = p
        /\ nightHtsBase' = IF back THEN 0 ELSE IF capture THEN reg.hts ELSE nightHtsBase
        /\ nightHtsFS' = IF back THEN None ELSE IF capture THEN fs ELSE nightHtsFS
        /\ Step("retime", "frame", PllWrites(p))

\* Only when the PLL reads back as written: the line, then the frame.
ApplyFrame ==
    /\ Step("frame", "aec",
            IF reg.mul = plan.mul /\ reg.route = plan.route
            THEN InOrder("hts", reg.hts, plan.hts) \o WriteVts(plan.vts) ELSE <<>>)
    /\ UNCHANGED <<plan, base>>

\* applyScalerClock(): a scaler size keeps its frame and has the clock alone.
ScalerPll(kHz) ==
    CASE kHz < 10000 -> SLOW
      [] kHz \in 10000..80000 /\ Dividers(kHz) # {} -> PickPll(kHz)
      [] OTHER -> FAST
ApplyScalerClock ==
    LET pll == ScalerPll(ClockFor(reg.vts, reg.hts, sensorFS, captureFPS))
    IN  /\ Driver[sensorFS].byClock
        /\ plan' = Planned("A", pll, reg.hts, reg.vts)
        /\ Step("retime", "aec", PllWrites(plan'))
        /\ UNCHANGED base
----------------------------------------------------------------------------
(* applyAecLimits(): the exposure's limits, of what the registers hold.  No *)
(* frame tells the five apart, so they are one write.                      *)
LinesPer(hz) == (Sclk(reg) * 1000) \div (hz * reg.hts * LineFactor(sensorFS))
MaxExposure == Lower(reg.vts - 4, 1964)

ApplyAecLimits ==
    LET b50 == LinesPer(100)
        b60 == LinesPer(120)
    IN  /\ Step("aec", "idle",
                <<w("damped", nightFrameMs > 0)>> \o
                IF {b50, b60} \subseteq 1..1023 /\ MaxExposure >= 1
                THEN <<w("aec", [maxExp |-> MaxExposure, b50 |-> b50, b60 |-> b60,
                                 n50 |-> Lower(63, MaxExposure \div b50),
                                 n60 |-> Lower(63, MaxExposure \div b60)])>>
                ELSE <<>>)
        /\ UNCHANGED <<plan, base>>
----------------------------------------------------------------------------
Tune == \/ Settle \/ ApplyOutputSize \/ ApplyCropWindow \/ ApplyCropRest \/ ApplyTightRows
        \/ ApplyHtsFloor \/ ApplyTunedTiming \/ ApplyFrame \/ ApplyScalerClock \/ ApplyAecLimits

Next == Web \/ Write \/ Lose \/ Tune
Spec == Init /\ [][Next]_vars
----------------------------------------------------------------------------
(* Properties.                                                             *)
Settled == pc = "idle" /\ todo = <<>>
Quiet == Settled /\ fsizePtr = sensorFS /\ ~retimePending

\* Between the two bytes of the frame length.
Halfway == todo # <<>> /\ Head(todo).reg = "vts" /\ Head(todo).part = "lo"

\* No frame is read of fewer lines than its window has rows - the split frame the
\* comments of applyCropWindow() and applyTunedTiming() warn of - but one that is
\* read between the two bytes of its length, and that is at most 255 lines short.
VtsCoversRows ==
    lost = 0 => \/ reg.vts >= RowFloor(sensorFS)
                \/ Halfway /\ reg.vts + 255 >= RowFloor(sensorFS)

\* The ISP is never given less than it must put out, and with the scaler off
\* exactly that; at any other moment the sensor delivers nothing.
ScalerLegal ==
    lost = 0 => IF reg.scaler THEN PreScale(sensorFS) >= reg.outH
                              ELSE PreScale(sensorFS) = reg.outH

\* The line is never shorter than both the one in force and the one wanted,
\* once the window is cut, and fits the thirteen bits of its register.
HtsNoShorter ==
    [][/\ reg'.hts <= NIGHT_HTS_MAX
       /\ todo # <<>> /\ Head(todo).reg = "hts" /\ pc = "retime" /\ lost' = 0 =>
             reg'.hts >= Lower(reg.hts, HtsFloorFor(sensorFS))
       /\ todo # <<>> /\ Head(todo).reg = "hts" /\ pc = "aec" /\ lost' = 0 =>
             reg'.hts >= Lower(reg.hts, plan.hts)]_vars

\* On the halved dividers the clock never passes the 88 MHz they were measured at.
RouteBSlow == lost = 0 /\ reg.route = "B" => Sclk(reg) <= 88000

OwnLine(fs) ==
    CASE Binned(fs) -> HtsFloorFor(fs)
      [] ~Binned(fs) /\ reg.cols = Driver[fs].cols /\ RowsRead = Driver[fs].rows -> Driver[fs].hts
      [] OTHER -> Lower(Driver[fs].hts, Higher(reg.cols + 76, HTS_FLOOR_FULLRES))

\* In thousandths of the rate, what an even multiplier may cost: it is rounded down by up
\* to 1.2 %, and below 12 frames a second the sensor is made only 1.1 % faster, or 1 %.
EvenLoss == IF captureFPS < 12 /\ reg.mul > 127 THEN 3 ELSE 0

\* Once tuned the sensor makes as many frames as were asked of it, or as many as
\* the size can; a session that is over leaves neither its line nor its damping.
KeepsUp ==
    Quiet /\ lost = 0 =>
        LET fs == sensorFS
            faster == Sclk(reg) * (1000 + EvenLoss)
                         >= captureFPS * reg.hts * LineFactor(fs) * reg.vts
            flatOut == /\ Sclk(reg) >= (IF RouteB(fs) THEN 88000 ELSE 80000)
                       /\ reg.vts = VtsFloor(fs) \/ Driver[fs].byClock
        IN  /\ nightFrameMs = 0 => faster \/ flatOut
            /\ nightFrameMs = 0 => reg.hts = OwnLine(fs)
            /\ NightRuns(fs) => reg.hts * 2 * reg.vts >= (nightFrameMs - 1) * NIGHT_KHZ
            /\ reg.damped = (nightFrameMs > 0)

\* The exposure the AEC may choose fits the frame, and its bands fit the exposure.
AecFits ==
    Settled /\ lost = 0 =>
        LET a == reg.aec
        IN  /\ a.maxExp \in 1..Lower(reg.vts - 4, 1964)
            /\ {a.b50, a.b60} \subseteq 1..1023 /\ {a.n50, a.n60} \subseteq 0..63
            /\ a.n50 * a.b50 <= a.maxExp /\ a.n60 * a.b60 <= a.maxExp

\* "every transient is slow" (applyTunedTiming()).  Refuted: the divider is
\* written before the multiplier.
ClockBelowCliff == lost = 0 => Sclk(reg) <= 88000
============================================================================
