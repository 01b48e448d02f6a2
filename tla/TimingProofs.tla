----------------------------- MODULE TimingProofs -----------------------------
(***************************************************************************)
(* Theorems about SensorTiming, for every table of sizes the driver may    *)
(* have, and any rates and night sessions asked for at any moment.  As     *)
(* long as no write is lost: no frame is read of fewer lines than its      *)
(* window has rows, but between the two bytes of its length; route B never *)
(* clocks past 88 MHz; a sensor that has been tuned makes the frames it    *)
(* was asked for, on the size's own line, undamped; its exposure fits the  *)
(* frame; and no two bytes of a line go out in the order that makes it     *)
(* short.                                                                  *)
(***************************************************************************)
EXTENDS SensorTiming, Functions, SequenceTheorems, TLAPS
----------------------------------------------------------------------------
(* The inductive invariant.                                                *)

RegNames == {"route", "sysDiv", "mul", "hts", "vts", "ySt", "yEnd", "cols", "yOff",
             "outH", "scaler", "damped", "aec"}
Grid(fs) == 2 * Driver[fs].ss

\* What the user wants, and what a night session will put back.
WebInv ==
    /\ sensorFS \in Sizes /\ fsizePtr \in Sizes
    /\ captureFPS \in Nat \ {0} /\ nightFrameMs \in Nat
    /\ nightPrev \in {NoPrev} \cup [fs : Sizes, fps : Nat \ {0}]
    /\ nightFrameMs > 0 => nightPrev # NoPrev
    /\ nightHtsBase \in {0} \cup {n \in Nat : n >= HTS_LEAST}

\* The window lies on the grid and is one the AEC can expose; the line is no
\* shorter than any of the driver's.
RegInv ==
    /\ reg = [n \in RegNames |-> reg[n]]
    /\ {reg.hts, reg.ySt, reg.cols, reg.yOff} \subseteq Nat /\ reg.yEnd \in Int
    /\ reg.hts >= HTS_LEAST
    /\ reg.ySt % Grid(sensorFS) = 0
    /\ RowFloor(sensorFS) <= AEC_VTS_CEIL
    /\ sensorFS = "HDV2" => reg.ySt <= 256 /\ reg.yEnd >= 1695

\* A write still to be made shrinks the window, and none leaves a line too short.
Well(x) ==
    /\ x.reg \in RegNames
    /\ x.reg \notin {"hts", "vts"} => x.part = "all"
    /\ x.reg = "hts" => \/ x.part = "hi" /\ x.val \in Nat /\ x.val >= HTS_LEAST \div 256
                        \/ x.part = "lo" /\ x.val \in 0..255
    /\ x.reg = "ySt" => /\ x.val \in Nat /\ x.val >= reg.ySt
                        /\ x.val % Grid(sensorFS) = 0
                        /\ sensorFS = "HDV2" => x.val = 256
    /\ x.reg = "yEnd" => /\ x.val \in Int /\ x.val <= reg.yEnd
                         /\ sensorFS = "HDV2" => x.val = 1695
    /\ x.reg \in {"cols", "yOff"} => x.val \in Nat

\* All of them are such, and none moves the window twice.
Agree(S) == \A x, y \in S : x.reg = y.reg /\ x.reg \in {"ySt", "yEnd"} => x.val = y.val
TodoInv == todo \in Seq({x \in Range(todo) : Well(x)}) /\ Agree(Range(todo))

\* The frame the retime is to reach covers the window.
PlanInv ==
    pc = "frame" => /\ plan.vts \in Int /\ plan.vts >= RowFloor(sensorFS)
                    /\ plan.hts \in Nat /\ plan.hts >= HTS_LEAST

TInv == WebInv /\ RegInv /\ TodoInv /\ PlanInv
----------------------------------------------------------------------------
(* The clock.                                                              *)
Pll == {"route", "sysDiv", "mul"}

\* Nothing of the PLL is to be written.
Plain == \A x \in Range(todo) : x.reg \notin Pll

\* The larger root divider comes first, and none but it is chosen.
ToA == /\ \A x \in Range(todo) : x.reg = "route" => x.val = "A"
       /\ \/ reg.route = "A"
          \/ todo # <<>> /\ Head(todo) = w("route", "A")

\* The smaller one comes last, when the divider and the multiplier are route B's.
ToB == \/ todo = <<w("sysDiv", 1), w("mul", 66), w("route", "B")>>
       \/ todo = <<w("mul", 66), w("route", "B")>> /\ reg.sysDiv = 1
       \/ todo = <<w("route", "B")>> /\ reg.sysDiv = 1 /\ reg.mul = 66

PllInv ==
    /\ lost \in Nat
    /\ lost = 0 => /\ reg.route = "B" => reg.sysDiv = 1 /\ reg.mul = 66
                   /\ Plain \/ ToA \/ ToB
----------------------------------------------------------------------------
(* Lemmas about the sizes, the writes and the list of them.                *)

\* What the constants give for one size, a field at a time.
LEMMA SizeFacts ==
  ASSUME NEW fs \in Sizes
  PROVE  /\ Driver[fs].ss \in {1, 2}
         /\ Driver[fs].ySt \in Nat /\ Driver[fs].rows \in Nat /\ Driver[fs].cols \in Nat
         /\ Driver[fs].xOff \in Nat /\ Driver[fs].yOff \in Nat /\ Driver[fs].outH \in Nat
         /\ Driver[fs].pre \in Nat /\ Driver[fs].vts \in Nat
         /\ Driver[fs].outW \in Nat \ {0} /\ Driver[fs].maxFPS \in Nat \ {0}
         /\ Driver[fs].hts \in Nat /\ Driver[fs].hts >= HTS_LEAST
         /\ Driver[fs].ySt % 4 = 0
         /\ DriverFloor(Driver[fs]) <= Driver[fs].vts
         /\ DriverFloor(Driver[fs]) <= AEC_VTS_CEIL
         /\ fs = "HDV2" => /\ Driver[fs].ss = 2 /\ Driver[fs].pre = 0
                           /\ Driver[fs].ySt <= 256
                           /\ Driver[fs].ySt + Driver[fs].rows > 1695
<1> DEFINE d == Driver[fs]
<1>1. /\ d.ss \in {1, 2}
      /\ {d.ySt, d.rows, d.cols, d.xOff, d.yOff, d.outH, d.pre, d.vts} \subseteq Nat
      /\ {d.outW, d.maxFPS} \subseteq Nat \ {0}
      /\ d.hts \in HTS_LEAST..NIGHT_HTS_MAX
      /\ d.ySt % 4 = 0
      /\ DriverFloor(d) <= d.vts /\ DriverFloor(d) <= AEC_VTS_CEIL
  BY DriverAssumption
<1>2. d.hts \in Nat /\ d.hts >= HTS_LEAST
  <2>1. \A h \in HTS_LEAST..NIGHT_HTS_MAX : h \in Nat /\ h >= HTS_LEAST
    BY DEF HTS_LEAST, NIGHT_HTS_MAX
  <2> QED
    BY <1>1, <2>1
<1>3. fs = "HDV2" => d.ss = 2 /\ d.pre = 0 /\ d.ySt <= 256 /\ d.ySt + d.rows > 1695
  BY DriverAssumption
<1> QED
  BY <1>1, <1>2, <1>3

\* A list over a set has its elements there, and is a list over them.
LEMMA InRange ==
  ASSUME NEW S, NEW s \in Seq(S)
  PROVE  Range(s) \subseteq S /\ s \in Seq(Range(s))
  BY DEF Range

\* The registers and the list of writes after a step that only makes a new list.
LEMMA NewWrites ==
  ASSUME RegInv, reg' = reg, sensorFS' = sensorFS,
         NEW S, todo' \in Seq(S), \A x \in S : Well(x), Agree(S)
  PROVE  RegInv' /\ TodoInv'
<1>1. RegInv'
  BY DEF RegInv, RowFloor, RowsRead, Binned, Grid
<1>2. \A x \in S : Well(x)'
  BY DEF Well, RowFloor, RowsRead, Binned, Grid
<1>3. Range(todo') \subseteq S /\ todo' \in Seq(Range(todo'))
  BY InRange
<1>4. {x \in Range(todo') : Well(x)'} = Range(todo')
  BY <1>2, <1>3
<1>5. (Agree(Range(todo)))'
  BY <1>3 DEF Agree
<1> QED
  BY <1>1, <1>3, <1>4, <1>5 DEF TodoInv

\* A step of the tuning leaves what the user wants alone.
LEMMA WebKept == WebInv /\ UNCHANGED <<sensorFS, web, base>> => WebInv'
  BY DEF WebInv, web, base

\* The write that is next is well, and so are those that follow it.
LEMMA NextWrite ==
  ASSUME TodoInv, todo # <<>>
  PROVE  /\ Head(todo) \in Range(todo) /\ Well(Head(todo))
         /\ Tail(todo) \in Seq(Range(todo)) /\ Range(Tail(todo)) \subseteq Range(todo)
         /\ \A x \in Range(todo) : Well(x)
         /\ Agree(Range(todo))
<1> DEFINE G == {x \in Range(todo) : Well(x)}
<1>1. todo \in Seq(G) /\ Agree(Range(todo))
  BY DEF TodoInv
<1>2. Range(todo) \subseteq G /\ todo \in Seq(Range(todo))
  <2> HIDE DEF G
  <2> QED BY <1>1, InRange
<1>3. Head(todo) \in Range(todo) /\ Tail(todo) \in Seq(Range(todo))
  BY <1>2
<1>4. Range(Tail(todo)) \subseteq Range(todo)
  BY <1>3, InRange
<1> QED
  BY <1>1, <1>2, <1>3, <1>4
----------------------------------------------------------------------------
(* The window and the frame.                                               *)

\* A smaller window asks for no longer a frame.
LEMMA FloorFalls ==
  ASSUME NEW fs \in Sizes, NEW a \in Int, NEW b \in Int, NEW c \in Int, NEW d \in Int,
         a <= c, d <= b
  PROVE  /\ (IF Binned(fs) THEN (d - c + 1) \div 2 + 8 ELSE (d - c + 1) + 16)
              <= (IF Binned(fs) THEN (b - a + 1) \div 2 + 8 ELSE (b - a + 1) + 16)
  OBVIOUS

\* At the start, and whenever a size has just been set, nothing is to be written
\* and the registers are those of the driver.
LEMMA DriverRegsWell == \A fs \in Sizes : reg = DriverRegs(fs) /\ sensorFS = fs => RegInv
<1> SUFFICES ASSUME NEW fs \in Sizes, reg = DriverRegs(fs), sensorFS = fs
             PROVE  RegInv
  OBVIOUS
<1>1. /\ reg.hts = Driver[fs].hts /\ reg.vts = Driver[fs].vts /\ reg.ySt = Driver[fs].ySt
      /\ reg.yEnd = Driver[fs].ySt + Driver[fs].rows - 1
      /\ reg.cols = Driver[fs].cols /\ reg.yOff = Driver[fs].yOff
  BY DEF DriverRegs
<1>2. reg = [n \in RegNames |-> reg[n]]
  BY DEF DriverRegs, RegNames
<1>3. RowFloor(fs) = DriverFloor(Driver[fs])
  BY <1>1, SizeFacts DEF RowFloor, RowsRead, DriverFloor, Binned
<1>4. reg.ySt % Grid(fs) = 0
  BY <1>1, SizeFacts DEF Grid
<1> QED
  BY <1>1, <1>2, <1>3, <1>4, SizeFacts DEF RegInv, DriverFloor, AEC_VTS_CEIL
\* A window that is smaller on both sides asks for no longer a frame.
LEMMA RowFloorFalls ==
  ASSUME RegInv, sensorFS \in Sizes, sensorFS' = sensorFS,
         reg'.ySt \in Int, reg'.yEnd \in Int,
         reg'.ySt >= reg.ySt, reg'.yEnd <= reg.yEnd
  PROVE  RowFloor(sensorFS)' <= RowFloor(sensorFS) /\ RowFloor(sensorFS)' \in Int
<1>1. reg.ySt \in Int /\ reg.yEnd \in Int
  BY DEF RegInv
<1> QED
  BY <1>1 DEF RowFloor, RowsRead, Binned

\* The byte that is written leaves the line no shorter than the shortest.
LEMMA LineBytes ==
  ASSUME NEW old \in Nat, old >= HTS_LEAST, NEW x, x.reg = "hts",
         \/ x.part = "hi" /\ x.val \in Nat /\ x.val >= HTS_LEAST \div 256
         \/ x.part = "lo" /\ x.val \in 0..255
  PROVE  Written(old, x) \in Nat /\ Written(old, x) >= HTS_LEAST
<1>1. CASE x.part = "hi"
  <2>1. Written(old, x) = x.val * 256 + Lo(old)
    BY <1>1 DEF Written
  <2> QED
    BY <1>1, <2>1 DEF Lo, HTS_LEAST
<1>2. CASE x.part = "lo"
  <2>1. Written(old, x) = Hi(old) * 256 + x.val
    BY <1>2 DEF Written
  <2> QED
    BY <1>2, <2>1 DEF Hi, HTS_LEAST
<1> QED
  BY <1>1, <1>2

\* Every write on the bus.
LEMMA WriteKeeps ==
  ASSUME TInv, Write
  PROVE  TInv'
<1> DEFINE h == Head(todo)
<1>0. WebInv /\ RegInv /\ TodoInv /\ PlanInv /\ sensorFS \in Sizes
  BY DEF TInv, WebInv
<1>1. /\ h \in Range(todo) /\ Well(h)
      /\ todo' \in Seq(Range(todo)) /\ Range(todo') \subseteq Range(todo)
      /\ \A x \in Range(todo) : Well(x)
      /\ Agree(Range(todo))
  BY <1>0, NextWrite DEF Write
<1>2. /\ h.reg \in RegNames
      /\ \A n \in RegNames : reg'[n] = IF n = h.reg THEN Written(reg[n], h) ELSE reg[n]
      /\ reg' = [n \in RegNames |-> reg'[n]]
  BY <1>0, <1>1 DEF Write, RegInv, Well
<1>3. sensorFS' = sensorFS /\ UNCHANGED <<sensorFS, pc, plan, web, base>>
  BY DEF Write
<1>4. h.reg \notin {"hts", "vts"} => Written(reg[h.reg], h) = h.val
  BY <1>1 DEF Well, Written
<1> HIDE DEF h
<1>5. /\ reg'.ySt \in Nat /\ reg'.ySt >= reg.ySt /\ reg'.ySt % Grid(sensorFS) = 0
      /\ sensorFS = "HDV2" => reg'.ySt <= 256
      /\ h.reg = "ySt" => reg'.ySt = h.val
  <2>1. CASE h.reg = "ySt"
    BY <1>0, <1>1, <1>2, <1>4, <2>1 DEF Well, RegInv, RegNames
  <2>2. CASE h.reg # "ySt"
    BY <1>0, <1>2, <2>2 DEF RegInv, RegNames
  <2> QED
    BY <2>1, <2>2
<1>6. /\ reg'.yEnd \in Int /\ reg'.yEnd <= reg.yEnd
      /\ sensorFS = "HDV2" => reg'.yEnd >= 1695
      /\ h.reg = "yEnd" => reg'.yEnd = h.val
  <2>1. CASE h.reg = "yEnd"
    BY <1>0, <1>1, <1>2, <1>4, <2>1 DEF Well, RegInv, RegNames
  <2>2. CASE h.reg # "yEnd"
    BY <1>0, <1>2, <2>2 DEF RegInv, RegNames
  <2> QED
    BY <2>1, <2>2
<1>7. RowFloor(sensorFS)' <= RowFloor(sensorFS) /\ RowFloor(sensorFS)' \in Int
  BY <1>0, <1>3, <1>5, <1>6, RowFloorFalls
<1>8. RowFloor(sensorFS) \in Int
  BY <1>0 DEF RegInv, RowFloor, RowsRead
<1>9. reg'.hts \in Nat /\ reg'.hts >= HTS_LEAST
  <2>1. CASE h.reg = "hts"
    BY <1>0, <1>1, <1>2, <2>1, LineBytes DEF Well, RegInv, RegNames
  <2>2. CASE h.reg # "hts"
    BY <1>0, <1>2, <2>2 DEF RegInv, RegNames
  <2> QED
    BY <2>1, <2>2
<1>10. reg'.cols \in Nat /\ reg'.yOff \in Nat
  <2>1. CASE h.reg = "cols"
    BY <1>0, <1>1, <1>2, <1>4, <2>1 DEF Well, RegInv, RegNames
  <2>2. CASE h.reg = "yOff"
    BY <1>0, <1>1, <1>2, <1>4, <2>2 DEF Well, RegInv, RegNames
  <2>3. CASE h.reg \notin {"cols", "yOff"}
    BY <1>0, <1>2, <2>3 DEF RegInv, RegNames
  <2> QED
    BY <2>1, <2>2, <2>3
<1>12. RegInv'
  <2>1. RowFloor(sensorFS)' <= AEC_VTS_CEIL
    BY <1>0, <1>7, <1>8 DEF RegInv, AEC_VTS_CEIL
  <2> HIDE DEF RowFloor
  <2> QED
    BY <1>2, <1>3, <1>5, <1>6, <1>9, <1>10, <2>1 DEF RegInv, Grid
<1>13. TodoInv'
  <2>1. ASSUME NEW x \in Range(todo) PROVE Well(x)'
    <3>1. Well(x)
      BY <1>1
    <3>2. x.reg = "ySt" => x.val >= reg'.ySt
      <4>1. CASE x.reg = "ySt" /\ h.reg = "ySt"
        BY <1>1, <1>5, <3>1, <4>1 DEF Agree, Well
      <4>2. CASE x.reg = "ySt" /\ h.reg # "ySt"
        BY <1>2, <3>1, <4>2 DEF Well, RegNames
      <4> QED
        BY <4>1, <4>2
    <3>3. x.reg = "yEnd" => x.val <= reg'.yEnd
      <4>1. CASE x.reg = "yEnd" /\ h.reg = "yEnd"
        BY <1>1, <1>6, <3>1, <4>1 DEF Agree, Well
      <4>2. CASE x.reg = "yEnd" /\ h.reg # "yEnd"
        BY <1>2, <3>1, <4>2 DEF Well, RegNames
      <4> QED
        BY <4>1, <4>2
    <3> QED
      BY <1>3, <3>1, <3>2, <3>3 DEF Well, Grid
  <2>2. Range(todo') \subseteq Range(todo) /\ todo' \in Seq(Range(todo'))
    BY <1>1, InRange
  <2>3. {x \in Range(todo') : Well(x)'} = Range(todo')
    BY <2>1, <2>2
  <2>4. Agree(Range(todo))'
    BY <1>1 DEF Agree
  <2> QED
    BY <2>2, <2>3, <2>4 DEF TodoInv
<1>14. PlanInv'
  BY <1>0, <1>3, <1>7, <1>8 DEF PlanInv
<1>15. WebInv'
  BY <1>0, <1>3, WebKept
<1> QED
  BY <1>12, <1>13, <1>14, <1>15 DEF TInv
\* A write that is lost, and with it those the code then leaves out.
LEMMA LoseKeeps ==
  ASSUME TInv, Lose
  PROVE  TInv'
<1>0. WebInv /\ RegInv /\ TodoInv /\ PlanInv
  BY DEF TInv
<1>1. /\ Tail(todo) \in Seq(Range(todo)) /\ <<>> \in Seq(Range(todo))
      /\ \A x \in Range(todo) : Well(x)
      /\ Agree(Range(todo))
  BY <1>0, NextWrite DEF Lose
<1>2. todo' \in Seq(Range(todo)) /\ reg' = reg /\ UNCHANGED <<sensorFS, pc, plan, web, base>>
  BY <1>1 DEF Lose
<1>3. RegInv' /\ TodoInv'
  BY <1>0, <1>1, <1>2, NewWrites
<1>4. PlanInv'
  BY <1>0, <1>2 DEF PlanInv, RowFloor, RowsRead, Binned
<1> QED
  BY <1>0, <1>2, <1>3, <1>4, WebKept DEF TInv

\* The web server touches no register.
LEMMA WebKeeps ==
  ASSUME TInv, Web
  PROVE  TInv'
<1>0. WebInv /\ RegInv /\ TodoInv /\ PlanInv
  BY DEF TInv
<1>1. UNCHANGED <<reg, sensorFS, todo, pc, plan, nightHtsBase, nightHtsFS>>
  BY DEF Web, base
<1>2. RegInv' /\ TodoInv' /\ PlanInv'
  BY <1>0, <1>1 DEF RegInv, TodoInv, PlanInv, Well, RowFloor, RowsRead, Binned, Grid
<1>3. \A a, b \in Nat \ {0} : Lower(a, b) \in Nat \ {0}
  BY DEF Lower
<1>4. Rates \subseteq Nat \ {0} /\ Long \subseteq Nat \ {0}
  BY TimingAssumption
<1>5. \A fs \in Sizes : Driver[fs].maxFPS \in Nat \ {0}
  BY SizeFacts
<1>6. nightFrameMs > 0 => nightPrev.fs \in Sizes /\ nightPrev.fps \in Nat \ {0}
  BY <1>0 DEF WebInv
<1> USE DEF WebInv
<1>7. ASSUME NEW fs \in Sizes, SetSize(fs) PROVE WebInv'
  <2>1. captureFPS' \in Nat \ {0}
    <3>1. captureFPS' = Lower(IF nightFrameMs > 0 THEN nightPrev.fps ELSE captureFPS, Driver[fs].maxFPS)
      BY <1>7 DEF SetSize
    <3> QED
      BY <1>0, <1>3, <1>5, <1>6, <3>1
  <2> QED
    BY <1>0, <1>1, <1>7, <2>1 DEF SetSize, NoPrev
<1>8. ASSUME NEW r \in Rates, SetRate(r) PROVE WebInv'
  <2>1. captureFPS' \in Nat \ {0}
    BY <1>0, <1>3, <1>4, <1>5, <1>8 DEF SetRate
  <2> QED
    BY <1>0, <1>1, <1>6, <1>8, <2>1 DEF SetRate, NoPrev
<1>9. ASSUME NEW fs \in Sizes, NEW ms \in Long, NightEnter(fs, ms) PROVE WebInv'
  <2>1. nightFrameMs' \in Nat
    BY <1>3, <1>4, <1>9 DEF NightEnter, NIGHT_MAX_MS
  <2>2. nightPrev' \in [fs : Sizes, fps : Nat \ {0}] /\ nightPrev' # NoPrev
    <3>1. CASE nightPrev = NoPrev
      <4>1. nightPrev' = [fs |-> fsizePtr, fps |-> captureFPS]
        BY <1>9, <3>1 DEF NightEnter
      <4> QED
        BY <1>0, <4>1 DEF NoPrev
    <3>2. CASE nightPrev # NoPrev
      BY <1>0, <1>9, <3>2 DEF NightEnter
    <3> QED
      BY <3>1, <3>2
  <2> QED
    BY <1>0, <1>1, <1>9, <2>1, <2>2 DEF NightEnter
<1>10. ASSUME NightExit PROVE WebInv'
  BY <1>0, <1>1, <1>6, <1>10 DEF NightExit, NightOff, NoPrev
<1>11. WebInv'
  BY <1>7, <1>8, <1>9, <1>10 DEF Web
<1> QED
  BY <1>2, <1>11 DEF TInv
----------------------------------------------------------------------------
(* The parts of the tuning.                                                *)

\* The size first, or a retime at the size that is there.
LEMMA SettleKeeps ==
  ASSUME TInv, Settle
  PROVE  TInv'
<1>0. WebInv /\ RegInv /\ TodoInv /\ PlanInv
  BY DEF TInv
<1>1. todo = <<>> /\ todo' = <<>> /\ pc' = "size"
  BY DEF Settle
<1>2. WebInv'
  BY <1>0 DEF WebInv, Settle, base
<1>3. RegInv'
  <2>1. CASE sensorFS' = fsizePtr /\ reg' = DriverRegs(fsizePtr)
    <3>1. fsizePtr \in Sizes
      BY <1>0 DEF WebInv
    <3>2. (\A fs \in Sizes : reg = DriverRegs(fs) /\ sensorFS = fs => RegInv)'
      BY DriverRegsWell, PTL
    <3> QED
      BY <2>1, <3>1, <3>2
  <2>2. CASE UNCHANGED <<sensorFS, reg>>
    BY <1>0, <2>2 DEF RegInv, RowFloor, RowsRead, Binned, Grid
  <2> QED
    BY <2>1, <2>2 DEF Settle
<1>4. TodoInv'
  <2>1. todo' \in Seq({x \in Range(todo') : Well(x)'}) /\ Range(todo') = {}
    BY <1>1 DEF Range
  <2> QED
    BY <2>1 DEF TodoInv, Agree
<1>5. PlanInv'
  BY <1>1 DEF PlanInv
<1> QED
  BY <1>2, <1>3, <1>4, <1>5 DEF TInv

\* A part that is not followed by one that needs the plan.
LEMMA Part ==
  ASSUME TInv, NEW from, NEW to, NEW writes, to # "frame",
         Step(from, to, writes), UNCHANGED base,
         NEW S, writes \in Seq(S), \A x \in S : Well(x), Agree(S)
  PROVE  TInv' /\ Range(todo') \subseteq S
<1>0. WebInv /\ RegInv /\ TodoInv /\ PlanInv
  BY DEF TInv
<1>1. UNCHANGED <<reg, sensorFS, web, base>> /\ pc' = to /\ todo' = writes
  BY DEF Step
<1>2. RegInv' /\ TodoInv'
  BY <1>0, <1>1, NewWrites
<1>3. WebInv'
  BY <1>0, <1>1, WebKept
<1>4. Range(todo') \subseteq S
  BY <1>1, InRange
<1> QED
  BY <1>1, <1>2, <1>3, <1>4 DEF TInv, PlanInv
\* A write of a register that only has to be one.
LEMMA Indifferent ==
  ASSUME NEW name \in RegNames \ {"hts", "vts", "ySt", "yEnd", "cols", "yOff"}, NEW v
  PROVE  Well(w(name, v)) /\ w(name, v).reg = name
  BY DEF Well, w

\* The two bytes of a line of at least the shortest.
LEMMA LineWell ==
  ASSUME NEW v \in Nat, v >= HTS_LEAST
  PROVE  Well(hi("hts", v)) /\ Well(lo("hts", v))
  BY DEF Well, hi, lo, Hi, Lo, HTS_LEAST, RegNames

\* In either order they are writes of the line, and well.
LEMMA InOrderWell ==
  ASSUME NEW old \in Nat, NEW v \in Nat, v >= HTS_LEAST
  PROVE  InOrder("hts", old, v) \in Seq({hi("hts", v), lo("hts", v)})
<1>1. \A a, b : /\ <<a, b>> \in Seq({a, b}) /\ <<b, a>> \in Seq({a, b})
               /\ <<>> \in Seq({a, b})
  OBVIOUS
<1>2. InOrder("hts", old, v) \in {<<hi("hts", v), lo("hts", v)>>, <<lo("hts", v), hi("hts", v)>>, <<>>}
  BY DEF InOrder
<1> QED
  BY <1>1, <1>2

\* The two bytes of a frame length.
LEMMA VtsWell ==
  ASSUME NEW v
  PROVE  \E S : /\ WriteVts(v) \in Seq(S)
                /\ \A x \in S : Well(x) /\ x.reg = "vts"
<1>1. WriteVts(v) \in Seq({hi("vts", v), lo("vts", v)})
  BY DEF WriteVts
<1>2. \A x \in {hi("vts", v), lo("vts", v)} : Well(x) /\ x.reg = "vts"
  BY DEF Well, hi, lo, RegNames
<1> QED
  BY <1>1, <1>2

\* setOutputSize().
LEMMA OutputSizeKeeps ==
  ASSUME TInv, ApplyOutputSize
  PROVE  TInv' /\ Plain'
<1> DEFINE x == w("outH", Driver[sensorFS].outH)
           ws == IF sensorFS = "1280X960" THEN <<x>> ELSE <<>>
<1>1. Well(x) /\ x.reg = "outH"
  BY Indifferent DEF RegNames
<1>2. Step("size", "crop", ws) /\ UNCHANGED <<plan, base>>
  BY DEF ApplyOutputSize
<1> HIDE DEF x
<1>3. <<x>> \in Seq({x}) /\ <<>> \in Seq({x})
  OBVIOUS
<1>4. Agree({x}) /\ \A y \in {x} : Well(y) /\ y.reg \notin Pll
  BY <1>1 DEF Agree, Pll
<1>5. ws \in Seq({x})
  BY <1>3
<1> HIDE DEF ws
<1> QED
  BY <1>2, <1>4, <1>5, Part DEF Plain

\* The cut window lies in the window there is, on the same grid.
LEMMA CropFits ==
  ASSUME WebInv, RegInv, Crops(sensorFS)
  PROVE  /\ CropCols(sensorFS) \in Nat
         /\ CropStart(sensorFS) \in Nat /\ CropStart(sensorFS) >= reg.ySt
         /\ CropStart(sensorFS) % Grid(sensorFS) = 0
         /\ CropRows(sensorFS) \in Nat
         /\ CropStart(sensorFS) + CropRows(sensorFS) - 1 <= reg.yEnd
<1> DEFINE d == Driver[sensorFS]
           rows == CropRows(sensorFS)
           st == reg.ySt + (RowsRead - rows) \div 2
<1>1. /\ d.ss \in {1, 2} /\ d.pre \in Nat /\ d.outH \in Nat /\ d.outW \in Nat \ {0}
      /\ d.xOff \in Nat
  BY SizeFacts DEF WebInv
<1>2. reg.ySt \in Nat /\ reg.yOff \in Nat /\ reg.yEnd \in Int /\ reg.ySt % Grid(sensorFS) = 0
  BY DEF RegInv
<1>3. CropCols(sensorFS) \in Nat
  <2> DEFINE c == IF d.pre > 0 THEN d.pre ELSE d.outW
  <2>1. c \in Nat /\ 2 * d.xOff \in Nat
    BY <1>1
  <2>2. CropCols(sensorFS) = (c + 2 * d.xOff) * d.ss
    BY DEF CropCols
  <2> HIDE DEF c, d
  <2> QED
    BY <1>1, <2>1, <2>2
<1>4. rows \in Nat
  <2> DEFINE r == IF d.pre > 0 THEN (d.pre * d.outH) \div d.outW ELSE d.outH
  <2>1. r \in Nat
    <3>1. \A a, b \in Nat : \A e \in Nat \ {0} : (a * b) \div e \in Nat
      <4>1. \A a, b \in Nat : a * b \in Nat
        OBVIOUS
      <4>2. \A n \in Nat : \A e \in Nat \ {0} : n \div e \in Nat
        OBVIOUS
      <4> QED
        BY <4>1, <4>2
    <3> QED
      BY <1>1, <3>1
  <2>2. rows = (r + 2 * reg.yOff) * d.ss
    BY DEF CropRows
  <2> HIDE DEF r, d
  <2> QED
    BY <1>1, <1>2, <2>1, <2>2
<1>5. rows <= RowsRead /\ RowsRead = reg.yEnd - reg.ySt + 1
  BY DEF Crops, RowsRead
<1>6. st \in Nat /\ st >= reg.ySt /\ st + rows - 1 <= reg.yEnd
  <2> HIDE DEF rows
  <2> QED
    BY <1>2, <1>4, <1>5
<1>7. CropStart(sensorFS) = st - (st % Grid(sensorFS))
  BY DEF CropStart, Grid
<1>8. Grid(sensorFS) \in {2, 4}
  BY <1>1 DEF Grid
<1>9. \A a, b \in Nat : \A g \in {2, 4} :
        a % g = 0 /\ b >= a => /\ b - (b % g) \in Nat /\ b - (b % g) >= a /\ b - (b % g) <= b
                               /\ (b - (b % g)) % g = 0
  OBVIOUS
<1> HIDE DEF st, rows
<1>10. /\ CropStart(sensorFS) \in Nat /\ CropStart(sensorFS) >= reg.ySt
       /\ CropStart(sensorFS) <= st /\ CropStart(sensorFS) % Grid(sensorFS) = 0
  BY <1>2, <1>6, <1>7, <1>8, <1>9
<1>11. CropStart(sensorFS) + rows - 1 <= reg.yEnd
  BY <1>2, <1>4, <1>6, <1>10
<1> QED
  BY <1>3, <1>4, <1>10, <1>11 DEF rows

\* The window is cut: never for HDV2, which is binned and has no wanted input.
LEMMA CropWindowKeeps ==
  ASSUME TInv, ApplyCropWindow
  PROVE  TInv' /\ Plain'
<1>0. WebInv /\ RegInv /\ UNCHANGED <<plan, base>>
  BY DEF TInv, ApplyCropWindow
<1>1. CASE Crops(sensorFS)
  <2> DEFINE c == CropCols(sensorFS)
             st == CropStart(sensorFS)
             en == CropStart(sensorFS) + CropRows(sensorFS) - 1
             S == {w("cols", c), w("ySt", st), w("yEnd", en)}
  <2>1. /\ c \in Nat /\ st \in Nat /\ st >= reg.ySt /\ st % Grid(sensorFS) = 0
        /\ en \in Int /\ en <= reg.yEnd
    BY <1>0, <1>1, CropFits
  <2>2. Step("crop", "cropRest", <<w("cols", c), w("ySt", st), w("yEnd", en)>>)
    BY <1>1 DEF ApplyCropWindow
  <2>3. sensorFS # "HDV2"
    BY <1>0, <1>1, SizeFacts DEF Crops, Binned, WebInv
  <2> HIDE DEF c, st, en
  <2>4. Well(w("cols", c)) /\ Well(w("ySt", st)) /\ Well(w("yEnd", en))
    BY <2>1, <2>3 DEF Well, w, RegNames
  <2>5. Agree(S)
    BY DEF Agree, w
  <2>6. <<w("cols", c), w("ySt", st), w("yEnd", en)>> \in Seq(S)
    OBVIOUS
  <2>7. \A x \in S : Well(x) /\ x.reg \notin Pll
    BY <2>4 DEF w, Pll
  <2> HIDE DEF S
  <2> QED
    BY <1>0, <2>2, <2>5, <2>6, <2>7, Part DEF Plain
<1>2. CASE ~Crops(sensorFS)
  <2>1. Step("crop", "rows", <<>>)
    BY <1>2 DEF ApplyCropWindow
  <2> DEFINE S == {}
  <2>2. <<>> \in Seq(S) /\ Agree(S) /\ \A x \in S : Well(x)
    BY DEF Agree
  <2> HIDE DEF S
  <2>3. TInv' /\ Range(todo') \subseteq S
    BY <1>0, <2>1, <2>2, Part
  <2> QED
    BY <2>3 DEF Plain, S
<1> QED
  BY <1>1, <1>2
\* The frame, the scaler and the line that follow the cut.
LEMMA CropRestKeeps ==
  ASSUME TInv, ApplyCropRest
  PROVE  TInv' /\ Plain'
<1> DEFINE d == Driver[sensorFS]
           floor == Higher(reg.cols + 76, HTS_FLOOR_FULLRES)
           A == WriteVts(RowFloor(sensorFS))
           B == IF (d.pre = 0 \/ d.pre = d.outW) /\ reg.scaler THEN <<w("scaler", FALSE)>> ELSE <<>>
           C == IF ~Binned(sensorFS) /\ reg.hts > floor
                THEN <<hi("hts", floor), lo("hts", floor)>> ELSE <<>>
<1>0. RegInv /\ UNCHANGED <<plan, base>>
  BY DEF TInv, ApplyCropRest
<1>1. Step("cropRest", "rows", A \o B \o C) \/ Step("cropRest", "rows", <<>>)
  BY DEF ApplyCropRest
<1>2. floor \in Nat /\ floor >= HTS_LEAST
  BY <1>0 DEF RegInv, Higher, HTS_FLOOR_FULLRES, HTS_LEAST
<1>3. PICK S : A \in Seq(S) /\ \A x \in S : Well(x) /\ x.reg = "vts"
  <2>1. RowFloor(sensorFS) \in Int /\ RowFloor(sensorFS) >= RowFloor(sensorFS)
    BY <1>0 DEF RegInv, RowFloor, RowsRead
  <2> QED
    BY <2>1, VtsWell
<1>4. Well(w("scaler", FALSE)) /\ w("scaler", FALSE).reg = "scaler"
  BY Indifferent DEF RegNames
<1>5. /\ Well(hi("hts", floor)) /\ Well(lo("hts", floor))
      /\ hi("hts", floor).reg = "hts" /\ lo("hts", floor).reg = "hts"
  BY <1>2, LineWell DEF hi, lo
<1> DEFINE s == w("scaler", FALSE)
           h == hi("hts", floor)
           l == lo("hts", floor)
           T == S \cup {s, h, l}
<1> HIDE DEF s, h, l
<1>6. \A x \in T : Well(x) /\ x.reg \notin Pll
  BY <1>3, <1>4, <1>5 DEF s, h, l, Pll
<1>7. Agree(T)
  BY <1>3, <1>4, <1>5 DEF s, h, l, Agree
<1> HIDE DEF A
<1>8. A \in Seq(T)
  BY <1>3
<1>9. <<s>> \in Seq(T) /\ <<h, l>> \in Seq(T) /\ <<>> \in Seq(T)
  OBVIOUS
<1>10. B \in Seq(T) /\ C \in Seq(T)
  BY <1>9 DEF s, h, l
<1> HIDE DEF T, B, C
<1>11. A \o B \o C \in Seq(T)
  BY <1>8, <1>10
<1> QED
  BY <1>0, <1>1, <1>6, <1>7, <1>9, <1>11, Part DEF Plain

\* HDV2's window, which lies in the one it has.
LEMMA TightRowsKeeps ==
  ASSUME TInv, ApplyTightRows
  PROVE  TInv' /\ Plain'
<1> DEFINE a == w("scaler", TRUE)
           b == w("yOff", 0)
           c == w("ySt", 256)
           e == w("yEnd", 1695)
           f == w("scaler", FALSE)
           S == {a, b, c, e, f}
<1>0. WebInv /\ RegInv /\ UNCHANGED <<plan, base>>
  BY DEF TInv, ApplyTightRows
<1>1. CASE sensorFS = "HDV2" /\ Step("rows", "line", <<a, b, c, e, f>>)
  <2>1. Well(a) /\ Well(f)
    BY Indifferent DEF RegNames
  <2>2. Well(b)
    BY DEF Well, w, RegNames
  <2>3. reg.ySt <= 256 /\ reg.yEnd >= 1695 /\ reg.ySt \in Nat /\ reg.yEnd \in Int
    BY <1>0, <1>1 DEF RegInv
  <2>4. Grid(sensorFS) = 4
    BY <1>0, <1>1, SizeFacts DEF WebInv, Grid
  <2>5. Well(c)
    BY <2>3, <2>4 DEF Well, w, RegNames
  <2>6. Well(e)
    BY <2>3 DEF Well, w, RegNames
  <2>7. Agree(S)
    BY DEF Agree, w
  <2> HIDE DEF a, b, c, e, f
  <2>8. <<a, b, c, e, f>> \in Seq(S)
    OBVIOUS
  <2>9. \A x \in S : Well(x) /\ x.reg \notin Pll
    <3>1. {a.reg, b.reg, c.reg, e.reg, f.reg} \cap Pll = {}
      BY DEF a, b, c, e, f, w, Pll
    <3> QED
      BY <2>1, <2>2, <2>5, <2>6, <3>1
  <2> HIDE DEF S
  <2> QED
    BY <1>0, <1>1, <2>7, <2>8, <2>9, Part DEF Plain
<1>2. CASE Step("rows", "line", <<>>)
  <2> DEFINE nothing == {}
  <2>1. <<>> \in Seq(nothing) /\ Agree(nothing) /\ \A x \in nothing : Well(x)
    BY DEF Agree
  <2> HIDE DEF nothing
  <2>2. TInv' /\ Range(todo') \subseteq nothing
    BY <1>0, <1>2, <2>1, Part
  <2> QED
    BY <2>2 DEF Plain, nothing
<1> QED
  BY <1>1, <1>2 DEF ApplyTightRows

\* The two bytes of a line agree on the window, which they do not touch.
LEMMA LineAgrees == \A v : Agree({hi("hts", v), lo("hts", v)})
  BY DEF Agree, hi, lo

\* The line of a binned size.
LEMMA HtsFloorKeeps ==
  ASSUME TInv, ApplyHtsFloor
  PROVE  TInv' /\ Plain'
<1> DEFINE v == HtsFloorFor(sensorFS)
           S == {hi("hts", v), lo("hts", v)}
           ws == IF Binned(sensorFS) THEN InOrder("hts", reg.hts, v) ELSE <<>>
<1>0. RegInv /\ UNCHANGED <<plan, base>>
  BY DEF TInv, ApplyHtsFloor
<1>1. v \in Nat /\ v >= HTS_LEAST /\ reg.hts \in Nat
  BY <1>0 DEF HtsFloorFor, HTS_FLOOR, HTS_LEAST, RegInv
<1>2. Step("line", "retime", ws)
  BY DEF ApplyHtsFloor
<1> HIDE DEF v
<1>3. Agree(S) /\ \A x \in S : Well(x) /\ x.reg \notin Pll
  BY <1>1, LineWell, LineAgrees DEF hi, lo, Pll
<1>4. InOrder("hts", reg.hts, v) \in Seq(S)
  BY <1>1, InOrderWell
<1> HIDE DEF S
<1>5. ws \in Seq(S)
  BY <1>4
<1> HIDE DEF ws
<1> QED
  BY <1>0, <1>2, <1>3, <1>5, Part DEF Plain
----------------------------------------------------------------------------
(* The retime.                                                             *)

\* A frame length is a number: the line and the rate are positive.
LEMMA VtsIsNumber ==
  ASSUME NEW kHz \in Nat, NEW hts \in Nat, hts >= HTS_LEAST, NEW fs, NEW fps \in Nat \ {0}
  PROVE  VtsAt(kHz, hts, fs, fps) \in Int
<1> DEFINE a == hts * LineFactor(fs)
           b == a * fps
           c == b * FpsOverdrive(fps)
<1>1. a \in Nat /\ a >= 2048
  BY DEF LineFactor, HTS_LEAST
<1> HIDE DEF a
<1>2. \A m, n \in Nat : n >= 1 => m * n \in Nat /\ m * n >= m
  OBVIOUS
<1>3. b \in Nat /\ b >= 2048
  BY <1>1, <1>2
<1>4. FpsOverdrive(fps) \in Nat /\ FpsOverdrive(fps) >= 1
  BY DEF FpsOverdrive, Lower, Higher
<1> HIDE DEF b
<1>5. c \in Nat /\ c >= 2048
  BY <1>2, <1>3, <1>4
<1>6. VtsAt(kHz, hts, fs, fps) = (kHz * 10000) \div (c \div 100)
  BY DEF VtsAt, a, b
<1> HIDE DEF c
<1>7. c \div 100 \in Nat \ {0}
  BY <1>5
<1>8. \A m \in Int : \A n \in Nat \ {0} : m \div n \in Int
  OBVIOUS
<1> QED
  BY <1>6, <1>7, <1>8

\* By day the frame covers the window, whatever clock is chosen, and the line is
\* the one it is given.
LEMMA DayCovers ==
  ASSUME NEW fs \in Sizes, NEW fps \in Nat \ {0}, NEW hts \in Nat, hts >= HTS_LEAST,
         RowFloor(fs) \in Int
  PROVE  /\ DayPlan(fs, fps, hts).vts \in Int
         /\ DayPlan(fs, fps, hts).vts >= RowFloor(fs)
         /\ DayPlan(fs, fps, hts).hts = hts
<1> DEFINE vts == VtsAt(80000, hts, fs, fps)
           fast == VtsAt(88000, hts, fs, fps)
           floor == VtsFloor(fs)
           target == Higher(AEC_VTS_CEIL, floor)
           kHz == ClockFor(target, hts, fs, fps)
<1>1. vts \in Int /\ fast \in Int
  BY VtsIsNumber
<1>2. floor \in Int /\ floor >= RowFloor(fs)
  BY DEF VtsFloor, Higher
<1>3. \A n \in Int : Higher(n, floor) \in Int /\ Higher(floor, n) \in Int
                   /\ Higher(n, floor) >= floor /\ Higher(floor, n) >= floor
  BY <1>2 DEF Higher
<1>4. DayPlan(fs, fps, hts) =
        CASE vts > AEC_VTS_CEIL /\ kHz < 10000 -> Planned("A", SLOW, hts, target)
          [] vts > AEC_VTS_CEIL /\ kHz >= 10000 /\ Dividers(kHz) # {} ->
                Planned("A", PickPll(kHz), hts, target)
          [] vts < floor /\ RouteB(fs) ->
                Planned("B", ROUTE_B, hts, Higher(floor, fast))
          [] OTHER -> Planned("A", FAST, hts, Higher(floor, vts))
  BY DEF DayPlan
<1>5. target \in Int /\ target >= floor
  BY <1>3 DEF AEC_VTS_CEIL
<1> HIDE DEF vts, fast, floor, target, kHz
<1>6. \/ DayPlan(fs, fps, hts) = Planned("A", SLOW, hts, target)
      \/ DayPlan(fs, fps, hts) = Planned("A", PickPll(kHz), hts, target)
      \/ DayPlan(fs, fps, hts) = Planned("B", ROUTE_B, hts, Higher(floor, fast))
      \/ DayPlan(fs, fps, hts) = Planned("A", FAST, hts, Higher(floor, vts))
  BY <1>4
<1> QED
  BY <1>1, <1>2, <1>3, <1>5, <1>6 DEF Planned

\* The writes of the PLL are indifferent to the window.
LEMMA PllWell ==
  ASSUME NEW p
  PROVE  \E S : PllWrites(p) \in Seq(S) /\ \A x \in S : Well(x) /\ x.reg \in Pll
<1> DEFINE a == w("route", "A")
           b == w("sysDiv", p.sysDiv)
           c == w("mul", p.mul)
           e == w("route", "B")
           S == {a, b, c, e}
<1>1. \A x \in S : Well(x) /\ x.reg \in Pll
  BY Indifferent DEF RegNames, Pll
<1> HIDE DEF a, b, c, e
<1>2. <<a>> \in Seq(S) /\ <<b, c>> \in Seq(S) /\ <<e>> \in Seq(S) /\ <<>> \in Seq(S)
  OBVIOUS
<1> HIDE DEF S
<1> DEFINE X == IF p.route = "A" THEN <<a>> ELSE <<>>
           Y == IF p.route = "B" THEN <<e>> ELSE <<>>
<1>3. PllWrites(p) = X \o <<b, c>> \o Y
  BY DEF PllWrites, a, b, c, e
<1>4. X \in Seq(S) /\ Y \in Seq(S)
  BY <1>2
<1> HIDE DEF X, Y
<1> QED
  BY <1>1, <1>2, <1>3, <1>4
\* The session's line is no shorter than the one it lengthens, and by day the
\* line is the size's own.
LEMMA TunedTimingKeeps ==
  ASSUME TInv, ApplyTunedTiming
  PROVE  TInv'
<1> DEFINE fs == sensorFS
           back == GivesBack(fs)
           own == IF back THEN nightHtsBase ELSE reg.hts
           capture == NightRuns(fs) /\ ~(nightHtsBase > 0 /\ nightHtsFS = fs)
           p == IF NightRuns(fs) THEN Planned("A", SLOW, NightLine(fs), AEC_VTS_CEIL)
                ELSE DayPlan(fs, captureFPS, own)
<1>0. WebInv /\ RegInv
  BY DEF TInv
<1>1. /\ plan' = p /\ Step("retime", "frame", PllWrites(p))
      /\ nightHtsBase' = IF back THEN 0 ELSE IF capture THEN reg.hts ELSE nightHtsBase
  BY DEF ApplyTunedTiming
<1>2. UNCHANGED <<reg, sensorFS, web>> /\ pc' = "frame" /\ todo' = PllWrites(p)
  BY <1>1 DEF Step
<1>3. reg.hts \in Nat /\ reg.hts >= HTS_LEAST
  BY <1>0 DEF RegInv
<1>4. nightHtsBase \in Nat /\ (nightHtsBase > 0 => nightHtsBase >= HTS_LEAST)
  BY <1>0 DEF WebInv
<1>5. own \in Nat /\ own >= HTS_LEAST
  BY <1>3, <1>4 DEF GivesBack
<1>6. RowFloor(fs) \in Int /\ RowFloor(fs) <= AEC_VTS_CEIL
  BY <1>0 DEF RegInv, RowFloor, RowsRead
<1>7. /\ p.vts \in Int /\ p.vts >= RowFloor(fs)
      /\ p.hts \in Nat /\ p.hts >= HTS_LEAST
  <2>1. CASE NightRuns(fs)
    <3>1. p = Planned("A", SLOW, NightLine(fs), AEC_VTS_CEIL)
      BY <2>1
    <3>2. NightLine(fs) \in Nat /\ NightLine(fs) >= HTS_LEAST
      <4> DEFINE mine == IF nightHtsBase > 0 /\ nightHtsFS = fs THEN nightHtsBase ELSE reg.hts
                 needed == (nightFrameMs * NIGHT_KHZ + AEC_VTS_CEIL) \div (2 * AEC_VTS_CEIL)
      <4>1. mine \in Nat /\ mine >= HTS_LEAST
        BY <1>3, <1>4
      <4>2. needed \in Nat
        BY <1>0 DEF WebInv, NIGHT_KHZ, AEC_VTS_CEIL
      <4>3. NightLine(fs) = Lower(NIGHT_HTS_MAX, Higher(needed, mine))
        BY DEF NightLine
      <4> HIDE DEF mine, needed
      <4> QED
        BY <4>1, <4>2, <4>3 DEF Lower, Higher, NIGHT_HTS_MAX, HTS_LEAST
    <3> QED
      BY <1>6, <3>1, <3>2 DEF Planned, AEC_VTS_CEIL
  <2>2. CASE ~NightRuns(fs)
    <3>1. p = DayPlan(fs, captureFPS, own)
      BY <2>2
    <3>2. captureFPS \in Nat \ {0} /\ fs \in Sizes
      BY <1>0 DEF WebInv
    <3> HIDE DEF own, fs
    <3> QED
      BY <1>5, <1>6, <3>1, <3>2, DayCovers
  <2> QED
    BY <2>1, <2>2
<1>8. WebInv'
  <2>1. nightHtsBase' \in {0} \cup {n \in Nat : n >= HTS_LEAST}
    BY <1>0, <1>1, <1>3 DEF WebInv
  <2> QED
    BY <1>0, <1>2, <2>1 DEF WebInv, web
<1>9. RegInv' /\ TodoInv'
  <2>1. PICK S : PllWrites(p) \in Seq(S) /\ \A x \in S : Well(x) /\ x.reg \in Pll
    BY PllWell
  <2>2. Agree(S)
    BY <2>1 DEF Agree, Pll
  <2> HIDE DEF p
  <2> QED
    BY <1>0, <1>2, <2>1, <2>2, NewWrites
<1>10. PlanInv'
  <2> HIDE DEF p
  <2> QED
    BY <1>1, <1>2, <1>7 DEF PlanInv, RowFloor, RowsRead, Binned
<1> QED
  BY <1>8, <1>9, <1>10 DEF TInv

\* The line, then the frame, when the PLL is as it was planned.
LEMMA FrameKeeps ==
  ASSUME TInv, ApplyFrame
  PROVE  TInv' /\ Plain'
<1> DEFINE L == InOrder("hts", reg.hts, plan.hts)
           V == WriteVts(plan.vts)
           ws == IF reg.mul = plan.mul /\ reg.route = plan.route THEN L \o V ELSE <<>>
           H == {hi("hts", plan.hts), lo("hts", plan.hts)}
<1>0. RegInv /\ PlanInv /\ pc = "frame" /\ UNCHANGED <<plan, base>> /\ Step("frame", "aec", ws)
  BY DEF TInv, ApplyFrame, Step
<1>1. /\ plan.vts \in Int /\ plan.vts >= RowFloor(sensorFS)
      /\ plan.hts \in Nat /\ plan.hts >= HTS_LEAST /\ reg.hts \in Nat
  BY <1>0 DEF PlanInv, RegInv
<1>2. L \in Seq(H) /\ \A x \in H : Well(x) /\ x.reg = "hts"
  <2>1. L \in Seq(H)
    BY <1>1, InOrderWell
  <2>2. Well(hi("hts", plan.hts)) /\ Well(lo("hts", plan.hts))
    BY <1>1, LineWell
  <2>3. hi("hts", plan.hts).reg = "hts" /\ lo("hts", plan.hts).reg = "hts"
    BY DEF hi, lo
  <2> QED
    BY <2>1, <2>2, <2>3
<1>3. PICK S : V \in Seq(S) /\ \A x \in S : Well(x) /\ x.reg = "vts"
  BY <1>1, VtsWell
<1> DEFINE T == H \cup S
<1>4. (\A x \in T : Well(x) /\ x.reg \notin Pll) /\ Agree(T)
  BY <1>2, <1>3 DEF Agree, Pll
<1> HIDE DEF L, V, H
<1>5. L \in Seq(T) /\ V \in Seq(T)
  BY <1>2, <1>3
<1> HIDE DEF T
<1>6. ws \in Seq(T)
  BY <1>5
<1> HIDE DEF ws
<1> QED
  BY <1>0, <1>4, <1>6, Part DEF Plain

\* A scaler size keeps its frame and its line: only the PLL is written.
LEMMA ScalerClockKeeps ==
  ASSUME TInv, ApplyScalerClock
  PROVE  TInv'
<1> DEFINE pll == ScalerPll(ClockFor(reg.vts, reg.hts, sensorFS, captureFPS))
           p == Planned("A", pll, reg.hts, reg.vts)
<1>1. Step("retime", "aec", PllWrites(p)) /\ UNCHANGED base
  BY DEF ApplyScalerClock
<1> HIDE DEF p
<1>2. PICK S : PllWrites(p) \in Seq(S) /\ \A x \in S : Well(x) /\ x.reg \in Pll
  BY PllWell
<1>3. Agree(S)
  BY <1>2 DEF Agree, Pll
<1> QED
  BY <1>1, <1>2, <1>3, Part

\* The limits of the exposure say nothing of the window.
LEMMA AecLimitsKeeps ==
  ASSUME TInv, ApplyAecLimits
  PROVE  TInv' /\ Plain'
<1>1. PICK q, b : /\ \/ Step("aec", "idle", <<w("damped", q)>> \o <<w("aec", b)>>)
                     \/ Step("aec", "idle", <<w("damped", q)>> \o <<>>)
                  /\ UNCHANGED <<plan, base>>
  <2> DEFINE b50 == LinesPer(100)
             b60 == LinesPer(120)
  <2> DEFINE q == nightFrameMs > 0
             b == [maxExp |-> MaxExposure, b50 |-> b50, b60 |-> b60,
                   n50 |-> Lower(63, MaxExposure \div b50),
                   n60 |-> Lower(63, MaxExposure \div b60)]
  <2>1. /\ \/ Step("aec", "idle", <<w("damped", q)>> \o <<w("aec", b)>>)
           \/ Step("aec", "idle", <<w("damped", q)>> \o <<>>)
        /\ UNCHANGED <<plan, base>>
    BY DEF ApplyAecLimits
  <2> HIDE DEF q, b
  <2> QED
    BY <2>1
<1> DEFINE x == w("damped", q)
           y == w("aec", b)
           S == {x, y}
<1>2. Well(x) /\ Well(y) /\ x.reg = "damped" /\ y.reg = "aec"
  BY Indifferent DEF RegNames
<1>3. (\A z \in S : Well(z) /\ z.reg \notin Pll) /\ Agree(S)
  BY <1>2 DEF Agree, Pll
<1> HIDE DEF x, y
<1>4. <<x>> \in Seq(S) /\ <<y>> \in Seq(S) /\ <<>> \in Seq(S)
  OBVIOUS
<1> HIDE DEF S
<1>5. <<x>> \o <<y>> \in Seq(S) /\ <<x>> \o <<>> \in Seq(S)
  BY <1>4
<1>6. CASE Step("aec", "idle", <<x>> \o <<y>>)
  BY <1>1, <1>3, <1>5, <1>6, Part DEF Plain
<1>7. CASE Step("aec", "idle", <<x>> \o <<>>)
  BY <1>1, <1>3, <1>5, <1>7, Part DEF Plain
<1> QED
  BY <1>1, <1>6, <1>7 DEF x, y
----------------------------------------------------------------------------
(* The window of every frame.                                              *)

LEMMA TInvInit == Init => TInv
<1> SUFFICES ASSUME Init PROVE TInv
  OBVIOUS
<1>1. sensorFS \in Sizes /\ fsizePtr = sensorFS
  BY DEF Init
<1>2. RegInv
  BY <1>1, DriverRegsWell DEF Init
<1>3. captureFPS \in Nat \ {0}
  <2>1. Rates \subseteq Nat \ {0}
    BY TimingAssumption
  <2> QED
    BY <1>1, <2>1, SizeFacts DEF Init, Lower
<1>4. WebInv
  BY <1>1, <1>3 DEF Init, WebInv
<1>5. TodoInv
  <2>1. todo \in Seq({x \in Range(todo) : Well(x)}) /\ Range(todo) = {}
    BY DEF Init, Range
  <2> QED
    BY <2>1 DEF TodoInv, Agree
<1> QED
  BY <1>2, <1>4, <1>5 DEF TInv, PlanInv, Init

LEMMA TInvNext == TInv /\ [Next]_vars => TInv'
<1> SUFFICES ASSUME TInv, [Next]_vars PROVE TInv'
  OBVIOUS
<1>1. CASE Next
  <2>1. Tune => TInv'
    BY SettleKeeps, OutputSizeKeeps, CropWindowKeeps, CropRestKeeps, TightRowsKeeps,
       HtsFloorKeeps, TunedTimingKeeps, FrameKeeps, ScalerClockKeeps, AecLimitsKeeps DEF Tune
  <2> QED
    BY <1>1, <2>1, WebKeeps, WriteKeeps, LoseKeeps DEF Next
<1>2. CASE UNCHANGED vars
  <2>1. RegInv' /\ TodoInv' /\ PlanInv'
    BY <1>2 DEF TInv, vars, RegInv, TodoInv, PlanInv, Well, RowFloor, RowsRead, Binned, Grid
  <2> QED
    BY <1>2, <2>1, WebKept DEF TInv, vars, web, base
<1> QED
  BY <1>1, <1>2

\* The window lies on the grid and the row is no shorter than any of the driver's; and
\* every write still to come leaves it so, whichever are lost.
THEOREM TimingInvariant == Spec => []TInv
  BY TInvInit, TInvNext, PTL DEF Spec

----------------------------------------------------------------------------
(* The clock of route B.                                                   *)

\* Three writes in a row, whether the root divider is the first or the last.
LEMMA Joined ==
  ASSUME NEW a, NEW b, NEW c
  PROVE  <<a>> \o <<b, c>> \o <<>> = <<a, b, c>> /\ <<>> \o <<a, b>> \o <<c>> = <<a, b, c>>
<1> DEFINE S == {a, b, c}
<1>1. /\ <<>> \in Seq(S) /\ <<a>> \in Seq(S) /\ <<c>> \in Seq(S)
      /\ <<b, c>> \in Seq(S) /\ <<a, b>> \in Seq(S) /\ <<a, b, c>> \in Seq(S)
  OBVIOUS
<1>2. <<a>> \o <<b, c>> = <<a, b, c>>
  <2> DEFINE s == <<a>> \o <<b, c>>
             r == <<a, b, c>>
  <2>1. s \in Seq(S) /\ Len(s) = 3 /\ s[1] = a /\ s[2] = b /\ s[3] = c
    BY <1>1, ConcatProperties
  <2>2. r \in Seq(S) /\ Len(r) = 3 /\ r[1] = a /\ r[2] = b /\ r[3] = c
    BY <1>1
  <2> HIDE DEF s, r, S
  <2>3. Len(s) = Len(r) /\ \A i \in 1..Len(s) : s[i] = r[i]
    BY <2>1, <2>2
  <2>4. s = r
    BY <2>1, <2>2, <2>3, SeqEqual
  <2> QED
    BY <2>4 DEF s, r
<1>3. <<a, b>> \o <<c>> = <<a, b, c>>
  <2> DEFINE s == <<a, b>> \o <<c>>
             r == <<a, b, c>>
  <2>1. s \in Seq(S) /\ Len(s) = 3 /\ s[1] = a /\ s[2] = b /\ s[3] = c
    BY <1>1, ConcatProperties
  <2>2. r \in Seq(S) /\ Len(r) = 3 /\ r[1] = a /\ r[2] = b /\ r[3] = c
    BY <1>1
  <2> HIDE DEF s, r, S
  <2>3. Len(s) = Len(r) /\ \A i \in 1..Len(s) : s[i] = r[i]
    BY <2>1, <2>2
  <2>4. s = r
    BY <2>1, <2>2, <2>3, SeqEqual
  <2> QED
    BY <2>4 DEF s, r
<1> HIDE DEF S
<1> QED
  BY <1>1, <1>2, <1>3, ConcatEmptySeq

\* The writes of a plan: route A's, or route B's with its one clock.
LEMMA PllPlanned ==
  ASSUME PllInv, reg' = reg, lost' = lost, NEW p, todo' = PllWrites(p),
         \/ p.route = "A"
         \/ p.route = "B" /\ p.sysDiv = 1 /\ p.mul = 66
  PROVE  PllInv'
<1> DEFINE a == w("route", "A")
           b == w("sysDiv", p.sysDiv)
           c == w("mul", p.mul)
           e == w("route", "B")
<1>1. CASE p.route = "A"
  <2>1. todo' = <<a>> \o <<b, c>> \o <<>>
    BY <1>1 DEF PllWrites
  <2>2. a.reg = "route" /\ a.val = "A" /\ b.reg = "sysDiv" /\ c.reg = "mul"
    BY DEF w
  <2> HIDE DEF a, b, c
  <2>3. todo' = <<a, b, c>>
    BY <2>1, Joined
  <2>4. Range(todo') = {a, b, c} /\ todo' # <<>> /\ Head(todo') = a
    BY <2>3 DEF Range
  <2>5. ToA'
    BY <2>2, <2>4 DEF ToA, a
  <2> QED
    BY <2>5 DEF PllInv
<1>2. CASE p.route = "B"
  <2>1. todo' = <<>> \o <<b, c>> \o <<e>>
    BY <1>2 DEF PllWrites
  <2>2. b = w("sysDiv", 1) /\ c = w("mul", 66)
    BY <1>2
  <2> HIDE DEF a, b, c, e
  <2>3. todo' = <<b, c, e>>
    BY <2>1, Joined
  <2>4. ToB'
    BY <2>2, <2>3 DEF ToB, e
  <2> QED
    BY <2>4 DEF PllInv
<1> QED
  BY <1>1, <1>2

\* Every write on the bus, while none is lost.
LEMMA PllWrite ==
  ASSUME TInv, PllInv, Write
  PROVE  PllInv'
<1> SUFFICES ASSUME lost' = 0 PROVE PllInv'
  BY DEF PllInv, Write
<1> DEFINE h == Head(todo)
<1>0. lost = 0 /\ RegInv /\ TodoInv /\ (reg.route = "B" => reg.sysDiv = 1 /\ reg.mul = 66)
  BY DEF TInv, PllInv, Write
<1>1. /\ h \in Range(todo) /\ Well(h)
      /\ todo' \in Seq(Range(todo)) /\ Range(todo') \subseteq Range(todo)
  BY <1>0, NextWrite DEF Write
<1>2. /\ h.reg \in RegNames
      /\ \A n \in RegNames : reg'[n] = IF n = h.reg THEN Written(reg[n], h) ELSE reg[n]
  BY <1>0, <1>1 DEF Write, RegInv, Well
<1>3. h.reg \in Pll => Written(reg[h.reg], h) = h.val
  BY <1>1 DEF Well, Written, Pll
<1>4. todo # <<>> /\ todo' = Tail(todo)
  BY DEF Write
<1>5. CASE Plain
  <2>1. h.reg \notin Pll /\ Plain'
    BY <1>1, <1>5 DEF Plain
  <2>2. reg'.route = reg.route /\ reg'.sysDiv = reg.sysDiv /\ reg'.mul = reg.mul
    BY <1>2, <2>1 DEF Pll, RegNames
  <2> QED
    BY <1>0, <2>1, <2>2 DEF PllInv
<1>6. CASE ToA
  <2>1. reg'.route = "A"
    <3>1. CASE h.reg = "route"
      BY <1>1, <1>2, <1>3, <1>6, <3>1 DEF ToA, Pll
    <3>2. CASE h.reg # "route"
      <4>1. reg.route = "A"
        BY <1>6, <3>2 DEF ToA, w
      <4> QED
        BY <1>2, <3>2, <4>1 DEF RegNames
    <3> QED
      BY <3>1, <3>2
  <2>2. ToA'
    BY <1>1, <1>6, <2>1 DEF ToA
  <2> QED
    BY <2>1, <2>2 DEF PllInv
<1>7. CASE ToB
  <2> DEFINE b == w("sysDiv", 1)
             c == w("mul", 66)
             e == w("route", "B")
  <2>1. /\ b.reg = "sysDiv" /\ b.val = 1 /\ c.reg = "mul" /\ c.val = 66
        /\ e.reg = "route" /\ e.val = "B"
    BY DEF w
  <2>2. \/ todo = <<b, c, e>>
        \/ todo = <<c, e>> /\ reg.sysDiv = 1
        \/ todo = <<e>> /\ reg.sysDiv = 1 /\ reg.mul = 66
    BY <1>7 DEF ToB
  <2> HIDE DEF b, c, e, h
  <2>3. CASE todo = <<b, c, e>>
    <3>1. h = b /\ todo' = <<c, e>>
      BY <1>4, <2>3 DEF h
    <3>2. /\ reg'.sysDiv = 1 /\ reg'.route = reg.route /\ reg'.mul = reg.mul
      BY <1>2, <1>3, <2>1, <3>1 DEF Pll, RegNames
    <3>3. ToB'
      BY <3>1, <3>2 DEF ToB, c, e
    <3> QED
      BY <1>0, <3>2, <3>3 DEF PllInv
  <2>4. CASE todo = <<c, e>> /\ reg.sysDiv = 1
    <3>1. h = c /\ todo' = <<e>>
      BY <1>4, <2>4 DEF h
    <3>2. /\ reg'.sysDiv = 1 /\ reg'.route = reg.route /\ reg'.mul = 66
      BY <1>2, <1>3, <2>1, <2>4, <3>1 DEF Pll, RegNames
    <3>3. ToB'
      BY <3>1, <3>2 DEF ToB, e
    <3> QED
      BY <1>0, <3>2, <3>3 DEF PllInv
  <2>5. CASE todo = <<e>> /\ reg.sysDiv = 1 /\ reg.mul = 66
    <3>1. h = e /\ todo' = <<>>
      BY <1>4, <2>5 DEF h
    <3>2. /\ reg'.sysDiv = 1 /\ reg'.mul = 66
      BY <1>2, <2>1, <2>5, <3>1 DEF RegNames
    <3>3. Plain'
      BY <3>1 DEF Plain, Range
    <3> QED
      BY <3>2, <3>3 DEF PllInv
  <2> QED
    BY <2>2, <2>3, <2>4, <2>5
<1> QED
  BY <1>0, <1>5, <1>6, <1>7 DEF PllInv
\* What the parts of the tuning write: the two that set the clock a plan of it,
\* the others nothing of the PLL.
LEMMA PllTune ==
  ASSUME TInv, PllInv, Tune
  PROVE  PllInv'
<1>0. lost' = lost
  BY DEF Tune, Settle, ApplyOutputSize, ApplyCropWindow, ApplyCropRest, ApplyTightRows,
         ApplyHtsFloor, ApplyTunedTiming, ApplyFrame, ApplyScalerClock, ApplyAecLimits, Step
<1>1. CASE Settle
  <2>1. todo' = <<>> /\ todo = <<>>
    BY <1>1 DEF Settle
  <2>2. Plain'
    BY <2>1 DEF Plain, Range
  <2>3. reg'.route = "A" \/ reg' = reg
    BY <1>1 DEF Settle, DriverRegs
  <2> QED
    BY <1>0, <2>2, <2>3 DEF PllInv
<1>2. CASE ApplyTunedTiming
  <2> DEFINE p == plan'
  <2>1. todo' = PllWrites(p) /\ reg' = reg
    BY <1>2 DEF ApplyTunedTiming, Step
  <2>2. \/ p.route = "A"
        \/ p.route = "B" /\ p.sysDiv = 1 /\ p.mul = 66
    <3> DEFINE hts == IF GivesBack(sensorFS) THEN nightHtsBase ELSE reg.hts
    <3>1. \/ p = Planned("A", SLOW, NightLine(sensorFS), AEC_VTS_CEIL)
          \/ p = DayPlan(sensorFS, captureFPS, hts)
      BY <1>2 DEF ApplyTunedTiming
    <3> HIDE DEF hts
    <3>2. \A fs, fps, v : \/ DayPlan(fs, fps, v).route = "A"
                          \/ /\ DayPlan(fs, fps, v).route = "B"
                             /\ DayPlan(fs, fps, v).sysDiv = 1 /\ DayPlan(fs, fps, v).mul = 66
      BY DEF DayPlan, Planned, ROUTE_B
    <3>3. Planned("A", SLOW, NightLine(sensorFS), AEC_VTS_CEIL).route = "A"
      BY DEF Planned
    <3> QED
      BY <3>1, <3>2, <3>3
  <2> HIDE DEF p
  <2> QED
    BY <1>0, <2>1, <2>2, PllPlanned
<1>3. CASE ApplyScalerClock
  <2> DEFINE p == Planned("A", ScalerPll(ClockFor(reg.vts, reg.hts, sensorFS, captureFPS)), reg.hts, reg.vts)
  <2>1. todo' = PllWrites(p) /\ reg' = reg
    BY <1>3 DEF ApplyScalerClock, Step
  <2>2. p.route = "A"
    BY DEF Planned
  <2> HIDE DEF p
  <2> QED
    BY <1>0, <2>1, <2>2, PllPlanned
<1>4. ASSUME Plain', reg' = reg PROVE PllInv'
  BY <1>0, <1>4 DEF PllInv
<1>5. CASE \/ ApplyOutputSize \/ ApplyCropWindow \/ ApplyCropRest \/ ApplyTightRows
           \/ ApplyHtsFloor \/ ApplyFrame \/ ApplyAecLimits
  <2>1. Plain'
    BY <1>5, OutputSizeKeeps, CropWindowKeeps, CropRestKeeps, TightRowsKeeps, HtsFloorKeeps,
       FrameKeeps, AecLimitsKeeps
  <2>2. reg' = reg
    BY <1>5 DEF ApplyOutputSize, ApplyCropWindow, ApplyCropRest, ApplyTightRows,
                ApplyHtsFloor, ApplyFrame, ApplyAecLimits, Step
  <2> QED
    BY <1>4, <2>1, <2>2
<1> QED
  BY <1>1, <1>2, <1>3, <1>5 DEF Tune
LEMMA PllInit == Init => PllInv
  BY DEF Init, PllInv, Plain, DriverRegs, Range

LEMMA PllNext == TInv /\ PllInv /\ [Next]_vars => PllInv'
<1> SUFFICES ASSUME TInv, PllInv, [Next]_vars PROVE PllInv'
  OBVIOUS
<1>1. CASE Lose
  <2>1. lost' # 0
    BY <1>1 DEF Lose, PllInv
  <2> QED
    BY <1>1, <2>1 DEF Lose, PllInv
<1>2. CASE Web \/ UNCHANGED vars
  BY <1>2 DEF Web, vars, PllInv, Plain, ToA, ToB
<1> QED
  BY <1>1, <1>2, PllWrite, PllTune DEF Next

\* As long as no write was lost, route B has its own divider and multiplier, and what is still
\* to be written leaves the PLL alone or changes the route in the order that keeps it slow.
THEOREM PllInvariant == Spec => [](TInv /\ PllInv)
  BY TInvInit, TInvNext, PllInit, PllNext, PTL DEF Spec

\* On the halved dividers the clock is 88 MHz and never more, at every write of
\* every retime, as long as no write is lost.
THEOREM HalvedStaysSlow == Spec => []RouteBSlow
<1>1. PllInv => RouteBSlow
  BY DEF PllInv, RouteBSlow, Sclk
<1> QED
  BY <1>1, PllInvariant, PTL
----------------------------------------------------------------------------
(* The clock that is chosen.                                               *)

\* A set of dividers that is not empty has a least.
LEMMA LeastDivider ==
  ASSUME NEW S \in SUBSET (1..15), S # {}
  PROVE  Min(S) \in S
<1> DEFINE From(n) == \A x \in S : x >= n
<1>1. \E x \in S : \A y \in S : x <= y
  <2> SUFFICES ASSUME \A x \in S : \E y \in S : y < x PROVE FALSE
    OBVIOUS
  <2>1. From(1)
    OBVIOUS
  <2>2. \A n \in 1..15 : From(n) => From(n + 1)
    OBVIOUS
  <2> HIDE DEF From
  <2>3. From(2) /\ From(3) /\ From(4)
    BY <2>1, <2>2
  <2>4. From(5) /\ From(6) /\ From(7)
    BY <2>2, <2>3
  <2>5. From(8) /\ From(9) /\ From(10)
    BY <2>2, <2>4
  <2>6. From(11) /\ From(12) /\ From(13)
    BY <2>2, <2>5
  <2>7. From(14) /\ From(15) /\ From(16)
    BY <2>2, <2>6
  <2>8. PICK x \in S : x \in 1..15
    OBVIOUS
  <2> QED
    BY <2>7, <2>8 DEF From
<1> QED
  BY <1>1 DEF Min

\* The pixel clock of multiplier and divider, against one the multiplier is near.
LEMMA ClockNear ==
  ASSUME NEW K \in Nat, NEW m \in 75..150, NEW sd \in 1..15
  PROVE  LET c == (m * 2000) \div (3 * sd)
         IN  /\ c \in Nat
             /\ K * 3 * sd <= m * 2000 + 999 => (c + 1) * 150999 >= K * 150000
             /\ K * 3 * sd <= m * 2000 + 2999 /\ m >= 128 => (c + 1) * 258999 >= K * 256000
<1>1. \A n \in Nat, e \in Nat, s \in {3 * i : i \in 1..15} :
        LET c == n \div s IN c \in Nat /\ n <= c * s + s - 1
  OBVIOUS
<1> DEFINE s == 3 * sd
           c == (m * 2000) \div s
<1>2. c \in Nat /\ m * 2000 <= c * s + s - 1
  <2>1. m * 2000 \in Nat /\ s \in Nat \ {0}
    OBVIOUS
  <2> HIDE DEF s
  <2> QED
    BY <2>1
<1>3. \A i \in 1..15, y \in Nat : 
        /\ m * 2000 <= y * (3 * i) + 3 * i - 1 /\ K * 3 * i <= m * 2000 + 999
              => (y + 1) * 150999 >= K * 150000
        /\ m * 2000 <= y * (3 * i) + 3 * i - 1 /\ K * 3 * i <= m * 2000 + 2999 /\ m >= 128
              => (y + 1) * 258999 >= K * 256000
  <2> DEFINE Near(i) == \A y \in Nat :
        /\ m * 2000 <= y * (3 * i) + 3 * i - 1 /\ K * 3 * i <= m * 2000 + 999
              => (y + 1) * 150999 >= K * 150000
        /\ m * 2000 <= y * (3 * i) + 3 * i - 1 /\ K * 3 * i <= m * 2000 + 2999 /\ m >= 128
              => (y + 1) * 258999 >= K * 256000
  <2>1. Near(1) /\ Near(2) /\ Near(3) /\ Near(4) /\ Near(5)
    OBVIOUS
  <2>2. Near(6) /\ Near(7) /\ Near(8) /\ Near(9) /\ Near(10)
    OBVIOUS
  <2>3. Near(11) /\ Near(12) /\ Near(13) /\ Near(14) /\ Near(15)
    OBVIOUS
  <2> HIDE DEF Near
  <2>4. \A i \in 1..15 : Near(i)
    BY <2>1, <2>2, <2>3
  <2> QED
    BY <2>4 DEF Near
<1>4. \A y : y = c =>
        /\ y \in Nat
        /\ (K * 3 * sd <= m * 2000 + 999) => ((y + 1) * 150999 >= K * 150000)
        /\ (K * 3 * sd <= m * 2000 + 2999 /\ m >= 128) => ((y + 1) * 258999 >= K * 256000)
  <2> HIDE DEF c
  <2> QED
    BY <1>2, <1>3 DEF s
<1> QED
  BY <1>4

\* The pixel clock of the multiplier that is chosen for a clock and a divider.
PixelClock(kHz, sd) == (Multiplier(kHz, sd) * 2000) \div (3 * sd)

\* The multiplier is the clock it stands for to half a step, above 127 to one and a half.
LEMMA PixelClockNear ==
  ASSUME NEW kHz \in Nat, NEW sd \in 1..15, Multiplier(kHz, sd) \in 75..150
  PROVE  /\ PixelClock(kHz, sd) \in Nat
         /\ Multiplier(kHz, sd) <= 127 => (PixelClock(kHz, sd) + 1) * 150999 >= kHz * 150000
         /\ Multiplier(kHz, sd) > 127 => (PixelClock(kHz, sd) + 1) * 258999 >= kHz * 256000
<1> DEFINE x == kHz * 3 * sd
           q == (x + 1000) \div 2000
           m == Multiplier(kHz, sd)
           c == (m * 2000) \div (3 * sd)
<1>1. x \in Nat
  OBVIOUS
<1>2. m = IF q > 127 THEN q - (q % 2) ELSE q
  BY DEF Multiplier
<1> HIDE DEF x
<1>3. q \in Nat /\ x <= q * 2000 + 999
  BY <1>1
<1> HIDE DEF q, m
<1>4. (m <= 127 => m = q) /\ (m > 127 => m >= 128 /\ q <= m + 1)
  BY <1>2, <1>3
<1>5. m \in 75..150
  BY DEF m
<1>6. (m <= 127 => x <= m * 2000 + 999) /\ (m > 127 => m >= 128 /\ x <= m * 2000 + 2999)
  BY <1>1, <1>3, <1>4, <1>5
<1>7. /\ c \in Nat
      /\ x <= m * 2000 + 999 => (c + 1) * 150999 >= kHz * 150000
      /\ x <= m * 2000 + 2999 /\ m >= 128 => (c + 1) * 258999 >= kHz * 256000
  BY <1>5, ClockNear DEF x
<1>8. c = PixelClock(kHz, sd)
  BY DEF PixelClock, m
<1> HIDE DEF c
<1> QED
  BY <1>6, <1>7, <1>8 DEF m

\* The sensor is made that much faster than the rate D calls for with V lines; no rounding
\* takes it back.
LEMMA Surplus ==
  ASSUME NEW D \in Nat, NEW V \in Nat, NEW least \in {2048, 24576}, D >= least,
         NEW od \in 1010..1050
  PROVE  LET K == (((D * od) \div 1000) * V) \div 1000
         IN  /\ K \in Nat /\ D * V \in Nat /\ D * V >= least * V
             /\ 1000000 * K + 999000 >= 1010 * (D * V) - 999 * V
             /\ od >= 1012 => 1000000 * K + 999000 >= 1012 * (D * V) - 999 * V
<1> DEFINE t == (D * od) \div 1000
           Q == t * V
           P == D * V
           K == Q \div 1000
<1>1. \A i, j, n \in Nat : i * n \in Nat /\ (i >= j => i * n >= j * n)
  OBVIOUS
<1>2. P \in Nat /\ P >= least * V
  BY <1>1
<1>3. t \in Nat /\ 1000 * t + 999 >= 1010 * D /\ (od >= 1012 => 1000 * t + 999 >= 1012 * D)
  <2>1. D * od \in Nat /\ D * od >= D * 1010 /\ (od >= 1012 => D * od >= D * 1012)
    OBVIOUS
  <2> DEFINE n == D * od
  <2> HIDE DEF n
  <2>2. \A i \in Nat : i \div 1000 \in Nat /\ 1000 * (i \div 1000) + 999 >= i
    OBVIOUS
  <2> QED
    BY <2>1, <2>2
<1>4. /\ Q \in Nat /\ 1000 * Q + 999 * V >= 1010 * P
      /\ od >= 1012 => 1000 * Q + 999 * V >= 1012 * P
  <2> HIDE DEF t
  <2>1. (1000 * t + 999) * V = 1000 * Q + 999 * V /\ (1010 * D) * V = 1010 * P /\ (1012 * D) * V = 1012 * P
    BY <1>3
  <2>2. 1000 * t + 999 \in Nat /\ 1010 * D \in Nat /\ 1012 * D \in Nat
    BY <1>3
  <2>3. Q \in Nat
    BY <1>1, <1>3
  <2> QED
    BY <1>1, <1>3, <2>1, <2>2, <2>3
<1>5. K \in Nat /\ 1000 * K + 999 >= Q
  <2> HIDE DEF Q
  <2> QED BY <1>4
<1> HIDE DEF t, Q, P
<1>6. 1000000 * K + 999000 >= 1010 * P - 999 * V /\ (od >= 1012 => 1000000 * K + 999000 >= 1012 * P - 999 * V)
  BY <1>2, <1>4, <1>5
<1> QED
  BY <1>2, <1>5, <1>6 DEF P, Q, t

\* The rate as the clock's lines: so many rows of so many columns a second.
Demand(hts, fs, fps) == hts * LineFactor(fs) * fps

LEMMA DemandIsLarge ==
  ASSUME NEW hts \in Nat, hts >= HTS_LEAST, NEW fs, NEW fps \in Nat \ {0}
  PROVE  /\ Demand(hts, fs, fps) \in Nat /\ Demand(hts, fs, fps) >= 2048
         /\ fps >= 12 => Demand(hts, fs, fps) >= 24576
<1>1. LineFactor(fs) \in {1, 2}
  BY DEF LineFactor
<1> DEFINE a == hts * LineFactor(fs)
<1>2. a \in Nat /\ a >= 2048
  BY <1>1 DEF HTS_LEAST
<1> HIDE DEF a
<1>3. a * fps \in Nat /\ a * fps >= a
  BY <1>2
<1>4. fps >= 12 => a * fps >= a * 12
  BY <1>2
<1> QED
  BY <1>2, <1>3, <1>4 DEF Demand, a

\* The overdrive is a surplus of one to five per cent.
LEMMA OverdriveBounds ==
  ASSUME NEW fps \in Nat \ {0}
  PROVE  FpsOverdrive(fps) \in 1010..1050 /\ (fps >= 12 => FpsOverdrive(fps) >= 1012)
  BY DEF FpsOverdrive, Lower, Higher

\* A frame of the length that gives the rate at a clock does give it.
LEMMA LengthKeepsRate ==
  ASSUME NEW hts \in Nat, hts >= HTS_LEAST, NEW fs, NEW fps \in Nat \ {0}, NEW k \in Nat
  PROVE  /\ VtsAt(k, hts, fs, fps) \in Nat
         /\ k * 1000 >= Demand(hts, fs, fps) * VtsAt(k, hts, fs, fps)
<1> DEFINE D == Demand(hts, fs, fps)
           od == FpsOverdrive(fps)
           q == (D * od) \div 100
           V == (k * 10000) \div q
<1>1. D \in Nat /\ D >= 2048
  BY DemandIsLarge
<1>2. od \in 1010..1050
  BY OverdriveBounds
<1>3. VtsAt(k, hts, fs, fps) = V
  BY DEF VtsAt, Demand
<1> HIDE DEF D, od
<1>4. q \in Nat /\ q >= 10 * D /\ q > 0
  <2>1. D * od \in Nat /\ D * od >= D * 1010
    BY <1>1, <1>2
  <2> DEFINE n == D * od
  <2> HIDE DEF n
  <2> QED
    BY <1>1, <2>1
<1> HIDE DEF q
<1>5. V \in Nat /\ V * q <= k * 10000
  <2>1. k * 10000 \in Nat
    OBVIOUS
  <2>2. \A n \in Nat, j \in Nat \ {0} : n \div j \in Nat /\ (n \div j) * j <= n
    OBVIOUS
  <2> QED
    BY <1>4, <2>1, <2>2
<1> HIDE DEF V
<1>6. V * q >= V * (10 * D)
  BY <1>1, <1>4, <1>5
<1>7. V * (10 * D) = 10 * (D * V)
  BY <1>1, <1>5
<1>8. D * V \in Nat
  BY <1>1, <1>5
<1> QED
  BY <1>3, <1>5, <1>6, <1>7, <1>8, <1>4 DEF D

\* The plan gives the rate, or the most the size can.
LossOf(p, fps) == IF fps < 12 /\ p.mul > 127 THEN 3 ELSE 0
FastEnough(p, fs, fps) ==
    Sclk(p) * (1000 + LossOf(p, fps)) >= fps * p.hts * LineFactor(fs) * p.vts
FlatOut(p, fs) ==
    /\ Sclk(p) >= (IF RouteB(fs) THEN 88000 ELSE 80000)
    /\ p.vts = VtsFloor(fs) \/ Driver[fs].byClock

\* What the plan's clock must come to, in the terms of the lemmas.
LEMMA FastByDemand ==
  ASSUME NEW hts \in Nat, hts >= HTS_LEAST, NEW fs, NEW fps \in Nat \ {0}, NEW V \in Nat,
         NEW route, NEW pll, NEW c \in Nat, Sclk(Planned(route, pll, hts, V)) = c,
         NEW loss \in {0, 3}, LossOf(Planned(route, pll, hts, V), fps) = loss,
         c * (1000 + loss) >= Demand(hts, fs, fps) * V
  PROVE  FastEnough(Planned(route, pll, hts, V), fs, fps)
<1> DEFINE p == Planned(route, pll, hts, V)
<1>1. p.hts = hts /\ p.vts = V
  BY DEF Planned
<1>2. LineFactor(fs) \in {1, 2}
  BY DEF LineFactor
<1>3. \A a, b, d, e \in Nat : d * a * b * e = (a * b * d) * e
  OBVIOUS
<1>4. fps * hts * LineFactor(fs) * V = Demand(hts, fs, fps) * V
  BY <1>2, <1>3 DEF Demand
<1> HIDE DEF p
<1> QED
  BY <1>1, <1>4 DEF FastEnough, p

\* The clocks of the fixed plans.
LEMMA FixedClocks ==
  ASSUME NEW hts, NEW V
  PROVE  /\ Sclk(Planned("A", SLOW, hts, V)) = 10133 /\ Planned("A", SLOW, hts, V).mul = 76
         /\ Sclk(Planned("A", FAST, hts, V)) = 80000 /\ Planned("A", FAST, hts, V).mul = 120
         /\ Sclk(Planned("B", ROUTE_B, hts, V)) = 88000 /\ Planned("B", ROUTE_B, hts, V).mul = 66
<1>1. /\ (76 * 2000) \div (3 * 5) = 10133 /\ (120 * 2000) \div (3 * 1) = 80000
      /\ (66 * 2000) \div (3 * 1) = 44000
  OBVIOUS
<1>2. \A route, pll : /\ Planned(route, pll, hts, V).mul = pll.mul
                      /\ Planned(route, pll, hts, V).sysDiv = pll.sysDiv
                      /\ Planned(route, pll, hts, V).route = route
  BY DEF Planned
<1>3. /\ SLOW.mul = 76 /\ SLOW.sysDiv = 5 /\ FAST.mul = 120 /\ FAST.sysDiv = 1
      /\ ROUTE_B.mul = 66 /\ ROUTE_B.sysDiv = 1
  BY DEF SLOW, FAST, ROUTE_B
<1> QED
  BY <1>1, <1>2, <1>3 DEF Sclk

\* The clock for a frame of V lines, with its surplus.
LEMMA ClockForSurplus ==
  ASSUME NEW hts \in Nat, hts >= HTS_LEAST, NEW fs, NEW fps \in Nat \ {0}, NEW V \in Nat,
         NEW K, K = ClockFor(V, hts, fs, fps), NEW P, P = Demand(hts, fs, fps) * V
  PROVE  /\ K \in Nat /\ P \in Nat /\ P >= 2048 * V
         /\ 1000000 * K + 999000 >= 1010 * P - 999 * V
         /\ fps >= 12 => P >= 24576 * V /\ 1000000 * K + 999000 >= 1012 * P - 999 * V
<1> DEFINE D == Demand(hts, fs, fps)
           od == FpsOverdrive(fps)
<1>1. K = (((D * od) \div 1000) * V) \div 1000 /\ P = D * V
  BY DEF ClockFor, Demand
<1>2. D \in Nat /\ D >= 2048 /\ (fps >= 12 => D >= 24576)
  BY DemandIsLarge
<1>3. od \in 1010..1050 /\ (fps >= 12 => od >= 1012)
  BY OverdriveBounds
<1> HIDE DEF D, od
<1>4. K \in Nat /\ P \in Nat /\ P >= 2048 * V /\ 1000000 * K + 999000 >= 1010 * P - 999 * V
  BY <1>1, <1>2, <1>3, Surplus, SMT
<1>5. fps >= 12 => P >= 24576 * V /\ 1000000 * K + 999000 >= 1012 * P - 999 * V
  <2> SUFFICES ASSUME fps >= 12
               PROVE  P >= 24576 * V /\ 1000000 * K + 999000 >= 1012 * P - 999 * V
    OBVIOUS
  <2>1. D >= 24576 /\ od >= 1012 /\ 24576 \in {2048, 24576}
    BY <1>2, <1>3
  <2> QED
    BY <1>1, <1>2, <1>3, <2>1, Surplus, SMT
<1> QED
  BY <1>4, <1>5, SMT

\* A clock the PLL has.
LEMMA PickedReaches ==
  ASSUME NEW hts \in Nat, hts >= HTS_LEAST, NEW fs, NEW fps \in Nat \ {0}, NEW V \in Nat,
         NEW P \in Nat, P = Demand(hts, fs, fps) * V, P >= 2048 * V,
         NEW K \in Nat, K >= 10000, Dividers(K) # {},
         1000000 * K + 999000 >= 1010 * P - 999 * V,
         fps >= 12 => P >= 24576 * V /\ 1000000 * K + 999000 >= 1012 * P - 999 * V
  PROVE  FastEnough(Planned("A", PickPll(K), hts, V), fs, fps)
<1> DEFINE sd == Min(Dividers(K))
           m == Multiplier(K, sd)
           c == PixelClock(K, sd)
           p == Planned("A", PickPll(K), hts, V)
           loss == LossOf(p, fps)
<1>1. sd \in 1..15 /\ m \in 75..150
  <2>1. sd \in Dividers(K)
    <3>1. Dividers(K) \in SUBSET (1..15)
      BY DEF Dividers
    <3> QED
      BY <3>1, LeastDivider
  <2> QED
    BY <2>1 DEF Dividers, Fits
<1>2. p.mul = m /\ Sclk(p) = c
  <2>1. p.route = "A" /\ p.mul = m /\ p.sysDiv = sd
    BY DEF Planned, PickPll
  <2>2. c \in Nat
    BY <1>1, PixelClockNear
  <2> HIDE DEF p
  <2> QED
    BY <2>1, <2>2 DEF Sclk, PixelClock
<1>3. loss = (IF fps < 12 /\ m > 127 THEN 3 ELSE 0)
  BY <1>2 DEF LossOf
<1> HIDE DEF p, sd, loss
<1>4. /\ c \in Nat
      /\ m <= 127 => (c + 1) * 150999 >= K * 150000
      /\ m > 127 => (c + 1) * 258999 >= K * 256000
  <2>1. \A n \in 1..15 : Multiplier(K, n) \in 75..150 =>
          /\ PixelClock(K, n) \in Nat
          /\ Multiplier(K, n) <= 127 => (PixelClock(K, n) + 1) * 150999 >= K * 150000
          /\ Multiplier(K, n) > 127 => (PixelClock(K, n) + 1) * 258999 >= K * 256000
    BY PixelClockNear, SMTT(60)
  <2>2. m = Multiplier(K, sd) /\ c = PixelClock(K, sd)
    OBVIOUS
  <2> HIDE DEF m, c
  <2> QED
    BY <1>1, <2>1, <2>2
<1> HIDE DEF c, m
<1>5. c * (1000 + loss) >= P
  <2>1. CASE m <= 127
    BY <1>1, <1>3, <1>4, <2>1, SMT
  <2>2. CASE m > 127 /\ fps < 12
    BY <1>1, <1>3, <1>4, <2>2, SMT
  <2>3. CASE m > 127 /\ fps >= 12
    BY <1>1, <1>3, <1>4, <2>3, SMT
  <2> QED
    BY <1>1, <2>1, <2>2, <2>3
<1>6. loss \in {0, 3}
  BY <1>3
<1> QED
  BY <1>2, <1>4, <1>5, <1>6, FastByDemand DEF p, loss

\* Below what the PLL can count the slow clock is faster.
LEMMA SlowReaches ==
  ASSUME NEW hts \in Nat, hts >= HTS_LEAST, NEW fs, NEW fps \in Nat \ {0}, NEW V \in Nat,
         ClockFor(V, hts, fs, fps) < 10000
  PROVE  FastEnough(Planned("A", SLOW, hts, V), fs, fps)
<1> DEFINE p == Planned("A", SLOW, hts, V)
           P == Demand(hts, fs, fps) * V
           K == ClockFor(V, hts, fs, fps)
<1>1. K \in Nat /\ P \in Nat /\ P >= 2048 * V /\ 1000000 * K + 999000 >= 1010 * P - 999 * V
  BY ClockForSurplus, SMT
<1>2. K < 10000
  OBVIOUS
<1>3. Sclk(p) = 10133 /\ LossOf(p, fps) = 0
  BY FixedClocks DEF LossOf
<1> HIDE DEF p, P, K
<1>4. 10133 * (1000 + 0) >= P
  BY <1>1, <1>2, SMT
<1> QED
  BY <1>3, <1>4, FastByDemand DEF p, P

\* A frame of the length that gives the rate at one of the fixed clocks.
LEMMA LengthReaches ==
  ASSUME NEW hts \in Nat, hts >= HTS_LEAST, NEW fs, NEW fps \in Nat \ {0}
  PROVE  /\ VtsAt(80000, hts, fs, fps) \in Nat /\ VtsAt(88000, hts, fs, fps) \in Nat
         /\ FastEnough(Planned("A", FAST, hts, VtsAt(80000, hts, fs, fps)), fs, fps)
         /\ FastEnough(Planned("B", ROUTE_B, hts, VtsAt(88000, hts, fs, fps)), fs, fps)
<1> DEFINE a == VtsAt(80000, hts, fs, fps)
           b == VtsAt(88000, hts, fs, fps)
           p == Planned("A", FAST, hts, a)
           q == Planned("B", ROUTE_B, hts, b)
<1>1. /\ a \in Nat /\ 80000 * 1000 >= Demand(hts, fs, fps) * a
      /\ b \in Nat /\ 88000 * 1000 >= Demand(hts, fs, fps) * b
  BY LengthKeepsRate, SMT
<1>2. Sclk(p) = 80000 /\ LossOf(p, fps) = 0 /\ Sclk(q) = 88000 /\ LossOf(q, fps) = 0
  BY FixedClocks DEF LossOf
<1> HIDE DEF a, b
<1>3. FastEnough(p, fs, fps)
  BY <1>1, <1>2, FastByDemand
<1>4. FastEnough(q, fs, fps)
  BY <1>1, <1>2, FastByDemand
<1> QED
  BY <1>1, <1>3, <1>4 DEF a, b

\* By day the plan gives the rate that was asked for, or the most the size can.
LEMMA DayReaches ==
  ASSUME NEW hts \in Nat, hts >= HTS_LEAST, NEW fs, NEW fps \in Nat \ {0},
         VtsFloor(fs) \in Int, VtsFloor(fs) <= AEC_VTS_CEIL
  PROVE  LET p == DayPlan(fs, fps, hts)
         IN  /\ FastEnough(p, fs, fps) \/ FlatOut(p, fs)
             /\ p.hts = hts /\ p.vts \in Nat
<1> DEFINE vts == VtsAt(80000, hts, fs, fps)
           vtsB == VtsAt(88000, hts, fs, fps)
           target == Higher(AEC_VTS_CEIL, VtsFloor(fs))
           K == ClockFor(target, hts, fs, fps)
           floor == VtsFloor(fs)
           Good(p) == /\ FastEnough(p, fs, fps) \/ FlatOut(p, fs)
                      /\ p.hts = hts /\ p.vts \in Nat
<1>1. vts \in Nat /\ vtsB \in Nat
  BY LengthReaches
<1>2. target = AEC_VTS_CEIL /\ target \in Nat
  BY DEF Higher, AEC_VTS_CEIL
<1>3. \A route, pll, v : /\ Planned(route, pll, hts, v).hts = hts
                         /\ Planned(route, pll, hts, v).vts = v
  BY DEF Planned
<1>4. floor \in Int /\ floor <= AEC_VTS_CEIL
  OBVIOUS
<1>5. K < 10000 => Good(Planned("A", SLOW, hts, target))
  <2> HIDE DEF target
  <2> QED
    BY <1>2, <1>3, SlowReaches
<1>6. K >= 10000 /\ Dividers(K) # {} => Good(Planned("A", PickPll(K), hts, target))
  <2> SUFFICES ASSUME K >= 10000, Dividers(K) # {}
               PROVE  Good(Planned("A", PickPll(K), hts, target))
    OBVIOUS
  <2> HIDE DEF target
  <2> DEFINE P == Demand(hts, fs, fps) * target
  <2>1. /\ K \in Nat /\ P \in Nat /\ P >= 2048 * target
        /\ 1000000 * K + 999000 >= 1010 * P - 999 * target
        /\ fps >= 12 => P >= 24576 * target /\ 1000000 * K + 999000 >= 1012 * P - 999 * target
    BY <1>2, ClockForSurplus, SMT
  <2>2. P = Demand(hts, fs, fps) * target
    OBVIOUS
  <2> HIDE DEF P, K
  <2>3. FastEnough(Planned("A", PickPll(K), hts, target), fs, fps)
    BY <1>2, <2>1, <2>2, PickedReaches, SMTT(60)
  <2> QED
    BY <1>2, <1>3, <2>3
<1>7. RouteB(fs) => Good(Planned("B", ROUTE_B, hts, Higher(floor, vtsB)))
  <2> SUFFICES ASSUME RouteB(fs) PROVE Good(Planned("B", ROUTE_B, hts, Higher(floor, vtsB)))
    OBVIOUS
  <2>1. CASE floor > vtsB
    <3>1. Higher(floor, vtsB) = floor /\ floor \in Nat
      BY <1>1, <1>4, <2>1 DEF Higher
    <3>2. FlatOut(Planned("B", ROUTE_B, hts, floor), fs)
      BY <1>3, FixedClocks DEF FlatOut
    <3> HIDE DEF floor, vtsB
    <3> QED
      BY <1>3, <3>1, <3>2
  <2>2. CASE ~(floor > vtsB)
    <3>1. Higher(floor, vtsB) = vtsB
      BY <2>2 DEF Higher
    <3> QED
      BY <1>1, <1>3, <3>1, LengthReaches
  <2> QED
    BY <2>1, <2>2
<1>8. ASSUME ~(vts < floor /\ RouteB(fs))
      PROVE  Good(Planned("A", FAST, hts, Higher(floor, vts)))
  <2>1. CASE floor > vts
    <3>1. Higher(floor, vts) = floor /\ floor \in Nat /\ ~RouteB(fs)
      BY <1>1, <1>4, <1>8, <2>1 DEF Higher
    <3>2. FlatOut(Planned("A", FAST, hts, floor), fs)
      BY <1>3, <3>1, FixedClocks DEF FlatOut
    <3> HIDE DEF floor, vts
    <3> QED
      BY <1>3, <3>1, <3>2
  <2>2. CASE ~(floor > vts)
    <3>1. Higher(floor, vts) = vts
      BY <2>2 DEF Higher
    <3> QED
      BY <1>1, <1>3, <3>1, LengthReaches
  <2> QED
    BY <2>1, <2>2
<1> DEFINE p == DayPlan(fs, fps, hts)
<1>9. \/ p = Planned("A", SLOW, hts, target) /\ K < 10000
      \/ p = Planned("A", PickPll(K), hts, target) /\ K >= 10000 /\ Dividers(K) # {}
      \/ p = Planned("B", ROUTE_B, hts, Higher(floor, vtsB)) /\ RouteB(fs)
      \/ p = Planned("A", FAST, hts, Higher(floor, vts)) /\ ~(vts < floor /\ RouteB(fs))
  <2> DEFINE A == vts > AEC_VTS_CEIL /\ K < 10000
             B == vts > AEC_VTS_CEIL /\ K >= 10000 /\ Dividers(K) # {}
             C == vts < floor /\ RouteB(fs)
             x == Planned("A", SLOW, hts, target)
             y == Planned("A", PickPll(K), hts, target)
             z == Planned("B", ROUTE_B, hts, Higher(floor, vtsB))
             u == Planned("A", FAST, hts, Higher(floor, vts))
  <2>1. p = CASE A -> x [] B -> y [] C -> z [] OTHER -> u
    BY DEF DayPlan
  <2>2. (A => K < 10000) /\ (B => K >= 10000 /\ Dividers(K) # {}) /\ (C => RouteB(fs))
        /\ (~C => ~(vts < floor /\ RouteB(fs)))
    OBVIOUS
  <2>3. ~(A /\ B) /\ ~(A /\ C) /\ ~(B /\ C)
    <3>0. K \in Int
      BY <1>2, ClockForSurplus
    <3> HIDE DEF K, vts, floor
    <3> QED
      BY <1>1, <1>4, <3>0 DEF AEC_VTS_CEIL, vts, floor
  <2> HIDE DEF A, B, C, x, y, z, u, p
  <2>4. (p = x /\ A) \/ (p = y /\ B) \/ (p = z /\ C) \/ (p = u /\ ~C)
    BY <2>1, <2>3
  <2> QED
    BY <2>2, <2>4 DEF A, B, C, x, y, z, u
<1>10. Good(p)
  <2> HIDE DEF Good, p, K, floor, vts, vtsB, target
  <2> QED
    BY <1>5, <1>6, <1>7, <1>8, <1>9
<1> QED
  BY <1>10

\* A scaler size has the clock alone, and 80 MHz is the most it can.
LEMMA ScalerReaches ==
  ASSUME NEW hts \in Nat, hts >= HTS_LEAST, NEW fs, NEW fps \in Nat \ {0}, NEW V \in Nat,
         ~RouteB(fs), Driver[fs].byClock
  PROVE  LET p == Planned("A", ScalerPll(ClockFor(V, hts, fs, fps)), hts, V)
         IN  FastEnough(p, fs, fps) \/ FlatOut(p, fs)
<1> DEFINE K == ClockFor(V, hts, fs, fps)
           pll == ScalerPll(K)
           P == Demand(hts, fs, fps) * V
<1>1. /\ K \in Nat /\ P \in Nat /\ P >= 2048 * V
      /\ 1000000 * K + 999000 >= 1010 * P - 999 * V
      /\ fps >= 12 => P >= 24576 * V /\ 1000000 * K + 999000 >= 1012 * P - 999 * V
  BY ClockForSurplus, SMT
<1>2. P = Demand(hts, fs, fps) * V
  OBVIOUS
<1>3. K < 10000 => FastEnough(Planned("A", SLOW, hts, V), fs, fps)
  BY SlowReaches
<1>4. FlatOut(Planned("A", FAST, hts, V), fs)
  BY FixedClocks DEF FlatOut
<1> HIDE DEF K, P
<1>5. ASSUME K >= 10000, Dividers(K) # {}
      PROVE  FastEnough(Planned("A", PickPll(K), hts, V), fs, fps)
  BY <1>1, <1>2, <1>5, PickedReaches, SMTT(60)
<1>6. K \in Nat
  BY <1>1, SMT
<1>7. \/ pll = SLOW /\ K < 10000
      \/ pll = PickPll(K) /\ K >= 10000 /\ Dividers(K) # {}
      \/ pll = FAST
  <2> DEFINE low == K < 10000
             band == K \in 10000..80000
             some == Dividers(K) # {}
             y == PickPll(K)
  <2>1. pll = CASE low -> SLOW [] band /\ some -> y [] OTHER -> FAST
    BY DEF ScalerPll
  <2>2. band => K >= 10000
    BY <1>6
  <2>3. band => ~low
    BY <1>6
  <2> HIDE DEF low, band, some, y, pll
  <2>4. (pll = SLOW /\ low) \/ (pll = y /\ band /\ some) \/ pll = FAST
    BY <2>1, <2>3
  <2> QED
    BY <2>2, <2>4 DEF low, some, y
<1> HIDE DEF pll
<1>8. FastEnough(Planned("A", pll, hts, V), fs, fps) \/ FlatOut(Planned("A", pll, hts, V), fs)
  BY <1>3, <1>4, <1>5, <1>7
<1> QED
  BY <1>8 DEF pll, K

\* The line of a night session is as long as the period calls for, to a millisecond.
LEMMA NightReaches ==
  ASSUME NEW fs, nightFrameMs \in Nat, nightFrameMs <= NIGHT_MAX_MS,
         reg.hts \in Nat, nightHtsBase \in Nat
  PROVE  /\ NightLine(fs) \in Nat
         /\ NightLine(fs) * 2 * AEC_VTS_CEIL >= (nightFrameMs - 1) * NIGHT_KHZ
<1> DEFINE own == IF nightHtsBase > 0 /\ nightHtsFS = fs THEN nightHtsBase ELSE reg.hts
           n == nightFrameMs * 10133 + 1968
           needed == n \div 3936
<1>1. own \in Nat
  OBVIOUS
<1>2. n \in Nat
  OBVIOUS
<1>3. needed \in Nat /\ needed * 3936 >= n - 3935
  <2> HIDE DEF n
  <2> QED
    BY <1>2
<1>4. NightLine(fs) = Lower(8191, Higher(needed, own))
  BY DEF NightLine, AEC_VTS_CEIL, NIGHT_KHZ, NIGHT_HTS_MAX
<1> HIDE DEF own, needed
<1>5. NightLine(fs) \in Nat /\ (NightLine(fs) >= needed \/ NightLine(fs) = 8191)
  BY <1>1, <1>3, <1>4 DEF Lower, Higher
<1> QED
  BY <1>3, <1>5 DEF NIGHT_MAX_MS, NIGHT_KHZ, AEC_VTS_CEIL
----------------------------------------------------------------------------
(* What the tuning leaves.                                                 *)

\* What the size is cut to, if it is cut, and its own line then.
CutRows(fs) ==
    LET d == Driver[fs]
    IN  ((IF d.pre > 0 THEN (d.pre * d.outH) \div d.outW ELSE d.outH) + 2 * d.yOff) * d.ss
Cuts(fs) ==
    /\ CutRows(fs) <= Driver[fs].rows /\ CropCols(fs) <= Driver[fs].cols
    /\ ~(CutRows(fs) = Driver[fs].rows /\ CropCols(fs) = Driver[fs].cols)
LineOf(fs) ==
    CASE Binned(fs) -> HtsFloorFor(fs)
      [] ~Binned(fs) /\ ~Cuts(fs) -> Driver[fs].hts
      [] OTHER -> Lower(Driver[fs].hts, Higher(CropCols(fs) + 76, HTS_FLOOR_FULLRES))

\* The writes to come leave the register at v, whole or byte by byte, or alone.
Becomes(name, v) ==
    /\ \A x \in Range(todo) : x.reg = name => x.val = v
    /\ reg[name] = v \/ \E x \in Range(todo) : x.reg = name
ByteOf(x, v) == CASE x.part = "hi" -> Hi(v) [] x.part = "lo" -> Lo(v) [] OTHER -> v
BytesBecome(name, v) ==
    /\ \A x \in Range(todo) : x.reg = name => x.val = ByteOf(x, v)
    /\ Hi(reg[name]) = Hi(v) \/ \E x \in Range(todo) : x.reg = name /\ x.part # "lo"
    /\ Lo(reg[name]) = Lo(v) \/ \E x \in Range(todo) : x.reg = name /\ x.part # "hi"
Untouched(names) == \A x \in Range(todo) : x.reg \notin names
WindowRegs == {"cols", "ySt", "yEnd", "yOff"}

\* A period the AEC regime covers, of a size that has one; frame lengths are numbers.
NightInv ==
    /\ nightFrameMs <= NIGHT_MAX_MS
    /\ nightFrameMs > 0 => nightFS \in {"QSXGA", "FHDNARROW"}
VtsInv == reg.vts \in Nat /\ \A x \in Range(todo) : x.reg = "vts" => x.val \in Nat

\* A session has the size's own line, and will give it back.
Held(fs) == nightHtsBase > 0 /\ nightHtsFS = fs
BaseInv ==
    nightHtsBase > 0 =>
        /\ nightHtsFS \in Sizes /\ ~Binned(nightHtsFS) /\ ~Driver[nightHtsFS].byClock
        /\ nightHtsBase = LineOf(nightHtsFS)

\* The window of a size that is not binned: as the driver leaves it, or cut.
Whole(fs) == reg.cols = Driver[fs].cols /\ RowsRead = Driver[fs].rows
IsCut(fs) == reg.cols = CropCols(fs) /\ RowsRead = CutRows(fs)
Final(fs) == IF Cuts(fs) THEN IsCut(fs) ELSE Whole(fs)

\* Before it is cut it has the driver's line, unless it was tuned before.
Uncut(fs) ==
    /\ Untouched({"hts"})
    /\ \/ Whole(fs) /\ reg.hts = Driver[fs].hts
       \/ Final(fs) /\ (reg.hts = LineOf(fs) \/ Held(fs))
Cutting(fs) ==
    /\ Cuts(fs) /\ reg.hts = Driver[fs].hts /\ Untouched({"hts"})
    /\ Becomes("cols", CropCols(fs))
    /\ \E st \in Int : Becomes("ySt", st) /\ Becomes("yEnd", st + CutRows(fs) - 1)
WindowInv ==
    ~Binned(sensorFS) =>
        /\ reg.yOff = Driver[sensorFS].yOff /\ Untouched({"yOff"})
        /\ pc # "cropRest" => Untouched(WindowRegs)
        /\ pc \in {"size", "crop"} => Uncut(sensorFS)
        /\ pc = "cropRest" => Cutting(sensorFS)
        /\ pc \notin {"size", "crop", "cropRest"} => Final(sensorFS)
        /\ pc \in {"rows", "line"} => BytesBecome("hts", LineOf(sensorFS)) \/ Held(sensorFS)

\* From the retime on the size has its own line, unless a session has it.
LineInv ==
    /\ pc = "retime" => BytesBecome("hts", LineOf(sensorFS)) \/ Held(sensorFS)
    /\ pc \in {"frame", "aec", "idle"} => plan.hts = LineOf(sensorFS) \/ Held(sensorFS)

\* What the user wants now is what is being tuned.
Asked == fsizePtr = sensorFS /\ ~retimePending

\* By day the plan reaches the rate on the size's own line, at night the period.
Reaches(p, fs) ==
    /\ nightFrameMs = 0 => /\ FastEnough(p, fs, captureFPS) \/ FlatOut(p, fs)
                           /\ p.hts = LineOf(fs)
    /\ NightRuns(fs) => p.hts * 2 * p.vts >= (nightFrameMs - 1) * NIGHT_KHZ

PlannedInv ==
    /\ pc \in {"retime", "frame", "aec", "idle"} => Untouched({"ySt", "yEnd"})
    /\ pc \in {"frame", "aec", "idle"} =>
          /\ \A name \in Pll : Becomes(name, plan[name])
          /\ plan.hts \in Nat /\ plan.vts \in Nat
          /\ Asked => Reaches(plan, sensorFS)
    /\ pc \in {"aec", "idle"} => BytesBecome("hts", plan.hts) /\ BytesBecome("vts", plan.vts)
    /\ pc = "idle" /\ Asked => Becomes("damped", nightFrameMs > 0)

TunedInv ==
    lost = 0 => NightInv /\ VtsInv /\ BaseInv /\ WindowInv /\ LineInv /\ PlannedInv
----------------------------------------------------------------------------
(* What a write does to the registers it leaves and to the one it writes.   *)

LEMMA RangeSplit ==
  ASSUME NEW S, NEW s \in Seq(S), s # <<>>
  PROVE  Range(s) = {Head(s)} \cup Range(Tail(s))
<1>1. Len(s) \in Nat \ {0} /\ DOMAIN s = 1..Len(s)
  OBVIOUS
<1>2. Len(Tail(s)) = Len(s) - 1 /\ DOMAIN Tail(s) = 1..(Len(s) - 1)
  OBVIOUS
<1>3. \A i \in 1..(Len(s) - 1) : Tail(s)[i] = s[i + 1]
  OBVIOUS
<1>4. Head(s) = s[1]
  OBVIOUS
<1>5. \A y \in Range(s) : y \in {Head(s)} \cup Range(Tail(s))
  <2> SUFFICES ASSUME NEW i \in 1..Len(s), i # 1 PROVE s[i] \in Range(Tail(s))
    BY <1>1, <1>4 DEF Range
  <2>1. i - 1 \in 1..(Len(s) - 1) /\ (i - 1) + 1 = i
    BY <1>1
  <2> QED
    BY <1>2, <1>3, <2>1 DEF Range
<1>6. \A y \in Range(Tail(s)) : y \in Range(s)
  <2> SUFFICES ASSUME NEW i \in 1..(Len(s) - 1) PROVE s[i + 1] \in Range(s)
    BY <1>2, <1>3 DEF Range
  <2>1. i + 1 \in 1..Len(s)
    BY <1>1
  <2> QED
    BY <1>1, <2>1 DEF Range
<1>7. Head(s) \in Range(s)
  BY <1>1, <1>4 DEF Range
<1> QED
  BY <1>5, <1>6, <1>7

\* The list of a join has the elements of both.
LEMMA RangeJoin ==
  ASSUME NEW S, NEW s \in Seq(S), NEW t \in Seq(S)
  PROVE  s \o t \in Seq(S) /\ Range(s \o t) = Range(s) \cup Range(t)
<1> DEFINE r == s \o t
<1>1. r \in Seq(S) /\ Len(r) = Len(s) + Len(t)
      /\ \A i \in 1..Len(r) : r[i] = IF i <= Len(s) THEN s[i] ELSE t[i - Len(s)]
  BY ConcatProperties
<1>2. Len(s) \in Nat /\ Len(t) \in Nat /\ DOMAIN s = 1..Len(s) /\ DOMAIN t = 1..Len(t)
      /\ DOMAIN r = 1..Len(r)
  BY <1>1
<1> HIDE DEF r
<1>3. \A y \in Range(r) : y \in Range(s) \cup Range(t)
  <2> SUFFICES ASSUME NEW i \in 1..Len(r) PROVE r[i] \in Range(s) \cup Range(t)
    BY <1>2 DEF Range
  <2>1. CASE i <= Len(s)
    BY <1>1, <1>2, <2>1 DEF Range
  <2>2. CASE i > Len(s)
    <3>1. i - Len(s) \in 1..Len(t)
      BY <1>1, <1>2, <2>2
    <3> QED
      BY <1>1, <1>2, <2>2, <3>1 DEF Range
  <2> QED
    BY <1>2, <2>1, <2>2
<1>4. \A y \in Range(s) : y \in Range(r)
  <2> SUFFICES ASSUME NEW i \in 1..Len(s) PROVE s[i] \in Range(r)
    BY <1>2 DEF Range
  <2>1. i \in 1..Len(r) /\ r[i] = s[i]
    BY <1>1, <1>2
  <2> QED
    BY <1>2, <2>1 DEF Range
<1>5. \A y \in Range(t) : y \in Range(r)
  <2> SUFFICES ASSUME NEW i \in 1..Len(t) PROVE t[i] \in Range(r)
    BY <1>2 DEF Range
  <2>1. i + Len(s) \in 1..Len(r) /\ ~(i + Len(s) <= Len(s)) /\ (i + Len(s)) - Len(s) = i
    BY <1>1, <1>2
  <2>2. r[i + Len(s)] = t[i]
    BY <1>1, <2>1
  <2> QED
    BY <1>2, <2>1, <2>2 DEF Range
<1> QED
  BY <1>1, <1>3, <1>4, <1>5 DEF r

\* The first write is made, the others are left.
LEMMA WriteEffect ==
  ASSUME TInv, Write
  PROVE  LET h == Head(todo)
         IN  /\ Well(h) /\ h.reg \in RegNames
             /\ \A n \in RegNames : reg'[n] = IF n = h.reg THEN Written(reg[n], h) ELSE reg[n]
             /\ Range(todo) = {h} \cup Range(todo')
             /\ UNCHANGED <<sensorFS, pc, plan, web, base, lost>>
<1>1. todo \in Seq(Range(todo)) /\ todo # <<>> /\ todo' = Tail(todo)
  BY InRange DEF TInv, TodoInv, Write
<1>2. Range(todo) = {Head(todo)} \cup Range(todo')
  BY <1>1, RangeSplit
<1>3. Well(Head(todo))
  BY <1>1, NextWrite DEF TInv
<1> DEFINE h == Head(todo)
<1>4. h.reg \in RegNames
  BY <1>3 DEF Well
<1>5. reg' = [reg EXCEPT ![h.reg] = Written(reg[h.reg], h)] /\ UNCHANGED <<sensorFS, pc, plan, web, base, lost>>
  BY DEF Write
<1>6. reg = [n \in RegNames |-> reg[n]]
  BY DEF TInv, RegInv
<1> HIDE DEF h
<1>7. \A n \in RegNames : reg'[n] = IF n = h.reg THEN Written(reg[n], h) ELSE reg[n]
  BY <1>4, <1>5, <1>6
<1> QED
  BY <1>2, <1>3, <1>4, <1>5, <1>7 DEF h

\* Registers that are written whole come to what was promised.
LEMMA WriteBecomes ==
  ASSUME TInv, Write, NEW name \in RegNames \ {"hts", "vts"}, NEW v, Becomes(name, v)
  PROVE  Becomes(name, v)'
<1> DEFINE h == Head(todo)
<1>1. /\ Well(h) /\ h.reg \in RegNames
      /\ \A n \in RegNames : reg'[n] = IF n = h.reg THEN Written(reg[n], h) ELSE reg[n]
      /\ Range(todo) = {h} \cup Range(todo')
  BY WriteEffect
<1> HIDE DEF h
<1>2. h.reg = name => Written(reg[name], h) = h.val
  BY <1>1 DEF Well, Written
<1>3. h.reg = name => h.val = v
  BY <1>1 DEF Becomes
<1> QED
  BY <1>1, <1>2, <1>3 DEF Becomes

\* And those written in two bytes, byte by byte.
LEMMA WriteBytes ==
  ASSUME TInv, Write, NEW name \in RegNames, reg[name] \in Nat, NEW v \in Nat, BytesBecome(name, v)
  PROVE  BytesBecome(name, v)'
<1> DEFINE h == Head(todo)
<1>1. /\ h.reg \in RegNames
      /\ \A n \in RegNames : reg'[n] = IF n = h.reg THEN Written(reg[n], h) ELSE reg[n]
      /\ Range(todo) = {h} \cup Range(todo')
  BY WriteEffect
<1> HIDE DEF h
<1>2. \A x \in Range(todo') : x.reg = name => x.val = ByteOf(x, v)
  BY <1>1 DEF BytesBecome
<1>3. \A i, j \in Nat : /\ Hi(i) \in Nat /\ Lo(i) \in 0..255
                        /\ Hi(Hi(i) * 256 + Lo(j)) = Hi(i) /\ Lo(Hi(i) * 256 + Lo(j)) = Lo(j)
  BY DEF Hi, Lo
<1>4. CASE h.reg # name
  BY <1>1, <1>2, <1>4 DEF BytesBecome
<1>5. CASE h.reg = name
  <2>1. h.val = ByteOf(h, v) /\ reg'[name] = Written(reg[name], h)
    BY <1>1, <1>5 DEF BytesBecome
  <2>2. CASE h.part = "hi"
    <3>1. reg'[name] = Hi(v) * 256 + Lo(reg[name])
      BY <2>1, <2>2 DEF ByteOf, Written
    <3>2. Hi(reg'[name]) = Hi(v) /\ Lo(reg'[name]) = Lo(reg[name])
      BY <1>3, <3>1
    <3> QED
      BY <1>1, <1>2, <2>2, <3>2 DEF BytesBecome
  <2>3. CASE h.part = "lo"
    <3>1. reg'[name] = Hi(reg[name]) * 256 + Lo(v)
      BY <2>1, <2>3 DEF ByteOf, Written
    <3>2. Hi(reg'[name]) = Hi(reg[name]) /\ Lo(reg'[name]) = Lo(v)
      BY <1>3, <3>1
    <3> QED
      BY <1>1, <1>2, <2>3, <3>2 DEF BytesBecome
  <2>4. CASE h.part \notin {"hi", "lo"}
    <3>1. reg'[name] = v
      BY <2>1, <2>4 DEF ByteOf, Written
    <3> QED
      BY <1>2, <3>1 DEF BytesBecome
  <2> QED
    BY <2>2, <2>3, <2>4
<1> QED
  BY <1>4, <1>5

\* A register that is not to be written stays as it is.
LEMMA WriteLeaves ==
  ASSUME TInv, Write, NEW names \in SUBSET RegNames, Untouched(names)
  PROVE  Untouched(names)' /\ \A n \in names : reg'[n] = reg[n]
<1> DEFINE h == Head(todo)
<1>1. /\ h.reg \in RegNames
      /\ \A n \in RegNames : reg'[n] = IF n = h.reg THEN Written(reg[n], h) ELSE reg[n]
      /\ Range(todo) = {h} \cup Range(todo')
  BY WriteEffect
<1> HIDE DEF h
<1> QED
  BY <1>1 DEF Untouched

\* When nothing is left to be written the registers are what was promised.
LEMMA Done ==
  ASSUME todo = <<>>
  PROVE  /\ \A name, v : Becomes(name, v) => reg[name] = v
         /\ \A name, v : BytesBecome(name, v) /\ reg[name] \in Nat /\ v \in Nat => reg[name] = v
         /\ \A names : Untouched(names)
<1>1. Range(todo) = {}
  BY DEF Range
<1>2. \A i, j \in Nat : Hi(i) = Hi(j) /\ Lo(i) = Lo(j) => i = j
  BY DEF Hi, Lo
<1> QED
  BY <1>1, <1>2 DEF Becomes, BytesBecome, Untouched
----------------------------------------------------------------------------
(* No step undoes what the tuning is to leave.                             *)

\* What the constants give of the line and of the cut.
LEMMA LineFacts ==
  ASSUME NEW fs \in Sizes
  PROVE  /\ CropCols(fs) \in Nat /\ CutRows(fs) \in Nat
         /\ LineOf(fs) \in Nat /\ LineOf(fs) >= HTS_LEAST
<1> DEFINE d == Driver[fs]
<1>1. /\ d.ss \in {1, 2} /\ d.pre \in Nat /\ d.outH \in Nat /\ d.outW \in Nat \ {0}
      /\ d.xOff \in Nat /\ d.yOff \in Nat /\ d.hts \in Nat /\ d.hts >= HTS_LEAST
  BY SizeFacts
<1> HIDE DEF d
<1>2. CropCols(fs) \in Nat
  <2> DEFINE c == IF d.pre > 0 THEN d.pre ELSE d.outW
  <2>1. c \in Nat /\ 2 * d.xOff \in Nat
    BY <1>1
  <2>2. CropCols(fs) = (c + 2 * d.xOff) * d.ss
    BY DEF CropCols, d
  <2> HIDE DEF c
  <2> QED
    BY <1>1, <2>1, <2>2
<1>3. CutRows(fs) \in Nat
  <2> DEFINE r == IF d.pre > 0 THEN (d.pre * d.outH) \div d.outW ELSE d.outH
  <2>1. r \in Nat
    <3>1. \A a, b \in Nat : a * b \in Nat
      OBVIOUS
    <3>2. \A n \in Nat : \A e \in Nat \ {0} : n \div e \in Nat
      OBVIOUS
    <3>3. (d.pre * d.outH) \div d.outW \in Nat
      BY <1>1, <3>1, <3>2
    <3> QED
      BY <1>1, <3>3
  <2>2. CutRows(fs) = (r + 2 * d.yOff) * d.ss /\ 2 * d.yOff \in Nat
    BY <1>1 DEF CutRows, d
  <2> HIDE DEF r
  <2> QED
    BY <1>1, <2>1, <2>2
<1>4. HtsFloorFor(fs) \in Nat /\ HtsFloorFor(fs) >= HTS_LEAST
  BY DEF HtsFloorFor, HTS_FLOOR, HTS_LEAST
<1>5. \/ LineOf(fs) = HtsFloorFor(fs) \/ LineOf(fs) = d.hts
      \/ LineOf(fs) = Lower(d.hts, Higher(CropCols(fs) + 76, HTS_FLOOR_FULLRES))
  BY DEF LineOf, d
<1>6. LET x == Lower(d.hts, Higher(CropCols(fs) + 76, HTS_FLOOR_FULLRES))
      IN  x \in Nat /\ x >= HTS_LEAST
  BY <1>1, <1>2 DEF Lower, Higher, HTS_FLOOR_FULLRES, HTS_LEAST
<1> QED
  BY <1>1, <1>2, <1>3, <1>4, <1>5, <1>6

\* Every write on the bus, while none is lost.
LEMMA TunedWrite ==
  ASSUME TInv, TunedInv, Write
  PROVE  TunedInv'
<1> SUFFICES ASSUME lost = 0
             PROVE  (NightInv /\ VtsInv /\ BaseInv /\ WindowInv /\ LineInv /\ PlannedInv)'
  BY DEF TunedInv, Write
<1> DEFINE h == Head(todo)
<1>0. NightInv /\ VtsInv /\ BaseInv /\ WindowInv /\ LineInv /\ PlannedInv
  BY DEF TunedInv
<1>1. /\ Well(h) /\ h.reg \in RegNames
      /\ \A n \in RegNames : reg'[n] = IF n = h.reg THEN Written(reg[n], h) ELSE reg[n]
      /\ Range(todo) = {h} \cup Range(todo')
      /\ UNCHANGED <<sensorFS, pc, plan, web, base, lost>>
  BY WriteEffect
<1>2. /\ UNCHANGED <<sensorFS, pc, plan, fsizePtr, captureFPS, retimePending, nightFrameMs,
                     nightFS, nightHtsBase, nightHtsFS>>
      /\ sensorFS \in Sizes
      /\ reg.hts \in Nat
  BY <1>1 DEF TInv, WebInv, RegInv, web, base
<1>3. PICK fs \in Sizes : fs = sensorFS /\ sensorFS' = fs
  BY <1>2
<1>4. PICK line \in Nat : line = LineOf(fs)
  BY LineFacts
<1>5. Held(fs)' = Held(fs)
  BY <1>2 DEF Held
<1> HIDE DEF h
<1>6. NightInv'
  BY <1>0, <1>2 DEF NightInv
<1>7. VtsInv'
  <2>1. reg'.vts \in Nat
    <3>1. CASE h.reg = "vts"
      <4>1. reg.vts \in Nat /\ h.val \in Nat /\ reg'.vts = Written(reg.vts, h)
        BY <1>0, <1>1, <3>1 DEF VtsInv, RegNames
      <4> QED
        BY <4>1 DEF Written, Hi, Lo
    <3>2. CASE h.reg # "vts"
      BY <1>0, <1>1, <3>2 DEF VtsInv, RegNames
    <3> QED
      BY <3>1, <3>2
  <2> QED
    BY <1>0, <1>1, <2>1 DEF VtsInv
<1>8. BaseInv'
  BY <1>0, <1>2 DEF BaseInv, Binned, LineOf
<1>9. BytesBecome("hts", line) => BytesBecome("hts", line)'
  BY <1>2, WriteBytes DEF RegNames
<1>10. WindowInv'
  <2> SUFFICES ASSUME ~Binned(fs) PROVE WindowInv'
    BY <1>3 DEF WindowInv
  <2>1. /\ reg.yOff = Driver[fs].yOff /\ Untouched({"yOff"})
        /\ pc # "cropRest" => Untouched(WindowRegs)
        /\ pc \in {"size", "crop"} => Uncut(fs)
        /\ pc = "cropRest" => Cutting(fs)
        /\ pc \notin {"size", "crop", "cropRest"} => Final(fs)
        /\ pc \in {"rows", "line"} => BytesBecome("hts", line) \/ Held(fs)
    BY <1>0, <1>3, <1>4 DEF WindowInv
  <2>2. (reg.yOff = Driver[fs].yOff /\ Untouched({"yOff"}))'
    <3>1. {"yOff"} \in SUBSET RegNames
      BY DEF RegNames
    <3> QED
      BY <2>1, <3>1, WriteLeaves
  <2>3. pc # "cropRest" =>
          /\ Untouched(WindowRegs)'
          /\ reg'.cols = reg.cols /\ reg'.ySt = reg.ySt /\ reg'.yEnd = reg.yEnd
    <3>1. WindowRegs \in SUBSET RegNames
      BY DEF RegNames, WindowRegs
    <3>2. Untouched(WindowRegs) => Untouched(WindowRegs)' /\ \A n \in WindowRegs : reg'[n] = reg[n]
      BY <3>1, WriteLeaves
    <3> QED
      BY <2>1, <3>2 DEF WindowRegs
  <2>4. pc # "cropRest" => (Whole(fs)' = Whole(fs) /\ Final(fs)' = Final(fs))
    BY <2>3 DEF Whole, Final, IsCut, RowsRead
  <2>5. Untouched({"hts"}) => Untouched({"hts"})' /\ reg'.hts = reg.hts
    <3>1. {"hts"} \in SUBSET RegNames
      BY DEF RegNames
    <3> QED
      BY <3>1, WriteLeaves
  <2>6. pc \in {"size", "crop"} => Uncut(fs)'
    BY <1>5, <2>1, <2>4, <2>5 DEF Uncut
  <2>7. pc = "cropRest" => Cutting(fs)'
    <3> SUFFICES ASSUME pc = "cropRest" PROVE Cutting(fs)'
      OBVIOUS
    <3>0. PICK st \in Int : Becomes("ySt", st) /\ Becomes("yEnd", st + CutRows(fs) - 1)
      BY <2>1 DEF Cutting
    <3>1. PICK cols, end : /\ cols = CropCols(fs) /\ end = st + CutRows(fs) - 1
                           /\ Becomes("cols", cols) /\ Becomes("ySt", st) /\ Becomes("yEnd", end)
      BY <2>1, <3>0 DEF Cutting
    <3>2. Becomes("cols", cols)' /\ Becomes("ySt", st)' /\ Becomes("yEnd", end)'
      BY <3>1, WriteBecomes DEF RegNames
    <3> QED
      BY <2>1, <2>5, <3>1, <3>2 DEF Cutting
  <2> QED
    BY <1>2, <1>3, <1>4, <1>5, <1>9, <2>1, <2>2, <2>3, <2>4, <2>6, <2>7 DEF WindowInv
<1>11. LineInv'
  BY <1>0, <1>2, <1>3, <1>4, <1>5, <1>9 DEF LineInv
<1>12. PlannedInv'
  <2>1. pc \in {"retime", "frame", "aec", "idle"} =>
          Untouched({"ySt", "yEnd"})' /\ reg'.ySt = reg.ySt /\ reg'.yEnd = reg.yEnd
    <3>1. {"ySt", "yEnd"} \in SUBSET RegNames
      BY DEF RegNames
    <3> QED
      BY <1>0, <3>1, WriteLeaves DEF PlannedInv
  <2> DEFINE p == plan
  <2>2. pc \in {"frame", "aec", "idle"} =>
          /\ (\A name \in Pll : Becomes(name, plan[name]))'
          /\ plan'.hts \in Nat /\ plan'.vts \in Nat
    <3> SUFFICES ASSUME pc \in {"frame", "aec", "idle"}
                 PROVE  (\A name \in Pll : Becomes(name, plan[name]))'
      BY <1>0, <1>2 DEF PlannedInv
    <3> SUFFICES ASSUME NEW name \in Pll PROVE Becomes(name, plan[name])'
      OBVIOUS
    <3>1. PICK v : v = plan[name] /\ plan'[name] = v
      BY <1>2
    <3>2. Becomes(name, v)
      BY <1>0, <3>1 DEF PlannedInv
    <3>3. name \in RegNames \ {"hts", "vts"}
      BY DEF Pll, RegNames
    <3>4. Becomes(name, v)'
      BY <3>2, <3>3, WriteBecomes
    <3> QED
      BY <3>1, <3>4
  <2>3. pc \in {"frame", "aec", "idle"} => (Asked' => Reaches(plan, sensorFS)')
    <3> SUFFICES ASSUME pc \in {"frame", "aec", "idle"}, Asked PROVE Reaches(plan, sensorFS)'
      BY <1>2 DEF Asked
    <3>1. Reaches(plan, fs)
      BY <1>0, <1>3 DEF PlannedInv
    <3>2. VtsFloor(fs)' = VtsFloor(fs)
      BY <2>1 DEF VtsFloor, RowFloor, RowsRead
    <3>3. FastEnough(plan, fs, captureFPS)' = FastEnough(plan, fs, captureFPS)
      BY <1>2 DEF FastEnough, LossOf, Sclk
    <3>4. FlatOut(plan, fs)' = FlatOut(plan, fs)
      BY <1>2, <3>2 DEF FlatOut, Sclk
    <3>5. NightRuns(fs)' = NightRuns(fs)
      BY <1>2 DEF NightRuns
    <3> QED
      BY <1>2, <1>3, <3>1, <3>3, <3>4, <3>5 DEF Reaches
  <2>4. pc \in {"aec", "idle"} => BytesBecome("hts", plan.hts)' /\ BytesBecome("vts", plan.vts)'
    <3> SUFFICES ASSUME pc \in {"aec", "idle"}
                 PROVE  BytesBecome("hts", plan.hts)' /\ BytesBecome("vts", plan.vts)'
      OBVIOUS
    <3>1. PICK a \in Nat, b \in Nat : a = plan.hts /\ b = plan.vts
      BY <1>0 DEF PlannedInv
    <3>2. BytesBecome("hts", a) /\ BytesBecome("vts", b)
      BY <1>0, <3>1 DEF PlannedInv
    <3>3. reg.hts \in Nat /\ reg.vts \in Nat
      BY <1>0, <1>2 DEF VtsInv
    <3>4. BytesBecome("hts", a)' /\ BytesBecome("vts", b)'
      BY <3>2, <3>3, WriteBytes DEF RegNames
    <3> QED
      BY <1>2, <3>1, <3>4
  <2>5. pc = "idle" /\ Asked => Becomes("damped", nightFrameMs > 0)'
    <3> SUFFICES ASSUME pc = "idle", Asked PROVE Becomes("damped", nightFrameMs > 0)'
      OBVIOUS
    <3>1. PICK v : v = (nightFrameMs > 0)
      OBVIOUS
    <3>2. Becomes("damped", v)
      BY <1>0, <3>1 DEF PlannedInv
    <3>3. Becomes("damped", v)'
      BY <3>2, WriteBecomes DEF RegNames
    <3> QED
      BY <1>2, <3>1, <3>3
  <2> QED
    BY <1>2, <2>1, <2>2, <2>3, <2>4, <2>5 DEF PlannedInv, Asked
<1> QED
  BY <1>6, <1>7, <1>8, <1>10, <1>11, <1>12

\* A choice of the user, or nothing at all, changes no register and no promise.
LEMMA TunedWeb ==
  ASSUME TInv, TunedInv, Web \/ UNCHANGED vars
  PROVE  TunedInv'
<1> SUFFICES ASSUME lost = 0
             PROVE  (NightInv /\ VtsInv /\ BaseInv /\ WindowInv /\ LineInv /\ PlannedInv)'
  BY DEF TunedInv, Web, vars
<1>0. NightInv /\ VtsInv /\ BaseInv /\ WindowInv /\ LineInv /\ PlannedInv
  BY DEF TunedInv
<1>1. UNCHANGED <<reg, sensorFS, todo, pc, plan, nightHtsBase, nightHtsFS>>
  BY DEF Web, vars, base
<1>2. VtsInv' /\ BaseInv' /\ WindowInv' /\ LineInv'
  <2>1. VtsInv' /\ BaseInv'
    BY <1>0, <1>1 DEF VtsInv, BaseInv, Binned, LineOf
  <2>2. LineInv'
    BY <1>0, <1>1 DEF LineInv, Held, BytesBecome
  <2>3. WindowInv'
    <3>1. /\ Uncut(sensorFS)' = Uncut(sensorFS) /\ Cutting(sensorFS)' = Cutting(sensorFS)
          /\ Final(sensorFS)' = Final(sensorFS)
          /\ Held(sensorFS)' = Held(sensorFS)
      BY <1>1 DEF Uncut, Cutting, Final, Held, Untouched, Whole, IsCut, RowsRead, Becomes
    <3> QED
      BY <1>0, <1>1, <3>1 DEF WindowInv, Untouched, BytesBecome, Held
  <2> QED
    BY <2>1, <2>2, <2>3
<1>3. PlannedInv /\ ~Asked' => PlannedInv'
  BY <1>1 DEF PlannedInv, Untouched, Becomes, BytesBecome
<1>4. CASE Web
  <2>1. NightInv'
    <3>1. \A ms \in Long : Lower(ms, NIGHT_MAX_MS) <= NIGHT_MAX_MS
      BY TimingAssumption DEF Lower, NIGHT_MAX_MS
    <3>2. ASSUME NEW fs \in Sizes, SetSize(fs) PROVE NightInv'
      BY <1>0, <3>2 DEF SetSize, NightInv, NIGHT_MAX_MS
    <3>3. ASSUME NEW r \in Rates, SetRate(r) PROVE NightInv'
      BY <3>3 DEF SetRate, NightInv, NIGHT_MAX_MS
    <3>4. ASSUME NEW fs \in Sizes, NEW ms \in Long, NightEnter(fs, ms) PROVE NightInv'
      BY <3>1, <3>4 DEF NightEnter, NightInv
    <3>5. ASSUME NightExit PROVE NightInv'
      BY <3>5 DEF NightExit, NightOff, NightInv, NIGHT_MAX_MS
    <3> QED
      BY <1>4, <3>2, <3>3, <3>4, <3>5 DEF Web
  <2>2. ~Asked'
    BY <1>4 DEF Web, SetSize, SetRate, NightEnter, NightExit, NightOff, Asked
  <2> QED
    BY <1>0, <1>2, <1>3, <2>1, <2>2
<1>5. CASE UNCHANGED vars
  <2>1. UNCHANGED <<fsizePtr, captureFPS, retimePending, nightFrameMs, nightFS>>
    BY <1>5 DEF vars, web
  <2>2. NightInv'
    BY <1>0, <2>1 DEF NightInv
  <2>3. Asked' = Asked /\ Reaches(plan, sensorFS)' = Reaches(plan, sensorFS)
    <3>1. VtsFloor(sensorFS)' = VtsFloor(sensorFS)
      BY <1>1 DEF VtsFloor, RowFloor, RowsRead
    <3>2. FlatOut(plan, sensorFS)' = FlatOut(plan, sensorFS)
      BY <1>1, <3>1 DEF FlatOut, Sclk
    <3>3. FastEnough(plan, sensorFS, captureFPS)' = FastEnough(plan, sensorFS, captureFPS)
      BY <1>1, <2>1 DEF FastEnough, Sclk, LossOf
    <3> QED
      BY <1>1, <2>1, <3>2, <3>3 DEF Asked, Reaches, NightRuns
  <2>4. PlannedInv'
    BY <1>0, <1>1, <2>1, <2>3 DEF PlannedInv, Untouched, Becomes, BytesBecome
  <2> QED
    BY <1>0, <1>2, <2>2, <2>4
<1> QED
  BY <1>4, <1>5

\* settleSensor(): a new size has the driver's window and line; the old one is tuned again.
LEMMA TunedSettle ==
  ASSUME TInv, TunedInv, Settle
  PROVE  TunedInv'
<1> SUFFICES ASSUME lost = 0
             PROVE  (NightInv /\ VtsInv /\ BaseInv /\ WindowInv /\ LineInv /\ PlannedInv)'
  BY DEF TunedInv, Settle
<1>0. NightInv /\ VtsInv /\ BaseInv /\ WindowInv /\ LineInv /\ PlannedInv
  BY DEF TunedInv
<1>1. /\ pc = "idle" /\ todo = <<>> /\ pc' = "size" /\ todo' = <<>>
      /\ UNCHANGED <<nightFrameMs, nightFS, nightHtsBase, nightHtsFS>>
      /\ sensorFS \in Sizes /\ fsizePtr \in Sizes
  BY DEF Settle, base, TInv, WebInv
<1>2. NightInv' /\ BaseInv'
  BY <1>0, <1>1 DEF NightInv, BaseInv, Binned, LineOf
<1>3. LineInv' /\ PlannedInv'
  BY <1>1 DEF LineInv, PlannedInv
<1>4. Range(todo') = {}
  BY <1>1 DEF Range
<1>5. CASE sensorFS' = fsizePtr /\ reg' = DriverRegs(fsizePtr)
  <2>1. PICK fs \in Sizes : fs = fsizePtr
    BY <1>1
  <2>2. /\ reg'.cols = Driver[fs].cols /\ reg'.ySt = Driver[fs].ySt
        /\ reg'.yEnd = Driver[fs].ySt + Driver[fs].rows - 1
        /\ reg'.yOff = Driver[fs].yOff /\ reg'.hts = Driver[fs].hts /\ reg'.vts = Driver[fs].vts
    BY <1>5, <2>1 DEF DriverRegs
  <2>3. reg'.yEnd - reg'.ySt + 1 = Driver[fs].rows /\ reg'.vts \in Nat
    BY <2>2, SizeFacts
  <2>4. VtsInv'
    BY <1>4, <2>3 DEF VtsInv
  <2>5. Uncut(fs)'
    BY <1>4, <2>2, <2>3 DEF Uncut, Untouched, Whole, RowsRead
  <2>6. WindowInv'
    BY <1>1, <1>4, <1>5, <2>1, <2>2, <2>5 DEF WindowInv, Untouched
  <2> QED
    BY <1>2, <1>3, <2>4, <2>6
<1>6. CASE UNCHANGED <<sensorFS, reg>>
  <2>1. VtsInv'
    BY <1>0, <1>4, <1>6 DEF VtsInv
  <2>2. WindowInv'
    <3> SUFFICES ASSUME ~Binned(sensorFS) PROVE WindowInv'
      BY <1>6 DEF WindowInv
    <3>1. PICK fs \in Sizes : fs = sensorFS /\ sensorFS' = fs
      BY <1>1, <1>6
    <3>2. reg.yOff = Driver[fs].yOff /\ Final(fs)
      BY <1>0, <1>1, <3>1 DEF WindowInv
    <3>3. reg.hts = LineOf(fs) \/ Held(fs)
      <4>1. PICK h \in Nat : h = plan.hts
        BY <1>0, <1>1 DEF PlannedInv
      <4>2. BytesBecome("hts", h) /\ reg.hts \in Nat
        BY <1>0, <1>1, <4>1 DEF PlannedInv, TInv, RegInv
      <4>3. reg.hts = h
        BY <1>1, <4>2, Done
      <4> QED
        BY <1>0, <1>1, <3>1, <4>1, <4>3 DEF LineInv
    <3>4. Uncut(fs)'
      BY <1>1, <1>4, <1>6, <3>2, <3>3 DEF Uncut, Untouched, Held, Final, Whole, IsCut, RowsRead
    <3> QED
      BY <1>1, <1>4, <1>6, <3>1, <3>2, <3>4 DEF WindowInv, Untouched
  <2> QED
    BY <1>2, <1>3, <2>1, <2>2
<1> QED
  BY <1>5, <1>6 DEF Settle

\* A part of the tuning leaves the registers, and what is promised, to its writes.
LEMMA StepFacts ==
  ASSUME TInv, TunedInv, lost = 0, NEW from, NEW to, NEW writes, Step(from, to, writes)
  PROVE  /\ NightInv /\ VtsInv /\ BaseInv /\ WindowInv /\ LineInv /\ PlannedInv
         /\ pc = from /\ todo = <<>> /\ pc' = to /\ todo' = writes
         /\ UNCHANGED <<reg, sensorFS, fsizePtr, captureFPS, retimePending, nightFrameMs,
                        nightFS, nightPrev, lost>>
         /\ sensorFS \in Sizes /\ reg.hts \in Nat
         /\ NightInv'
         /\ UNCHANGED base => BaseInv' /\ UNCHANGED <<nightHtsBase, nightHtsFS>>
<1>1. /\ NightInv /\ VtsInv /\ BaseInv /\ WindowInv /\ LineInv /\ PlannedInv
      /\ pc = from /\ todo = <<>> /\ pc' = to /\ todo' = writes
      /\ UNCHANGED <<reg, sensorFS, fsizePtr, captureFPS, retimePending, nightFrameMs,
                     nightFS, nightPrev, lost>>
  BY DEF TunedInv, Step, web
<1>2. sensorFS \in Sizes /\ reg.hts \in Nat
  BY DEF TInv, WebInv, RegInv
<1>3. NightInv'
  BY <1>1 DEF NightInv
<1>4. UNCHANGED base => BaseInv' /\ UNCHANGED <<nightHtsBase, nightHtsFS>>
  BY <1>1 DEF base, BaseInv, Binned, LineOf
<1> QED
  BY <1>1, <1>2, <1>3, <1>4

\* setOutputSize().
LEMMA TunedOutputSize ==
  ASSUME TInv, TunedInv, ApplyOutputSize
  PROVE  TunedInv'
<1> DEFINE x == w("outH", Driver[sensorFS].outH)
           ws == IF sensorFS = "1280X960" THEN <<x>> ELSE <<>>
<1> SUFFICES ASSUME lost = 0 PROVE TunedInv'
  BY DEF TunedInv, ApplyOutputSize, Step
<1>0. x.reg = "outH"
  BY DEF w
<1>1. Step("size", "crop", ws) /\ UNCHANGED base
  BY DEF ApplyOutputSize
<1> HIDE DEF x
<1>2. \A y \in Range(ws) : y = x
  BY DEF Range
<1> HIDE DEF ws
<1>3. /\ VtsInv /\ WindowInv
      /\ pc = "size" /\ todo = <<>> /\ pc' = "crop" /\ todo' = ws
      /\ UNCHANGED <<reg, sensorFS, nightHtsBase, nightHtsFS>>
      /\ sensorFS \in Sizes
      /\ NightInv' /\ BaseInv'
  BY <1>1, StepFacts
<1>4. \A y \in Range(todo') : y.reg = "outH"
  BY <1>0, <1>2, <1>3
<1>5. VtsInv'
  BY <1>3, <1>4 DEF VtsInv
<1>6. LineInv' /\ PlannedInv'
  BY <1>3 DEF LineInv, PlannedInv
<1>7. WindowInv'
  <2> SUFFICES ASSUME ~Binned(sensorFS) PROVE WindowInv'
    BY <1>3 DEF WindowInv
  <2>1. Uncut(sensorFS) /\ reg.yOff = Driver[sensorFS].yOff
    BY <1>3 DEF WindowInv
  <2>2. Uncut(sensorFS)'
    BY <1>3, <1>4, <2>1 DEF Uncut, Untouched, Held, Final, Whole, IsCut, RowsRead
  <2> QED
    BY <1>3, <1>4, <2>1, <2>2 DEF WindowInv, Untouched, WindowRegs
<1> QED
  BY <1>3, <1>5, <1>6, <1>7 DEF TunedInv

\* applyCropWindow() cuts a window that is whole, and only if there is something to cut.
LEMMA TunedCropWindow ==
  ASSUME TInv, TunedInv, ApplyCropWindow
  PROVE  TunedInv'
<1> SUFFICES ASSUME lost = 0 PROVE TunedInv'
  BY DEF TunedInv, ApplyCropWindow, Step
<1> DEFINE cols == CropCols(sensorFS)
           st == CropStart(sensorFS)
           end == CropStart(sensorFS) + CropRows(sensorFS) - 1
           x == w("cols", cols)
           y == w("ySt", st)
           z == w("yEnd", end)
           Cut == Crops(sensorFS)
<1>0. UNCHANGED base /\ IF Cut THEN Step("crop", "cropRest", <<x, y, z>>)
                               ELSE Step("crop", "rows", <<>>)
  BY DEF ApplyCropWindow
<1>1. /\ x.reg = "cols" /\ y.reg = "ySt" /\ z.reg = "yEnd"
      /\ x.val = cols /\ y.val = st /\ z.val = end
  BY DEF w
<1> HIDE DEF x, y, z
<1>2. PICK to, ws : /\ Step("crop", to, ws)
                    /\ \/ Cut /\ to = "cropRest" /\ ws = <<x, y, z>>
                       \/ ~Cut /\ to = "rows" /\ ws = <<>>
  BY <1>0
<1>3. /\ VtsInv /\ WindowInv
      /\ pc = "crop" /\ todo = <<>> /\ pc' = to /\ todo' = ws
      /\ UNCHANGED <<reg, sensorFS, nightHtsBase, nightHtsFS>>
      /\ sensorFS \in Sizes /\ reg.hts \in Nat
      /\ NightInv' /\ BaseInv'
  BY <1>0, <1>2, StepFacts
<1>4. (Cut => Range(todo') = {x, y, z}) /\ (~Cut => Range(todo') = {})
  <2>1. Range(<<x, y, z>>) = {x, y, z} /\ Range(<<>>) = {}
    BY DEF Range
  <2> QED
    BY <1>2, <1>3, <2>1
<1>5. VtsInv'
  BY <1>1, <1>3, <1>4 DEF VtsInv
<1>6. LineInv' /\ PlannedInv'
  BY <1>2, <1>3 DEF LineInv, PlannedInv
<1>7. WindowInv'
  <2> SUFFICES ASSUME ~Binned(sensorFS) PROVE WindowInv'
    BY <1>3 DEF WindowInv
  <2>1. PICK fs \in Sizes : fs = sensorFS /\ sensorFS' = fs
    BY <1>3
  <2>2. Uncut(fs) /\ reg.yOff = Driver[fs].yOff
    BY <1>3, <2>1 DEF WindowInv
  <2>3. CropRows(fs) = CutRows(fs)
    BY <2>2 DEF CropRows, CutRows
  <2>4. Cut <=> /\ CutRows(fs) <= RowsRead /\ CropCols(fs) <= reg.cols
                /\ ~(CutRows(fs) = RowsRead /\ CropCols(fs) = reg.cols)
    BY <2>1, <2>3 DEF Crops
  <2>5. Cut => Whole(fs) /\ reg.hts = Driver[fs].hts /\ Cuts(fs)
    BY <2>2, <2>4 DEF Uncut, Whole, Final, IsCut, Cuts
  <2>6. ~Cut => Final(fs) /\ (reg.hts = LineOf(fs) \/ Held(fs))
    <3> SUFFICES ASSUME ~Cut PROVE Final(fs) /\ (reg.hts = LineOf(fs) \/ Held(fs))
      OBVIOUS
    <3>1. CASE Whole(fs) /\ reg.hts = Driver[fs].hts
      <4>1. ~Cuts(fs)
        BY <2>4, <3>1 DEF Whole, Cuts
      <4> QED
        BY <2>1, <3>1, <4>1 DEF Final, LineOf
    <3> QED
      BY <2>2, <3>1 DEF Uncut
  <2>7. CASE Cut
    <3>0. PICK b \in Int : b = st
      BY <2>1, <2>7, CropFits DEF TInv
    <3>1. PICK c, e : c = cols /\ b = st /\ e = end
      BY <3>0
    <3>2. e = b + CutRows(fs) - 1 /\ c = CropCols(fs)
      BY <2>1, <2>3, <3>1
    <3>3. (Becomes("cols", c) /\ Becomes("ySt", b) /\ Becomes("yEnd", e))'
      BY <1>1, <1>4, <2>7, <3>1 DEF Becomes
    <3>4. Untouched({"hts"})' /\ Untouched({"yOff"})'
      BY <1>1, <1>4, <2>7 DEF Untouched
    <3>5. Cutting(fs)'
      BY <1>3, <2>5, <2>7, <3>2, <3>3, <3>4 DEF Cutting
    <3> QED
      BY <1>2, <1>3, <2>1, <2>2, <2>7, <3>4, <3>5 DEF WindowInv
  <2>8. CASE ~Cut
    <3>1. Untouched({"yOff"})' /\ Untouched(WindowRegs)'
      BY <1>4, <2>8 DEF Untouched
    <3>2. Final(fs)'
      BY <1>3, <2>6, <2>8 DEF Final, Whole, IsCut, RowsRead
    <3>3. BytesBecome("hts", LineOf(fs))' \/ Held(fs)'
      BY <1>3, <1>4, <2>6, <2>8 DEF BytesBecome, Held
    <3> QED
      BY <1>2, <1>3, <2>1, <2>2, <2>8, <3>1, <3>2, <3>3 DEF WindowInv
  <2> QED
    BY <2>7, <2>8
<1> QED
  BY <1>3, <1>5, <1>6, <1>7 DEF TunedInv

\* What there is to write of a line, of a frame length and of the PLL.
LEMMA InOrderRange ==
  ASSUME NEW old \in Nat, NEW v \in Nat
  PROVE  LET s == InOrder("hts", old, v)
         IN  /\ s \in Seq({hi("hts", v), lo("hts", v)})
             /\ old = v => Range(s) = {}
             /\ old # v => Range(s) = {hi("hts", v), lo("hts", v)}
<1>1. \A a, b : /\ <<a, b>> \in Seq({a, b}) /\ <<b, a>> \in Seq({a, b}) /\ <<>> \in Seq({a, b})
                /\ Range(<<a, b>>) = {a, b} /\ Range(<<b, a>>) = {a, b} /\ Range(<<>>) = {}
  BY DEF Range
<1> DEFINE s == InOrder("hts", old, v)
           a == hi("hts", v)
           b == lo("hts", v)
<1>2. (v = old /\ s = <<>>) \/ (v # old /\ s = <<a, b>>) \/ (v # old /\ s = <<b, a>>)
  BY DEF InOrder
<1> HIDE DEF s, a, b
<1>3. s \in Seq({a, b}) /\ (old = v => Range(s) = {}) /\ (old # v => Range(s) = {a, b})
  <2>1. CASE v = old /\ s = <<>>
    <3>1. Range(s) = {} /\ s \in Seq({a, b})
      BY <1>1, <2>1
    <3> QED
      BY <2>1, <3>1
  <2>2. CASE v # old /\ s = <<a, b>>
    <3>1. Range(s) = {a, b} /\ s \in Seq({a, b})
      BY <1>1, <2>2
    <3> QED
      BY <2>2, <3>1
  <2>3. CASE v # old /\ s = <<b, a>>
    <3>1. Range(s) = {a, b} /\ s \in Seq({a, b})
      BY <1>1, <2>3
    <3> QED
      BY <2>3, <3>1
  <2> QED
    BY <1>2, <2>1, <2>2, <2>3
<1> QED
  BY <1>3 DEF s, a, b

LEMMA VtsRange ==
  ASSUME NEW v
  PROVE  LET s == WriteVts(v)
             S == {hi("vts", v), lo("vts", v), w("vts", v)}
         IN  /\ s \in Seq(S) /\ Range(s) \subseteq S
             /\ {hi("vts", v), lo("vts", v)} \subseteq Range(s) \/ w("vts", v) \in Range(s)
<1>1. \A a, b, c : /\ <<a, b>> \in Seq({a, b, c}) /\ <<c>> \in Seq({a, b, c})
                   /\ Range(<<a, b>>) = {a, b} /\ Range(<<c>>) = {c}
  BY DEF Range
<1> DEFINE a == hi("vts", v)
           b == lo("vts", v)
           c == w("vts", v)
           s == WriteVts(v)
<1>2. s = <<a, b>> \/ s = <<c>>
  BY DEF WriteVts
<1> HIDE DEF a, b, c, s
<1>3. /\ s \in Seq({a, b, c}) /\ Range(s) \subseteq {a, b, c}
      /\ {a, b} \subseteq Range(s) \/ c \in Range(s)
  <2>1. CASE s = <<a, b>>
    <3>1. Range(s) = {a, b} /\ s \in Seq({a, b, c})
      BY <1>1, <2>1
    <3> QED
      BY <3>1
  <2>2. CASE s = <<c>>
    <3>1. Range(s) = {c} /\ s \in Seq({a, b, c})
      BY <1>1, <2>2
    <3> QED
      BY <3>1
  <2> QED
    BY <1>2, <2>1, <2>2
<1> QED
  BY <1>3 DEF a, b, c, s

LEMMA PllRange ==
  ASSUME NEW p, p.route \in {"A", "B"}
  PROVE  /\ PllWrites(p) \in Seq(Range(PllWrites(p)))
         /\ Range(PllWrites(p)) = {w("route", p.route), w("sysDiv", p.sysDiv), w("mul", p.mul)}
<1> DEFINE a == w("route", "A")
           b == w("sysDiv", p.sysDiv)
           c == w("mul", p.mul)
           e == w("route", "B")
           s == PllWrites(p)
<1>1. \A i, j, k : Range(<<i, j, k>>) = {i, j, k} /\ <<i, j, k>> \in Seq({i, j, k})
  BY DEF Range
<1>2. (p.route = "A" => s = <<a>> \o <<b, c>> \o <<>>) /\ (p.route = "B" => s = <<>> \o <<b, c>> \o <<e>>)
  BY DEF PllWrites
<1>3. (p.route = "A" => w("route", p.route) = a) /\ (p.route = "B" => w("route", p.route) = e)
  OBVIOUS
<1> HIDE DEF a, b, c, e, s
<1>4. (p.route = "A" => s = <<a, b, c>>) /\ (p.route = "B" => s = <<b, c, e>>)
  BY <1>2, Joined
<1> DEFINE r == w("route", p.route)
<1> HIDE DEF r
<1>5. s \in Seq(Range(s)) /\ Range(s) = {r, b, c}
  <2>1. CASE p.route = "A"
    <3>1. r = a /\ s = <<a, b, c>>
      BY <1>3, <1>4, <2>1 DEF r
    <3> QED
      BY <1>1, <3>1
  <2>2. CASE p.route = "B"
    <3>1. r = e /\ s = <<b, c, e>>
      BY <1>3, <1>4, <2>2 DEF r
    <3> QED
      BY <1>1, <3>1
  <2> QED
    BY <2>1, <2>2
<1> QED
  BY <1>5 DEF r, b, c, s

\* Two bytes, or the whole, promise the value; so does a register that has it.
LEMMA BytesPromised ==
  ASSUME NEW name, NEW v \in Nat,
         \A x \in Range(todo') : x.reg = name => x \in {hi(name, v), lo(name, v), w(name, v)},
         \/ reg'[name] = v
         \/ {hi(name, v), lo(name, v)} \subseteq Range(todo')
         \/ w(name, v) \in Range(todo')
  PROVE  BytesBecome(name, v)'
<1> DEFINE a == hi(name, v)
           b == lo(name, v)
           c == w(name, v)
<1>1. /\ a.reg = name /\ a.part = "hi" /\ a.val = Hi(v)
      /\ b.reg = name /\ b.part = "lo" /\ b.val = Lo(v)
      /\ c.reg = name /\ c.part = "all" /\ c.val = v
  BY DEF hi, lo, w
<1>2. a.val = ByteOf(a, v) /\ b.val = ByteOf(b, v) /\ c.val = ByteOf(c, v)
  BY <1>1 DEF ByteOf
<1>3. \/ reg'[name] = v
      \/ {a, b} \subseteq Range(todo')
      \/ c \in Range(todo')
  OBVIOUS
<1>4. \A x \in Range(todo') : x.reg = name => x \in {a, b, c}
  OBVIOUS
<1> HIDE DEF a, b, c
<1>5. \A x \in Range(todo') : x.reg = name => x.val = ByteOf(x, v)
  BY <1>2, <1>4
<1>6. /\ Hi(reg'[name]) = Hi(v) \/ \E x \in Range(todo') : x.reg = name /\ x.part # "lo"
      /\ Lo(reg'[name]) = Lo(v) \/ \E x \in Range(todo') : x.reg = name /\ x.part # "hi"
  BY <1>1, <1>3
<1> QED
  BY <1>5, <1>6 DEF BytesBecome

\* applyCropWindow(), when the window took: the frame, the scaler and the line.
LEMMA TunedCropRest ==
  ASSUME TInv, TunedInv, ApplyCropRest
  PROVE  TunedInv'
<1> SUFFICES ASSUME lost = 0 PROVE TunedInv'
  BY DEF TunedInv, ApplyCropRest, Step
<1> DEFINE floor == Higher(reg.cols + 76, HTS_FLOOR_FULLRES)
           d == Driver[sensorFS]
           took == CropRows(sensorFS) = RowsRead /\ CropCols(sensorFS) = reg.cols
           rf == RowFloor(sensorFS)
           V == WriteVts(rf)
           x == w("scaler", FALSE)
           off == (d.pre = 0 \/ d.pre = d.outW) /\ reg.scaler
           X == IF off THEN <<x>> ELSE <<>>
           a == hi("hts", floor)
           b == lo("hts", floor)
           shorter == ~Binned(sensorFS) /\ reg.hts > floor
           H == IF shorter THEN <<a, b>> ELSE <<>>
           S == {hi("vts", rf), lo("vts", rf), w("vts", rf)} \cup {x} \cup {a, b}
           ws == IF took THEN V \o X \o H ELSE <<>>
<1>1. Step("cropRest", "rows", ws) /\ UNCHANGED base
  BY DEF ApplyCropRest
<1>2. /\ V \in Seq(S) /\ Range(V) \subseteq {hi("vts", rf), lo("vts", rf), w("vts", rf)}
  <2> DEFINE T == {hi("vts", rf), lo("vts", rf), w("vts", rf)}
  <2>1. V \in Seq(T) /\ Range(V) \subseteq T
    <3> HIDE DEF rf
    <3> QED
      BY VtsRange
  <2>2. T \subseteq S
    OBVIOUS
  <2>3. Range(V) \subseteq T
    BY <2>1
  <2> HIDE DEF V, S, T
  <2>4. V \in Seq(S)
    BY <2>1, <2>2
  <2> QED
    BY <2>3, <2>4 DEF T
<1>3. X \in Seq(S) /\ Range(X) \subseteq {x} /\ H \in Seq(S)
      /\ (shorter => Range(H) = {a, b}) /\ (~shorter => Range(H) = {})
  <2> DEFINE T == {hi("vts", rf), lo("vts", rf), w("vts", rf)}
  <2> HIDE DEF a, b, x, T, shorter, off
  <2>1. /\ Range(<<a, b>>) = {a, b} /\ Range(<<x>>) = {x} /\ Range(<<>>) = {}
        /\ <<a, b>> \in Seq(T \cup {x} \cup {a, b}) /\ <<x>> \in Seq(T \cup {x} \cup {a, b})
        /\ <<>> \in Seq(T \cup {x} \cup {a, b})
    BY DEF Range
  <2>2. X \in Seq(T \cup {x} \cup {a, b}) /\ Range(X) \subseteq {x} /\ H \in Seq(T \cup {x} \cup {a, b})
        /\ (shorter => Range(H) = {a, b}) /\ (~shorter => Range(H) = {})
    BY <2>1
  <2> QED
    BY <2>2 DEF T
<1>4. Range(V \o X \o H) = Range(V) \cup Range(X) \cup Range(H)
  <2> HIDE DEF V, X, H, S
  <2> DEFINE U == V \o X
  <2>1. U \in Seq(S) /\ Range(U) = Range(V) \cup Range(X)
    BY <1>2, <1>3, RangeJoin
  <2> HIDE DEF U
  <2>2. Range(U \o H) = Range(U) \cup Range(H)
    BY <1>3, <2>1, RangeJoin
  <2> QED
    BY <2>1, <2>2 DEF U
<1>5. /\ hi("vts", rf).reg = "vts" /\ lo("vts", rf).reg = "vts" /\ w("vts", rf).reg = "vts"
      /\ hi("vts", rf).val = Hi(rf) /\ lo("vts", rf).val = Lo(rf) /\ w("vts", rf).val = rf
      /\ x.reg = "scaler" /\ a.reg = "hts" /\ b.reg = "hts"
  BY DEF hi, lo, w
<1>6. Range(<<>>) = {}
  BY DEF Range
<1> HIDE DEF V, X, H, S, ws
<1>7. /\ VtsInv /\ WindowInv
      /\ pc = "cropRest" /\ todo = <<>> /\ pc' = "rows" /\ todo' = ws
      /\ UNCHANGED <<reg, sensorFS, nightHtsBase, nightHtsFS>>
      /\ sensorFS \in Sizes /\ reg.hts \in Nat
      /\ NightInv' /\ BaseInv'
  BY <1>1, StepFacts
<1>8. \A y \in Range(todo') : \/ took /\ y \in {hi("vts", rf), lo("vts", rf), w("vts", rf)}
                              \/ y = x
                              \/ shorter /\ y \in {a, b}
  <2> HIDE DEF a, b, x, rf, took, shorter
  <2> QED
    BY <1>2, <1>3, <1>4, <1>6, <1>7 DEF ws
<1>9. VtsInv'
  <2>1. took => rf \in Nat
    <3> SUFFICES ASSUME took PROVE rf \in Nat
      OBVIOUS
    <3>1. CropRows(sensorFS) \in Nat
      <4>1. /\ d.ss \in {1, 2} /\ d.pre \in Nat /\ d.outH \in Nat /\ d.outW \in Nat \ {0}
            /\ reg.yOff \in Nat
        BY <1>7, SizeFacts DEF TInv, RegInv
      <4> DEFINE r == IF d.pre > 0 THEN (d.pre * d.outH) \div d.outW ELSE d.outH
      <4>2. CropRows(sensorFS) = (r + 2 * reg.yOff) * d.ss
        BY DEF CropRows
      <4> HIDE DEF d
      <4>3. r \in Nat
        <5>1. \A i, j \in Nat : i * j \in Nat
          OBVIOUS
        <5>2. \A n \in Nat : \A i \in Nat \ {0} : n \div i \in Nat
          OBVIOUS
        <5>3. (d.pre * d.outH) \div d.outW \in Nat
          BY <4>1, <5>1, <5>2
        <5> QED
          BY <4>1, <5>3
      <4> HIDE DEF r
      <4>4. 2 * reg.yOff \in Nat
        BY <4>1
      <4> QED
        BY <4>1, <4>2, <4>3, <4>4
    <3>2. RowsRead \in Nat
      BY <3>1
    <3> QED
      BY <3>2 DEF RowFloor
  <2>2. rf \in Nat => Hi(rf) \in Nat /\ Lo(rf) \in Nat
    BY DEF Hi, Lo
  <2> HIDE DEF rf, a, b, x, took, shorter
  <2> QED
    BY <1>5, <1>7, <1>8, <2>1, <2>2 DEF VtsInv
<1>10. LineInv' /\ PlannedInv'
  BY <1>7 DEF LineInv, PlannedInv
<1>11. WindowInv'
  <2> SUFFICES ASSUME ~Binned(sensorFS) PROVE WindowInv'
    BY <1>7 DEF WindowInv
  <2>1. PICK fs \in Sizes : fs = sensorFS /\ sensorFS' = fs
    BY <1>7
  <2>2. Cutting(fs) /\ reg.yOff = Driver[fs].yOff
    BY <1>7, <2>1 DEF WindowInv
  <2>3. reg.cols = CropCols(fs) /\ RowsRead = CutRows(fs)
    <3>1. PICK st \in Int : Becomes("ySt", st) /\ Becomes("yEnd", st + CutRows(fs) - 1)
      BY <2>2 DEF Cutting
    <3>2. reg.ySt = st /\ reg.yEnd = st + CutRows(fs) - 1 /\ reg.cols = CropCols(fs)
      BY <1>7, <2>2, <3>1, Done DEF Cutting
    <3>3. CutRows(fs) \in Nat
      BY LineFacts
    <3> QED
      BY <3>2, <3>3 DEF RowsRead
  <2>4. took
    BY <2>1, <2>2, <2>3 DEF CropRows, CutRows
  <2>5. Final(fs)'
    BY <1>7, <2>2, <2>3 DEF Cutting, Final, IsCut, RowsRead
  <2>6. Untouched({"yOff"})' /\ Untouched(WindowRegs)'
    <3> HIDE DEF a, b, x, rf, took, shorter
    <3> QED
      BY <1>5, <1>8 DEF Untouched, WindowRegs
  <2>7. PICK n \in Nat : n = LineOf(fs)
    BY <2>1, LineFacts
  <2>8. n = Lower(reg.hts, floor)
    <3>1. Cuts(fs) /\ reg.hts = Driver[fs].hts /\ ~Binned(fs)
      BY <2>1, <2>2 DEF Cutting
    <3> QED
      BY <2>3, <2>7, <3>1 DEF LineOf
  <2>9. (shorter => n = floor) /\ (~shorter => n = reg.hts)
    <3>1. floor \in Int
      <4>1. reg.cols \in Nat
        BY DEF TInv, RegInv
      <4> QED
        BY <4>1 DEF Higher, HTS_FLOOR_FULLRES
    <3> QED
      BY <1>7, <2>8, <3>1 DEF Lower
  <2>10. shorter => {a, b} \subseteq Range(todo')
    <3> HIDE DEF a, b, x, rf, shorter
    <3>1. took
      BY <2>4
    <3> HIDE DEF took
    <3> QED
      BY <1>3, <1>4, <1>7, <3>1 DEF ws
  <2>11. BytesBecome("hts", n)'
    <3>1. shorter => a = hi("hts", n) /\ b = lo("hts", n)
      BY <2>9
    <3>2. \A y \in Range(todo') : y.reg = "hts" => shorter /\ y \in {a, b}
      <4> HIDE DEF a, b, x, rf, took, shorter
      <4> QED
        BY <1>5, <1>8
    <3>3. shorter \/ reg'.hts = n
      BY <1>7, <2>9
    <3> HIDE DEF a, b, x, rf, took, shorter
    <3> QED
      BY <2>10, <3>1, <3>2, <3>3, BytesPromised
  <2> QED
    BY <1>7, <2>1, <2>2, <2>5, <2>6, <2>7, <2>11 DEF WindowInv
<1> QED
  BY <1>7, <1>9, <1>10, <1>11 DEF TunedInv

\* What nothing to come touches keeps its promise.
LEMMA PromiseKept ==
  ASSUME todo = <<>>, reg' = reg, NEW name, \A x \in Range(todo') : x.reg # name, NEW v
  PROVE  /\ Becomes(name, v) => Becomes(name, v)'
         /\ BytesBecome(name, v) => BytesBecome(name, v)'
<1>1. Range(todo) = {}
  BY DEF Range
<1> QED
  BY <1>1 DEF Becomes, BytesBecome

LEMMA ReachesKept ==
  ASSUME NEW p, NEW fs, UNCHANGED <<captureFPS, nightFrameMs, nightFS>>,
         reg'.ySt = reg.ySt, reg'.yEnd = reg.yEnd
  PROVE  Reaches(p, fs)' = Reaches(p, fs)
<1>1. VtsFloor(fs)' = VtsFloor(fs)
  BY DEF VtsFloor, RowFloor, RowsRead
<1>2. FlatOut(p, fs)' = FlatOut(p, fs)
  BY <1>1 DEF FlatOut, Sclk
<1>3. FastEnough(p, fs, captureFPS)' = FastEnough(p, fs, captureFPS)
  BY DEF FastEnough, Sclk, LossOf
<1>4. NightRuns(fs)' = NightRuns(fs)
  BY DEF NightRuns
<1> QED
  BY <1>2, <1>3, <1>4 DEF Reaches

\* The writes of a plan promise its clock and touch nothing else.
LEMMA PlanPromised ==
  ASSUME NEW p, p.route \in {"A", "B"}, todo' = PllWrites(p)
  PROVE  /\ \A name \in Pll : Becomes(name, p[name])'
         /\ \A x \in Range(todo') : x.reg \in Pll
<1> DEFINE a == w("route", p.route)
           b == w("sysDiv", p.sysDiv)
           c == w("mul", p.mul)
<1>1. Range(todo') = {a, b, c}
  BY PllRange
<1>2. /\ a.reg = "route" /\ a.val = p.route /\ b.reg = "sysDiv" /\ b.val = p.sysDiv
      /\ c.reg = "mul" /\ c.val = p.mul
  BY DEF w
<1> HIDE DEF a, b, c
<1> QED
  BY <1>1, <1>2 DEF Becomes, Pll

\* A size that is not binned keeps its window as long as only other registers are written.
LEMMA WindowKept ==
  ASSUME WindowInv, ~Binned(sensorFS), UNCHANGED <<reg, sensorFS>>,
         pc \notin {"size", "crop", "cropRest"}, pc' \notin {"size", "crop", "cropRest"},
         \A x \in Range(todo') : x.reg \notin WindowRegs,
         pc' \in {"rows", "line"} => BytesBecome("hts", LineOf(sensorFS))' \/ Held(sensorFS)'
  PROVE  WindowInv'
<1>1. Final(sensorFS)' = Final(sensorFS)
  BY DEF Final, IsCut, Whole, RowsRead
<1> QED
  BY <1>1 DEF WindowInv, Untouched, WindowRegs

\* HDV2 alone is tightened, and it is binned.
LEMMA TunedTightRows ==
  ASSUME TInv, TunedInv, ApplyTightRows
  PROVE  TunedInv'
<1> SUFFICES ASSUME lost = 0 PROVE TunedInv'
  BY DEF TunedInv, ApplyTightRows, Step
<1> DEFINE tight == sensorFS = "HDV2" /\ ~(reg.ySt = 256 /\ reg.yEnd = 1695 /\ reg.yOff = 0)
           p == w("scaler", TRUE)
           q == w("yOff", 0)
           r == w("ySt", 256)
           s == w("yEnd", 1695)
           t == w("scaler", FALSE)
           ws == IF tight THEN <<p, q, r, s, t>> ELSE <<>>
<1>0. Step("rows", "line", ws) /\ UNCHANGED base
  BY DEF ApplyTightRows
<1>1. \A x \in Range(ws) : x.reg # "vts" /\ tight
  <2>1. p.reg # "vts" /\ q.reg # "vts" /\ r.reg # "vts" /\ s.reg # "vts" /\ t.reg # "vts"
    BY DEF w
  <2> HIDE DEF p, q, r, s, t, tight
  <2>2. Range(<<p, q, r, s, t>>) = {p, q, r, s, t} /\ Range(<<>>) = {}
    BY DEF Range
  <2> QED
    BY <2>1, <2>2
<1> HIDE DEF ws
<1>2. /\ VtsInv /\ WindowInv
      /\ pc = "rows" /\ todo = <<>> /\ pc' = "line" /\ todo' = ws
      /\ UNCHANGED <<reg, sensorFS, nightHtsBase, nightHtsFS>>
      /\ sensorFS \in Sizes /\ reg.hts \in Nat
      /\ NightInv' /\ BaseInv'
  BY <1>0, StepFacts
<1>3. VtsInv'
  BY <1>1, <1>2 DEF VtsInv
<1>4. LineInv' /\ PlannedInv'
  BY <1>2 DEF LineInv, PlannedInv
<1>5. WindowInv'
  <2> SUFFICES ASSUME ~Binned(sensorFS) PROVE WindowInv'
    BY <1>2 DEF WindowInv
  <2>1. ~tight
    BY SizeFacts, <1>2 DEF Binned
  <2>2. Range(todo') = {}
    BY <1>1, <1>2, <2>1
  <2>3. PICK v : v = LineOf(sensorFS) /\ LineOf(sensorFS)' = v
    BY <1>2
  <2>4. BytesBecome("hts", v)' \/ Held(sensorFS)'
    <3>1. BytesBecome("hts", v) => BytesBecome("hts", v)'
      BY <1>2, <2>2, PromiseKept
    <3> QED
      BY <1>2, <2>3, <3>1 DEF WindowInv, Held
  <2> QED
    BY <1>2, <2>2, <2>3, <2>4, WindowKept
<1> QED
  BY <1>2, <1>3, <1>4, <1>5 DEF TunedInv

\* The line of a binned size is its floor, in the order that keeps it long.
LEMMA TunedHtsFloor ==
  ASSUME TInv, TunedInv, ApplyHtsFloor
  PROVE  TunedInv'
<1> SUFFICES ASSUME lost = 0 PROVE TunedInv'
  BY DEF TunedInv, ApplyHtsFloor, Step
<1> DEFINE v == HtsFloorFor(sensorFS)
           a == hi("hts", v)
           b == lo("hts", v)
           s == InOrder("hts", reg.hts, v)
           ws == IF Binned(sensorFS) THEN s ELSE <<>>
<1>0. Step("line", "retime", ws) /\ UNCHANGED base
  BY DEF ApplyHtsFloor
<1>1. v \in Nat /\ reg.hts \in Nat
  BY DEF HtsFloorFor, HTS_FLOOR, TInv, RegInv
<1>2. (reg.hts = v => Range(s) = {}) /\ (reg.hts # v => Range(s) = {a, b})
  <2> HIDE DEF v
  <2> QED
    BY <1>1, InOrderRange
<1>3. a.reg = "hts" /\ b.reg = "hts" /\ Range(<<>>) = {}
  BY DEF hi, lo, Range
<1> HIDE DEF a, b, s, ws, v
<1>4. /\ VtsInv /\ WindowInv
      /\ pc = "line" /\ todo = <<>> /\ pc' = "retime" /\ todo' = ws
      /\ UNCHANGED <<reg, sensorFS, nightHtsBase, nightHtsFS>>
      /\ sensorFS \in Sizes
      /\ NightInv' /\ BaseInv'
  BY <1>0, StepFacts
<1>5. \A x \in Range(todo') : Binned(sensorFS) /\ x \in {a, b} /\ reg.hts # v
  BY <1>2, <1>3, <1>4 DEF ws
<1>6. VtsInv'
  BY <1>3, <1>4, <1>5 DEF VtsInv
<1>7. PlannedInv'
  BY <1>3, <1>4, <1>5 DEF PlannedInv, Untouched
<1>8. CASE Binned(sensorFS)
  <2>1. WindowInv'
    BY <1>4, <1>8 DEF WindowInv
  <2>2. PICK n \in Nat : n = v
    BY <1>1
  <2>3. LineOf(sensorFS)' = n
    BY <1>4, <1>8, <2>2 DEF LineOf, v
  <2>4. a = hi("hts", n) /\ b = lo("hts", n)
    BY <2>2 DEF a, b
  <2>5. reg'.hts = n \/ {a, b} \subseteq Range(todo')
    BY <1>2, <1>4, <1>8, <2>2 DEF ws
  <2>6. BytesBecome("hts", n)'
    BY <1>5, <2>4, <2>5, BytesPromised
  <2>7. LineInv'
    BY <1>4, <2>3, <2>6 DEF LineInv
  <2> QED
    BY <1>4, <1>6, <1>7, <2>1, <2>7 DEF TunedInv
<1>9. CASE ~Binned(sensorFS)
  <2>1. Range(todo') = {}
    BY <1>5, <1>9
  <2>2. WindowInv'
    BY <1>4, <1>9, <2>1, WindowKept
  <2>3. PICK n : n = LineOf(sensorFS) /\ LineOf(sensorFS)' = n
    BY <1>4
  <2>4. BytesBecome("hts", n)' \/ Held(sensorFS)'
    <3>1. BytesBecome("hts", n) => BytesBecome("hts", n)'
      BY <1>4, <2>1, PromiseKept
    <3> QED
      BY <1>4, <1>9, <2>3, <3>1 DEF WindowInv, Held
  <2>5. LineInv'
    BY <1>4, <2>3, <2>4 DEF LineInv
  <2> QED
    BY <1>4, <1>6, <1>7, <2>2, <2>5 DEF TunedInv
<1> QED
  BY <1>8, <1>9

\* The line before the retime is the size's own, unless a session has it.
LEMMA LineBefore ==
  ASSUME TInv, TunedInv, lost = 0, pc = "retime", todo = <<>>
  PROVE  reg.hts = LineOf(sensorFS) \/ Held(sensorFS)
<1>1. sensorFS \in Sizes /\ reg.hts \in Nat /\ LineInv
  BY DEF TInv, WebInv, RegInv, TunedInv
<1>2. PICK n \in Nat : n = LineOf(sensorFS)
  BY <1>1, LineFacts
<1>3. BytesBecome("hts", n) => reg.hts = n
  BY <1>1, Done
<1> QED
  BY <1>1, <1>2, <1>3 DEF LineInv

\* applyTunedTiming(): a plan that reaches the rate on the line that is given back, or the
\* period of the session that keeps the line.
LEMMA TunedRetime ==
  ASSUME TInv, TunedInv, ApplyTunedTiming
  PROVE  TunedInv'
<1> SUFFICES ASSUME lost = 0 PROVE TunedInv'
  BY DEF TunedInv, ApplyTunedTiming, Step
<1>0. PICK fs \in Sizes : fs = sensorFS
  BY DEF TInv, WebInv
<1> DEFINE back == GivesBack(fs)
           own == IF back THEN nightHtsBase ELSE reg.hts
           night == NightRuns(fs)
           capture == night /\ ~Held(fs)
<1>1. /\ ~Driver[fs].byClock
      /\ plan' = IF night THEN Planned("A", SLOW, NightLine(fs), AEC_VTS_CEIL)
                 ELSE DayPlan(fs, captureFPS, own)
      /\ nightHtsBase' = IF back THEN 0 ELSE IF capture THEN reg.hts ELSE nightHtsBase
      /\ nightHtsFS' = IF back THEN None ELSE IF capture THEN fs ELSE nightHtsFS
  BY <1>0 DEF ApplyTunedTiming, Held
<1>2. PICK p : p = plan' /\ Step("retime", "frame", PllWrites(p))
  BY DEF ApplyTunedTiming
<1>3. /\ NightInv /\ VtsInv /\ BaseInv /\ WindowInv /\ LineInv
      /\ pc = "retime" /\ todo = <<>> /\ pc' = "frame" /\ todo' = PllWrites(p)
      /\ UNCHANGED <<reg, sensorFS, fsizePtr, captureFPS, retimePending, nightFrameMs, nightFS>>
      /\ reg.hts \in Nat
      /\ NightInv'
  BY <1>2, StepFacts
<1>4. reg.hts = LineOf(fs) \/ Held(fs)
  BY <1>0, <1>3, LineBefore
<1>5. /\ nightFrameMs \in Nat /\ captureFPS \in Nat \ {0} /\ nightHtsBase \in Nat
      /\ reg.hts \in Nat /\ reg.hts >= HTS_LEAST
      /\ nightHtsBase > 0 => nightHtsBase >= HTS_LEAST
      /\ nightFrameMs <= NIGHT_MAX_MS
  BY <1>3 DEF TInv, WebInv, RegInv, NightInv
<1>6. VtsFloor(fs) \in Int /\ VtsFloor(fs) <= AEC_VTS_CEIL
  <2>1. RowFloor(fs) \in Int /\ RowFloor(fs) <= AEC_VTS_CEIL
    BY <1>0 DEF TInv, RegInv, RowFloor, RowsRead
  <2> QED
    BY <2>1 DEF VtsFloor, Higher, AEC_VTS_CEIL
<1>7. back <=> nightFrameMs = 0 /\ Held(fs)
  BY DEF GivesBack, Held
<1>8. night => nightFrameMs > 0 /\ ~Binned(fs)
  BY DEF NightRuns
<1>9. Held(fs) => ~Binned(fs) /\ nightHtsBase = LineOf(fs)
  BY <1>3 DEF BaseInv, Held
<1>10. own \in Nat /\ own >= HTS_LEAST /\ (own = LineOf(fs) \/ (Held(fs) /\ ~back))
  BY <1>4, <1>5, <1>7, <1>9 DEF Held
<1>11. BaseInv' /\ (Held(fs) /\ ~back => Held(fs)') /\ (night => Held(fs)')
  <2>1. CASE back
    <3>1. nightHtsBase' = 0 /\ ~night
      BY <1>1, <1>7, <1>8, <2>1
    <3> QED
      BY <2>1, <3>1 DEF BaseInv
  <2>2. CASE ~back /\ capture
    <3>1. nightHtsBase' = reg.hts /\ nightHtsFS' = fs /\ reg.hts > 0 /\ reg.hts = LineOf(fs)
      BY <1>1, <1>4, <1>5, <2>2 DEF HTS_LEAST
    <3>2. fs \in Sizes /\ ~Binned(fs) /\ ~Driver[fs].byClock
      BY <1>0, <1>1, <1>8, <2>2
    <3> QED
      BY <2>2, <3>1, <3>2 DEF BaseInv, Held, LineOf, Binned
  <2>3. CASE ~back /\ ~capture
    <3>1. UNCHANGED <<nightHtsBase, nightHtsFS>>
      BY <1>1, <2>3
    <3>2. night => Held(fs)
      BY <2>3
    <3> QED
      BY <1>3, <3>1, <3>2 DEF BaseInv, Held, LineOf, Binned
  <2> QED
    BY <2>1, <2>2, <2>3
<1> HIDE DEF back, own, night
<1>12. /\ p.route \in {"A", "B"} /\ p.hts \in Nat /\ p.vts \in Nat /\ Reaches(p, fs)
       /\ p.hts = LineOf(fs) \/ Held(fs)'
  <2>1. CASE night
    <3>1. p = Planned("A", SLOW, NightLine(fs), AEC_VTS_CEIL)
      BY <1>1, <1>2, <2>1
    <3>2. p.route = "A" /\ p.hts = NightLine(fs) /\ p.vts = AEC_VTS_CEIL
      BY <3>1 DEF Planned
    <3>3. /\ NightLine(fs) \in Nat
          /\ NightLine(fs) * 2 * AEC_VTS_CEIL >= (nightFrameMs - 1) * NIGHT_KHZ
      BY <1>3, <1>5, NightReaches
    <3>4. AEC_VTS_CEIL \in Nat /\ nightFrameMs # 0
      BY <1>8, <2>1 DEF AEC_VTS_CEIL
    <3>5. Reaches(p, fs)
      BY <3>2, <3>3, <3>4 DEF Reaches
    <3> QED
      BY <1>11, <2>1, <3>2, <3>3, <3>4, <3>5
  <2>2. CASE ~night
    <3>1. p = DayPlan(fs, captureFPS, own)
      BY <1>1, <1>2, <2>2
    <3>2. PICK fps \in Nat \ {0} : fps = captureFPS
      BY <1>5
    <3>3. PICK h \in Nat : h = own
      BY <1>10
    <3>4. h >= HTS_LEAST /\ p = DayPlan(fs, fps, h)
      BY <1>10, <3>1, <3>2, <3>3
    <3>5. (FastEnough(p, fs, fps) \/ FlatOut(p, fs)) /\ p.hts = h /\ p.vts \in Nat
      BY <1>6, <3>4, DayReaches
    <3>6. p.route \in {"A", "B"}
      BY <3>4 DEF DayPlan, Planned
    <3>7. nightFrameMs = 0 => h = LineOf(fs)
      BY <1>7, <1>10, <3>3
    <3>8. Reaches(p, fs)
      BY <2>2, <3>2, <3>5, <3>7 DEF Reaches, night
    <3> QED
      BY <1>10, <1>11, <3>3, <3>5, <3>6, <3>8
  <2> QED
    BY <2>1, <2>2
<1>13. (\A name \in Pll : Becomes(name, p[name])') /\ \A x \in Range(todo') : x.reg \in Pll
  BY <1>3, <1>12, PlanPromised
<1>14. VtsInv'
  BY <1>3, <1>13 DEF VtsInv, Pll
<1>15. WindowInv'
  <2>1. CASE Binned(sensorFS)
    BY <1>3, <2>1 DEF WindowInv
  <2>2. CASE ~Binned(sensorFS)
    BY <1>3, <1>13, <2>2, WindowKept DEF Pll, WindowRegs
  <2> QED
    BY <2>1, <2>2
<1>16. LineInv'
  BY <1>0, <1>2, <1>3, <1>12 DEF LineInv, LineOf, Binned
<1>17. PlannedInv'
  <2>1. Reaches(p, fs)'
    BY <1>3, <1>12, ReachesKept
  <2>2. (\A name \in Pll : Becomes(name, plan[name]))'
    BY <1>2, <1>13
  <2>3. Untouched({"ySt", "yEnd"})'
    BY <1>13 DEF Untouched, Pll
  <2> QED
    BY <1>0, <1>2, <1>3, <1>12, <2>1, <2>2, <2>3 DEF PlannedInv
<1>18. lost' = 0 /\ BaseInv'
  BY <1>11, <1>2, StepFacts
<1> QED
  BY <1>3, <1>14, <1>15, <1>16, <1>17, <1>18 DEF TunedInv

\* applyTunedTiming(), once the PLL reads back: the line and the frame.
LEMMA TunedFrame ==
  ASSUME TInv, TunedInv, ApplyFrame
  PROVE  TunedInv'
<1> SUFFICES ASSUME lost = 0 PROVE TunedInv'
  BY DEF TunedInv, ApplyFrame, Step
<1> DEFINE L == InOrder("hts", reg.hts, plan.hts)
           V == WriteVts(plan.vts)
           same == reg.mul = plan.mul /\ reg.route = plan.route
           ws == IF same THEN L \o V ELSE <<>>
<1>0. Step("frame", "aec", ws) /\ UNCHANGED <<plan, base>>
  BY DEF ApplyFrame
<1> HIDE DEF ws
<1>1. /\ VtsInv /\ WindowInv /\ LineInv /\ PlannedInv
      /\ pc = "frame" /\ todo = <<>> /\ pc' = "aec" /\ todo' = ws
      /\ UNCHANGED <<reg, plan, sensorFS, fsizePtr, captureFPS, retimePending, nightFrameMs,
                     nightFS, nightHtsBase, nightHtsFS, lost>>
      /\ sensorFS \in Sizes /\ reg.hts \in Nat
      /\ NightInv' /\ BaseInv'
  BY <1>0, StepFacts
<1>2. PICK h \in Nat, v \in Nat : h = plan.hts /\ v = plan.vts
  BY <1>1 DEF PlannedInv
<1> DEFINE a == hi("hts", h)
           b == lo("hts", h)
           i == hi("vts", v)
           j == lo("vts", v)
           k == w("vts", v)
           S == {a, b} \cup {i, j, k}
<1>3. same
  <2>1. \A name \in Pll : Becomes(name, plan[name])
    BY <1>1 DEF PlannedInv
  <2>2. \A name \in Pll : reg[name] = plan[name]
    BY <1>1, <2>1, Done
  <2> QED
    BY <2>2 DEF Pll
<1>4. /\ L \in Seq({a, b}) /\ (reg.hts = h => Range(L) = {}) /\ (reg.hts # h => Range(L) = {a, b})
  BY <1>1, <1>2, InOrderRange
<1>5. /\ V \in Seq({i, j, k}) /\ Range(V) \subseteq {i, j, k}
      /\ {i, j} \subseteq Range(V) \/ k \in Range(V)
  BY <1>2, VtsRange
<1>6. /\ a.reg = "hts" /\ b.reg = "hts" /\ i.reg = "vts" /\ j.reg = "vts" /\ k.reg = "vts"
      /\ i.val \in Nat /\ j.val \in Nat /\ k.val \in Nat
  BY DEF hi, lo, w, Hi, Lo
<1> HIDE DEF L, V, a, b, i, j, k, same
<1>7. Range(todo') = Range(L) \cup Range(V)
  <2>1. {a, b} \subseteq S /\ {i, j, k} \subseteq S
    OBVIOUS
  <2> HIDE DEF S
  <2>2. L \in Seq(S) /\ V \in Seq(S)
    BY <1>4, <1>5, <2>1
  <2>3. Range(L \o V) = Range(L) \cup Range(V)
    BY <2>2, RangeJoin
  <2> QED
    BY <1>1, <1>3, <2>3 DEF ws
<1>8. \A x \in Range(todo') : (x \in {a, b} /\ x.reg = "hts") \/ (x \in {i, j, k} /\ x.reg = "vts")
  BY <1>4, <1>5, <1>6, <1>7
<1>9. BytesBecome("hts", h)'
  <2>1. reg'.hts = h \/ {a, b} \subseteq Range(todo')
    BY <1>1, <1>4, <1>7
  <2>2. \A x \in Range(todo') : x.reg = "hts" => x \in {a, b}
    BY <1>8
  <2> QED
    BY <2>1, <2>2, BytesPromised DEF a, b
<1>10. BytesBecome("vts", v)'
  <2>1. {i, j} \subseteq Range(todo') \/ k \in Range(todo')
    BY <1>5, <1>7
  <2>2. \A x \in Range(todo') : x.reg = "vts" => x \in {i, j, k}
    BY <1>8
  <2> QED
    BY <2>1, <2>2, BytesPromised DEF i, j, k
<1>11. VtsInv'
  BY <1>1, <1>6, <1>8 DEF VtsInv
<1>12. WindowInv'
  <2>1. CASE Binned(sensorFS)
    BY <1>1, <2>1 DEF WindowInv
  <2>2. CASE ~Binned(sensorFS)
    BY <1>1, <1>8, <2>2, WindowKept DEF WindowRegs
  <2> QED
    BY <2>1, <2>2
<1>13. LineInv'
  BY <1>1 DEF LineInv, LineOf, Binned, Held
<1>14. PlannedInv'
  <2>1. (\A name \in Pll : Becomes(name, plan[name]))'
    <3> SUFFICES ASSUME NEW name \in Pll PROVE Becomes(name, plan[name])'
      OBVIOUS
    <3>1. PICK y : y = plan[name] /\ plan'[name] = y
      BY <1>1
    <3>2. Becomes(name, y)
      BY <1>1, <3>1 DEF PlannedInv
    <3>3. \A x \in Range(todo') : x.reg # name
      BY <1>8 DEF Pll
    <3> QED
      BY <1>1, <3>1, <3>2, <3>3, PromiseKept
  <2>2. Asked' => Reaches(plan, sensorFS)'
    <3>1. PICK y, fs : y = plan /\ fs = sensorFS /\ plan' = y /\ sensorFS' = fs
      BY <1>1
    <3>2. Asked' = Asked
      BY <1>1 DEF Asked
    <3>3. Reaches(y, fs)' = Reaches(y, fs)
      BY <1>1, ReachesKept
    <3> QED
      BY <1>1, <3>1, <3>2, <3>3 DEF PlannedInv
  <2>3. Untouched({"ySt", "yEnd"})'
    BY <1>8 DEF Untouched
  <2> QED
    BY <1>1, <1>2, <1>9, <1>10, <2>1, <2>2, <2>3 DEF PlannedInv
<1> QED
  BY <1>1, <1>11, <1>12, <1>13, <1>14 DEF TunedInv

\* applyScalerClock(): the clock of the rate on the frame and the line that are there.
LEMMA TunedScalerClock ==
  ASSUME TInv, TunedInv, ApplyScalerClock
  PROVE  TunedInv'
<1> SUFFICES ASSUME lost = 0 PROVE TunedInv'
  BY DEF TunedInv, ApplyScalerClock, Step
<1>0. PICK fs \in Sizes : fs = sensorFS
  BY DEF TInv, WebInv
<1>1. PICK p : p = plan' /\ Step("retime", "aec", PllWrites(p)) /\ UNCHANGED base
  BY DEF ApplyScalerClock
<1>2. /\ p = Planned("A", ScalerPll(ClockFor(reg.vts, reg.hts, fs, captureFPS)), reg.hts, reg.vts)
      /\ Driver[fs].byClock
  BY <1>0, <1>1 DEF ApplyScalerClock
<1>3. /\ NightInv /\ VtsInv /\ BaseInv /\ WindowInv /\ LineInv
      /\ pc = "retime" /\ todo = <<>> /\ pc' = "aec" /\ todo' = PllWrites(p)
      /\ UNCHANGED <<reg, sensorFS, fsizePtr, captureFPS, retimePending, nightFrameMs, nightFS,
                     nightHtsBase, nightHtsFS, lost>>
      /\ NightInv' /\ BaseInv'
  BY <1>1, StepFacts
<1>4. /\ captureFPS \in Nat \ {0} /\ nightFrameMs \in Nat
      /\ reg.hts \in Nat /\ reg.hts >= HTS_LEAST /\ reg.vts \in Nat
  BY <1>3 DEF TInv, WebInv, RegInv, VtsInv
<1>5. p.route = "A" /\ p.hts = reg.hts /\ p.vts = reg.vts
  BY <1>2 DEF Planned
<1>6. fs \notin {"HD", "HDV2", "1280X960", "QSXGA", "FHDNARROW"}
  BY <1>2, DriverAssumption
<1>7. reg.hts = LineOf(fs)
  <2>1. ~Held(fs)
    BY <1>2, <1>3 DEF BaseInv, Held
  <2> QED
    BY <1>0, <1>3, <2>1, LineBefore
<1>8. Reaches(p, fs)
  <2>1. PICK fps \in Nat \ {0}, h \in Nat, v \in Nat : fps = captureFPS /\ h = reg.hts /\ v = reg.vts
    BY <1>4
  <2>2. h >= HTS_LEAST /\ p = Planned("A", ScalerPll(ClockFor(v, h, fs, fps)), h, v)
    BY <1>2, <1>4, <2>1
  <2>3. ~RouteB(fs)
    BY <1>6 DEF RouteB
  <2>4. FastEnough(p, fs, fps) \/ FlatOut(p, fs)
    BY <1>2, <2>2, <2>3, ScalerReaches
  <2>5. ~NightRuns(fs)
    BY <1>3, <1>6 DEF NightRuns, NightInv
  <2> QED
    BY <1>5, <1>7, <2>1, <2>4, <2>5 DEF Reaches
<1>9. (\A name \in Pll : Becomes(name, p[name])') /\ \A x \in Range(todo') : x.reg \in Pll
  BY <1>3, <1>5, PlanPromised
<1>10. VtsInv'
  BY <1>3, <1>9 DEF VtsInv, Pll
<1>11. WindowInv'
  <2>1. CASE Binned(sensorFS)
    BY <1>3, <2>1 DEF WindowInv
  <2>2. CASE ~Binned(sensorFS)
    BY <1>3, <1>9, <2>2, WindowKept DEF Pll, WindowRegs
  <2> QED
    BY <2>1, <2>2
<1>12. LineInv'
  BY <1>0, <1>1, <1>3, <1>5, <1>7 DEF LineInv, LineOf, Binned
<1>13. PlannedInv'
  <2>1. Reaches(p, fs)'
    BY <1>3, <1>8, ReachesKept
  <2>2. (\A name \in Pll : Becomes(name, plan[name]))'
    BY <1>1, <1>9
  <2>3. Untouched({"ySt", "yEnd"})'
    BY <1>9 DEF Untouched, Pll
  <2>4. (BytesBecome("hts", plan.hts) /\ BytesBecome("vts", plan.vts))'
    <3>1. \A x \in Range(todo') : x.reg \notin {"hts", "vts"}
      BY <1>9 DEF Pll
    <3>2. reg'.hts = p.hts /\ reg'.vts = p.vts
      BY <1>3, <1>5
    <3> QED
      BY <1>1, <3>1, <3>2 DEF BytesBecome
  <2> QED
    BY <1>0, <1>1, <1>3, <1>4, <1>5, <2>1, <2>2, <2>3, <2>4 DEF PlannedInv
<1> QED
  BY <1>3, <1>10, <1>11, <1>12, <1>13 DEF TunedInv

\* applyAecLimits(), and the damping of the session, or none.
LEMMA TunedAecLimits ==
  ASSUME TInv, TunedInv, ApplyAecLimits
  PROVE  TunedInv'
<1> SUFFICES ASSUME lost = 0 PROVE TunedInv'
  BY DEF TunedInv, ApplyAecLimits, Step
<1> DEFINE q == nightFrameMs > 0
           b50 == LinesPer(100)
           b60 == LinesPer(120)
           limits == [maxExp |-> MaxExposure, b50 |-> b50, b60 |-> b60,
                      n50 |-> Lower(63, MaxExposure \div b50),
                      n60 |-> Lower(63, MaxExposure \div b60)]
           x == w("damped", q)
           y == w("aec", limits)
           fits == {b50, b60} \subseteq 1..1023 /\ MaxExposure >= 1
           Y == IF fits THEN <<y>> ELSE <<>>
           ws == <<x>> \o Y
<1>0. Step("aec", "idle", ws) /\ UNCHANGED <<plan, base>>
  BY DEF ApplyAecLimits
<1>1. x.reg = "damped" /\ x.val = q /\ y.reg = "aec"
  BY DEF w
<1> HIDE DEF fits, x, y
<1>2. Range(ws) = {x} \cup Range(Y) /\ \A z \in Range(Y) : z = y
  <2>1. \A i, j : /\ <<i>> \in Seq({i, j}) /\ <<j>> \in Seq({i, j}) /\ <<>> \in Seq({i, j})
                  /\ Range(<<i>>) = {i} /\ Range(<<>>) = {}
    BY DEF Range
  <2> DEFINE X == <<x>>
  <2>2. X \in Seq({x, y}) /\ Range(X) = {x}
    BY <2>1
  <2>3. Y \in Seq({x, y}) /\ \A z \in Range(Y) : z = y
    <3>1. CASE fits
      <4>1. Y = <<y>> /\ Range(<<y>>) = {y} /\ <<y>> \in Seq({x, y})
        BY <2>1, <3>1
      <4> QED
        BY <4>1
    <3>2. CASE ~fits
      <4>1. Y = <<>> /\ Range(<<>>) = {} /\ <<>> \in Seq({x, y})
        BY <2>1, <3>2
      <4> QED
        BY <4>1
    <3> QED
      BY <3>1, <3>2
  <2> HIDE DEF X, Y
  <2>4. Range(X \o Y) = Range(X) \cup Range(Y)
    BY <2>2, <2>3, RangeJoin
  <2> QED
    BY <2>2, <2>3, <2>4 DEF X
<1> HIDE DEF ws, Y
<1>3. /\ VtsInv /\ WindowInv /\ LineInv /\ PlannedInv
      /\ pc = "aec" /\ todo = <<>> /\ pc' = "idle" /\ todo' = ws
      /\ UNCHANGED <<reg, plan, sensorFS, fsizePtr, captureFPS, retimePending, nightFrameMs,
                     nightFS, nightHtsBase, nightHtsFS, lost>>
      /\ sensorFS \in Sizes
      /\ NightInv' /\ BaseInv'
  BY <1>0, StepFacts
<1>4. x \in Range(todo') /\ \A z \in Range(todo') : z = x \/ z = y
  BY <1>2, <1>3
<1>5. VtsInv'
  BY <1>1, <1>3, <1>4 DEF VtsInv
<1>6. WindowInv'
  <2>1. CASE Binned(sensorFS)
    BY <1>3, <2>1 DEF WindowInv
  <2>2. CASE ~Binned(sensorFS)
    BY <1>1, <1>3, <1>4, <2>2, WindowKept DEF WindowRegs
  <2> QED
    BY <2>1, <2>2
<1>7. LineInv'
  BY <1>3 DEF LineInv, LineOf, Binned, Held
<1>8. PlannedInv'
  <2>1. (\A name \in Pll : Becomes(name, plan[name]))'
    <3> SUFFICES ASSUME NEW name \in Pll PROVE Becomes(name, plan[name])'
      OBVIOUS
    <3>1. PICK v : v = plan[name] /\ plan'[name] = v
      BY <1>3
    <3>2. Becomes(name, v)
      BY <1>3, <3>1 DEF PlannedInv
    <3>3. \A z \in Range(todo') : z.reg # name
      BY <1>1, <1>4 DEF Pll
    <3> QED
      BY <1>3, <3>1, <3>2, <3>3, PromiseKept
  <2>2. Asked' => Reaches(plan, sensorFS)'
    <3>1. PICK v, fs : v = plan /\ fs = sensorFS /\ plan' = v /\ sensorFS' = fs
      BY <1>3
    <3>2. Asked' = Asked
      BY <1>3 DEF Asked
    <3>3. Reaches(v, fs)' = Reaches(v, fs)
      BY <1>3, ReachesKept
    <3> QED
      BY <1>3, <3>1, <3>2, <3>3 DEF PlannedInv
  <2>3. Untouched({"ySt", "yEnd"})'
    BY <1>1, <1>4 DEF Untouched
  <2>4. (BytesBecome("hts", plan.hts) /\ BytesBecome("vts", plan.vts))'
    <3>1. PICK h, v : h = plan.hts /\ v = plan.vts
      OBVIOUS
    <3>2. BytesBecome("hts", h) /\ BytesBecome("vts", v)
      BY <1>3, <3>1 DEF PlannedInv
    <3>3. \A z \in Range(todo') : z.reg # "hts" /\ z.reg # "vts"
      BY <1>1, <1>4
    <3>4. BytesBecome("hts", h)' /\ BytesBecome("vts", v)'
      BY <1>3, <3>2, <3>3, PromiseKept
    <3> QED
      BY <1>3, <3>1, <3>4
  <2>5. Becomes("damped", nightFrameMs > 0)'
    <3>1. PICK v : v = q /\ (nightFrameMs' > 0) = v
      BY <1>3
    <3>2. Becomes("damped", v)'
      BY <1>1, <1>4, <3>1 DEF Becomes
    <3> QED
      BY <3>1, <3>2
  <2> QED
    BY <1>3, <2>1, <2>2, <2>3, <2>4, <2>5 DEF PlannedInv
<1> QED
  BY <1>3, <1>5, <1>6, <1>7, <1>8 DEF TunedInv

LEMMA TunedInit == Init => TunedInv
<1> SUFFICES ASSUME Init PROVE TunedInv
  OBVIOUS
<1>1. PICK fs \in Sizes : fs = sensorFS /\ reg = DriverRegs(fs)
  BY DEF Init
<1>2. /\ pc = "size" /\ todo = <<>> /\ nightFrameMs = 0 /\ nightHtsBase = 0
  BY DEF Init
<1>3. Range(todo) = {}
  BY <1>2 DEF Range
<1>4. /\ reg.cols = Driver[fs].cols /\ reg.ySt = Driver[fs].ySt
      /\ reg.yEnd = Driver[fs].ySt + Driver[fs].rows - 1
      /\ reg.yOff = Driver[fs].yOff /\ reg.hts = Driver[fs].hts /\ reg.vts = Driver[fs].vts
  BY <1>1 DEF DriverRegs
<1>5. RowsRead = Driver[fs].rows /\ reg.vts \in Nat
  BY <1>4, SizeFacts DEF RowsRead
<1>6. NightInv /\ VtsInv /\ BaseInv /\ LineInv /\ PlannedInv
  BY <1>2, <1>3, <1>5 DEF NightInv, VtsInv, BaseInv, LineInv, PlannedInv, NIGHT_MAX_MS
<1>7. WindowInv
  BY <1>1, <1>2, <1>3, <1>4, <1>5 DEF WindowInv, Uncut, Untouched, Whole
<1> QED
  BY <1>6, <1>7 DEF TunedInv

LEMMA TunedNext == TInv /\ PllInv /\ TunedInv /\ [Next]_vars => TunedInv'
<1> SUFFICES ASSUME TInv, PllInv, TunedInv, [Next]_vars PROVE TunedInv'
  OBVIOUS
<1>1. Tune => TunedInv'
  BY TunedSettle, TunedOutputSize, TunedCropWindow, TunedCropRest, TunedTightRows, TunedHtsFloor,
     TunedRetime, TunedFrame, TunedScalerClock, TunedAecLimits DEF Tune
<1>2. Lose => lost' # 0
  BY DEF Lose, PllInv
<1> QED
  BY <1>1, <1>2, TunedWeb, TunedWrite DEF Next, TunedInv

\* As long as no write was lost: the window of a size that is not binned is the driver's or the
\* one it is cut to, the line the size's own unless a night session has it, the plan reaches the
\* rate, and what is still to be written brings the registers to the plan.
THEOREM TuningInvariant == Spec => [](TInv /\ PllInv /\ TunedInv)
  BY TInvInit, TInvNext, PllInit, PllNext, TunedInit, TunedNext, PTL DEF Spec

\* Once tuned the sensor makes as many frames as were asked of it, or as many as the size can
\* (to three thousandths below 12 a second); no night session leaves its line or its damping.
THEOREM RateKept == Spec => []KeepsUp
<1>1. TInv /\ TunedInv => KeepsUp
  <2> SUFFICES ASSUME TInv, TunedInv, Quiet, lost = 0,
                      NEW fs, fs = sensorFS
               PROVE  /\ nightFrameMs = 0 =>
                           \/ Sclk(reg) * (1000 + EvenLoss) >= captureFPS * reg.hts * LineFactor(fs) * reg.vts
                           \/ /\ Sclk(reg) >= (IF RouteB(fs) THEN 88000 ELSE 80000)
                              /\ reg.vts = VtsFloor(fs) \/ Driver[fs].byClock
                      /\ nightFrameMs = 0 => reg.hts = OwnLine(fs)
                      /\ NightRuns(fs) => reg.hts * 2 * reg.vts >= (nightFrameMs - 1) * NIGHT_KHZ
                      /\ reg.damped = (nightFrameMs > 0)
    BY DEF KeepsUp
  <2>1. /\ VtsInv /\ WindowInv /\ PlannedInv /\ pc = "idle" /\ todo = <<>> /\ Asked
        /\ reg.hts \in Nat
    BY DEF TunedInv, Quiet, Settled, Asked, TInv, RegInv
  <2>2. /\ \A name \in Pll : Becomes(name, plan[name])
        /\ plan.hts \in Nat /\ plan.vts \in Nat /\ reg.vts \in Nat
        /\ BytesBecome("hts", plan.hts) /\ BytesBecome("vts", plan.vts)
        /\ Becomes("damped", nightFrameMs > 0)
        /\ Reaches(plan, fs)
    BY <2>1 DEF PlannedInv, VtsInv
  <2>3. \A name \in Pll : reg[name] = plan[name]
    BY <2>1, <2>2, Done
  <2>4. reg.hts = plan.hts /\ reg.vts = plan.vts
    BY <2>1, <2>2, Done
  <2>5. reg.damped = (nightFrameMs > 0)
    BY <2>1, <2>2, Done
  <2>6. reg.route = plan.route /\ reg.sysDiv = plan.sysDiv /\ reg.mul = plan.mul
    BY <2>3 DEF Pll
  <2>7. Sclk(reg) = Sclk(plan) /\ EvenLoss = LossOf(plan, captureFPS)
    BY <2>6 DEF Sclk, EvenLoss, LossOf
  <2>8. FastEnough(plan, fs, captureFPS) =>
          Sclk(reg) * (1000 + EvenLoss) >= captureFPS * reg.hts * LineFactor(fs) * reg.vts
    BY <2>4, <2>7 DEF FastEnough
  <2>9. FlatOut(plan, fs) => /\ Sclk(reg) >= (IF RouteB(fs) THEN 88000 ELSE 80000)
                             /\ reg.vts = VtsFloor(fs) \/ Driver[fs].byClock
    BY <2>4, <2>7 DEF FlatOut
  <2>10. nightFrameMs = 0 => reg.hts = OwnLine(fs)
    <3>1. nightFrameMs = 0 => reg.hts = LineOf(fs)
      BY <2>2, <2>4 DEF Reaches
    <3>2. OwnLine(fs) = LineOf(fs)
      <4>1. CASE Binned(fs)
        BY <4>1 DEF OwnLine, LineOf
      <4>2. CASE ~Binned(fs)
        <5>1. Final(fs)
          BY <2>1, <4>2 DEF WindowInv
        <5>2. CASE Cuts(fs)
          <6>1. reg.cols = CropCols(fs) /\ RowsRead = CutRows(fs)
            BY <5>1, <5>2 DEF Final, IsCut
          <6>2. ~(reg.cols = Driver[fs].cols /\ RowsRead = Driver[fs].rows)
            BY <5>2, <6>1 DEF Cuts
          <6> QED
            BY <4>2, <5>2, <6>1, <6>2 DEF OwnLine, LineOf
        <5>3. CASE ~Cuts(fs)
          BY <4>2, <5>1, <5>3 DEF Final, Whole, OwnLine, LineOf
        <5> QED
          BY <5>2, <5>3
      <4> QED
        BY <4>1, <4>2
    <3> QED
      BY <3>1, <3>2
  <2>11. NightRuns(fs) => reg.hts * 2 * reg.vts >= (nightFrameMs - 1) * NIGHT_KHZ
    BY <2>2, <2>4 DEF Reaches
  <2>12. nightFrameMs = 0 => FastEnough(plan, fs, captureFPS) \/ FlatOut(plan, fs)
    BY <2>2 DEF Reaches
  <2> QED
    BY <2>5, <2>8, <2>9, <2>10, <2>11, <2>12
<1> QED
  BY <1>1, TuningInvariant, PTL
----------------------------------------------------------------------------
(* The line, the window, the clock and the exposure within their limits.   *)

\* The line fits its register, and so does every line it may be given.
LineFits ==
    /\ reg.hts <= NIGHT_HTS_MAX /\ nightHtsBase <= NIGHT_HTS_MAX
    /\ \A x \in Range(todo) : x.reg = "hts" /\ x.part = "hi" => x.val <= 31
    /\ pc = "frame" => plan.hts <= NIGHT_HTS_MAX

\* The window never ends before it starts, whichever of its writes are made.
Spans ==
    /\ reg.ySt <= reg.yEnd + 1
    /\ \A x \in Range(todo) : /\ x.reg = "ySt" => x.val <= reg.yEnd + 1
                              /\ x.reg = "yEnd" => reg.ySt <= x.val + 1
    /\ \A x, y \in Range(todo) : x.reg = "ySt" /\ y.reg = "yEnd" => x.val <= y.val + 1

\* The clock that is planned is one the PLL can make.
ClockFits ==
    pc \in {"frame", "aec"} => /\ plan.route \in {"A", "B"}
                               /\ plan.mul \in 66..150 /\ plan.sysDiv \in 1..15

LimitInv == LineFits /\ Spans /\ ClockFits

\* The frame is long enough to expose something.
FrameLong == \E v \in Nat : v >= 8 /\ BytesBecome("vts", v)

\* What is left of the two bytes of a line: none, the last, or both, the high one first
\* when the line grows.
Free(s) == \A x \in Range(s) : x.reg # "hts"
Ordered(v) ==
    \/ Free(todo)
    \/ /\ Head(todo) = hi("hts", v) /\ Lo(reg.hts) = Lo(v) /\ Free(Tail(todo))
    \/ /\ Head(todo) = lo("hts", v) /\ Hi(reg.hts) = Hi(v) /\ Free(Tail(todo))
    \/ /\ Head(todo) = hi("hts", v) /\ reg.hts < v
       /\ Tail(todo) # <<>> /\ Head(Tail(todo)) = lo("hts", v) /\ Free(Tail(Tail(todo)))
    \/ /\ Head(todo) = lo("hts", v) /\ reg.hts > v
       /\ Tail(todo) # <<>> /\ Head(Tail(todo)) = hi("hts", v) /\ Free(Tail(Tail(todo)))
OrderInv ==
    /\ pc = "retime" => Ordered(HtsFloorFor(sensorFS))
    /\ pc = "aec" => Ordered(plan.hts)

\* Limits an exposure in a frame of vts lines may have.
Exposes(a, vts) ==
    /\ a.maxExp \in 1..Lower(vts - 4, 1964)
    /\ {a.b50, a.b60} \subseteq 1..1023 /\ {a.n50, a.n60} \subseteq 0..63
    /\ a.n50 * a.b50 <= a.maxExp /\ a.n60 * a.b60 <= a.maxExp
ExposureInv ==
    pc = "idle" => Untouched({"vts"}) /\ \E a : Becomes("aec", a) /\ Exposes(a, reg.vts)
----------------------------------------------------------------------------
(* What each part of the tuning may write.                                 *)
CutLine == Higher(reg.cols + 76, HTS_FLOOR_FULLRES)
Parts == \/ ApplyOutputSize \/ ApplyCropWindow \/ ApplyCropRest \/ ApplyTightRows \/ ApplyHtsFloor
         \/ ApplyTunedTiming \/ ApplyFrame \/ ApplyScalerClock \/ ApplyAecLimits
Allowed(x) ==
    \/ x.reg \notin {"hts", "vts", "ySt", "yEnd", "aec"}
    \/ /\ pc = "crop" /\ Crops(sensorFS)
       /\ x \in {w("ySt", CropStart(sensorFS)),
                 w("yEnd", CropStart(sensorFS) + CropRows(sensorFS) - 1)}
    \/ pc = "cropRest" /\ x.reg = "vts"
    \/ pc = "cropRest" /\ reg.hts > CutLine /\ x \in {hi("hts", CutLine), lo("hts", CutLine)}
    \/ pc = "rows" /\ sensorFS = "HDV2" /\ x \in {w("ySt", 256), w("yEnd", 1695)}
    \/ pc = "line" /\ x \in {hi("hts", HtsFloorFor(sensorFS)), lo("hts", HtsFloorFor(sensorFS))}
    \/ pc = "frame" /\ (x.reg = "vts" \/ x \in {hi("hts", plan.hts), lo("hts", plan.hts)})
    \/ pc = "aec" /\ x.reg = "aec"

\* The frame and the line that follow the cut.
LEMMA CropRestWrites ==
  ASSUME TInv, ApplyCropRest
  PROVE  /\ \A x \in Range(todo') : Allowed(x)
         /\ LET f == RowFloor(sensorFS)
                C == {hi("vts", f), lo("vts", f), w("vts", f)}
            IN  /\ \A x \in Range(todo') : x.reg = "vts" => x \in C
                /\ \/ Range(todo') = {}
                   \/ {hi("vts", f), lo("vts", f)} \subseteq Range(todo') \/ w("vts", f) \in Range(todo')
<1> DEFINE took == CropRows(sensorFS) = RowsRead /\ CropCols(sensorFS) = reg.cols
           V == WriteVts(RowFloor(sensorFS))
           off == (Driver[sensorFS].pre = 0 \/ Driver[sensorFS].pre = Driver[sensorFS].outW) /\ reg.scaler
           shorter == ~Binned(sensorFS) /\ reg.hts > CutLine
           x == w("scaler", FALSE)
           a == hi("hts", CutLine)
           b == lo("hts", CutLine)
           X == IF off THEN <<x>> ELSE <<>>
           H == IF shorter THEN <<a, b>> ELSE <<>>
           C == {hi("vts", RowFloor(sensorFS)), lo("vts", RowFloor(sensorFS)), w("vts", RowFloor(sensorFS))}
           S == C \cup {x, a, b}
<1>1. pc = "cropRest" /\ (todo' = V \o X \o H \/ todo' = <<>>)
  BY DEF ApplyCropRest, Step, CutLine
<1> DEFINE hv == hi("vts", RowFloor(sensorFS))
           lv == lo("vts", RowFloor(sensorFS))
           wv == w("vts", RowFloor(sensorFS))
<1>2. V \in Seq(C) /\ Range(V) \subseteq C /\ ({hv, lv} \subseteq Range(V) \/ wv \in Range(V))
  <2> DEFINE r == RowFloor(sensorFS)
  <2> HIDE DEF r
  <2>1. LET s == WriteVts(r)
            T == {hi("vts", r), lo("vts", r), w("vts", r)}
        IN  /\ s \in Seq(T) /\ Range(s) \subseteq T
            /\ {hi("vts", r), lo("vts", r)} \subseteq Range(s) \/ w("vts", r) \in Range(s)
    BY VtsRange
  <2> QED
    BY <2>1 DEF r
<1>3. \A y \in C : y.reg = "vts"
  BY DEF hi, lo, w
<1>4. x.reg = "scaler" /\ a.reg = "hts" /\ b.reg = "hts"
  BY DEF w, hi, lo
<1>5. shorter => reg.hts > CutLine
  OBVIOUS
<1>12. C = {hv, lv, wv}
  OBVIOUS
<1> HIDE DEF V, x, a, b, C, shorter, off, hv, lv, wv
<1>6. X \in Seq({x, a, b}) /\ H \in Seq({x, a, b})
      /\ Range(X) \subseteq {x} /\ \A y \in Range(H) : shorter /\ y \in {a, b}
  <2>1. /\ Range(<<>>) = {} /\ Range(<<x>>) = {x} /\ Range(<<a, b>>) = {a, b}
        /\ <<>> \in Seq({x, a, b}) /\ <<x>> \in Seq({x, a, b}) /\ <<a, b>> \in Seq({x, a, b})
    BY DEF Range
  <2> QED
    BY <2>1
<1> HIDE DEF X, H
<1>7. Range(V \o X \o H) = Range(V) \cup Range(X) \cup Range(H)
  <2> DEFINE U == V \o X
  <2>0. C \subseteq S /\ {x, a, b} \subseteq S
    OBVIOUS
  <2> HIDE DEF S
  <2>1. V \in Seq(S) /\ X \in Seq(S) /\ H \in Seq(S)
    BY <1>2, <1>6, <2>0
  <2>2. U \in Seq(S) /\ Range(U) = Range(V) \cup Range(X)
    BY <2>1, RangeJoin
  <2> HIDE DEF U
  <2>3. Range(U \o H) = Range(U) \cup Range(H)
    BY <2>1, <2>2, RangeJoin
  <2> QED
    BY <2>2, <2>3 DEF U
<1>8. \A y \in Range(todo') : y \in C \/ y = x \/ (shorter /\ y \in {a, b})
  <2>1. Range(<<>>) = {}
    BY DEF Range
  <2> QED
    BY <1>1, <1>2, <1>6, <1>7, <2>1
<1>9. ASSUME NEW y, y \in C PROVE Allowed(y)
  BY <1>1, <1>3, <1>9 DEF Allowed
<1>10. Allowed(x)
  BY <1>4 DEF Allowed
<1>11. ASSUME shorter, NEW y \in {a, b} PROVE Allowed(y)
  <2>1. y \in {hi("hts", CutLine), lo("hts", CutLine)} /\ reg.hts > CutLine
    BY <1>5, <1>11 DEF a, b
  <2> QED
    BY <1>1, <2>1 DEF Allowed
<1>13. \A y \in Range(todo') : y.reg = "vts" => y \in {hv, lv, wv}
  BY <1>4, <1>8, <1>12
<1>14. Range(todo') = {} \/ {hv, lv} \subseteq Range(todo') \/ wv \in Range(todo')
  <2>1. Range(<<>>) = {}
    BY DEF Range
  <2> QED
    BY <1>1, <1>2, <1>7, <2>1
<1>15. \A y \in Range(todo') : Allowed(y)
  BY <1>8, <1>9, <1>10, <1>11
<1> QED
  BY <1>13, <1>14, <1>15 DEF hv, lv, wv

\* The line and the frame that were planned.
LEMMA FrameWrites ==
  ASSUME TInv, ApplyFrame
  PROVE  \A x \in Range(todo') : Allowed(x)
<1> DEFINE h == plan.hts
           v == plan.vts
           I == InOrder("hts", reg.hts, h)
           V == WriteVts(v)
           A == {hi("hts", h), lo("hts", h)}
           C == {hi("vts", v), lo("vts", v), w("vts", v)}
<1>1. pc = "frame" /\ (todo' = I \o V \/ todo' = <<>>)
  BY DEF ApplyFrame, Step
<1>2. h \in Nat /\ reg.hts \in Nat
  BY <1>1 DEF TInv, PlanInv, RegInv
<1>3. \A y \in C : y.reg = "vts"
  BY DEF hi, lo, w
<1> HIDE DEF h, v
<1>4. I \in Seq(A) /\ Range(I) \subseteq A
  <2>1. LET s == InOrder("hts", reg.hts, h)
        IN  s \in Seq({hi("hts", h), lo("hts", h)}) /\ Range(s) \subseteq {hi("hts", h), lo("hts", h)}
    BY <1>2, InOrderRange
  <2> QED
    BY <2>1
<1>5. V \in Seq(C) /\ Range(V) \subseteq C
  <2>1. LET s == WriteVts(v)
            T == {hi("vts", v), lo("vts", v), w("vts", v)}
        IN  s \in Seq(T) /\ Range(s) \subseteq T
    BY VtsRange
  <2> QED
    BY <2>1
<1> HIDE DEF I, V, C, A
<1>6. Range(I \o V) = Range(I) \cup Range(V)
  <2> DEFINE S == A \cup C
  <2>1. A \subseteq S /\ C \subseteq S
    OBVIOUS
  <2> HIDE DEF S
  <2>2. I \in Seq(S) /\ V \in Seq(S)
    BY <1>4, <1>5, <2>1
  <2> QED
    BY <2>2, RangeJoin
<1>7. \A y \in Range(todo') : y \in A \/ y \in C
  <2>1. Range(<<>>) = {}
    BY DEF Range
  <2> QED
    BY <1>1, <1>4, <1>5, <1>6, <2>1
<1> QED
  BY <1>1, <1>3, <1>7 DEF Allowed, A, h

\* Every part that writes waits until the writes before are made.
LEMMA StepWrites ==
  ASSUME TInv, Parts
  PROVE  /\ todo = <<>> /\ Range(todo) = {}
         /\ UNCHANGED <<reg, sensorFS, fsizePtr, retimePending, nightFrameMs, lost>>
         /\ \A x \in Range(todo') : Allowed(x)
<1>1. /\ todo = <<>>
      /\ UNCHANGED <<reg, sensorFS, fsizePtr, retimePending, nightFrameMs, lost>>
  BY DEF Parts, ApplyOutputSize, ApplyCropWindow, ApplyCropRest, ApplyTightRows, ApplyHtsFloor,
     ApplyTunedTiming, ApplyFrame, ApplyScalerClock, ApplyAecLimits, Step, web
<1>2. Range(todo) = {}
  BY <1>1 DEF Range
<1>3. ASSUME ApplyOutputSize PROVE \A x \in Range(todo') : Allowed(x)
  <2> DEFINE x == w("outH", Driver[sensorFS].outH)
  <2>1. x.reg = "outH"
    BY DEF w
  <2>2. todo' = <<x>> \/ todo' = <<>>
    BY <1>3 DEF ApplyOutputSize, Step
  <2> HIDE DEF x
  <2>3. \A y \in Range(todo') : y = x
    BY <2>2 DEF Range
  <2> QED
    BY <2>1, <2>3 DEF Allowed
<1>4. ASSUME ApplyCropWindow PROVE \A x \in Range(todo') : Allowed(x)
  <2> DEFINE a == w("cols", CropCols(sensorFS))
             b == w("ySt", CropStart(sensorFS))
             c == w("yEnd", CropStart(sensorFS) + CropRows(sensorFS) - 1)
  <2>1. pc = "crop" /\ (todo' = <<>> \/ (Crops(sensorFS) /\ todo' = <<a, b, c>>))
    BY <1>4 DEF ApplyCropWindow, Step
  <2>2. a.reg = "cols"
    BY DEF w
  <2> HIDE DEF a, b, c
  <2>3. \A y \in Range(todo') : Crops(sensorFS) /\ y \in {a, b, c}
    BY <2>1 DEF Range
  <2> QED
    BY <2>1, <2>2, <2>3 DEF Allowed, b, c
<1>5. ASSUME ApplyTightRows PROVE \A x \in Range(todo') : Allowed(x)
  <2> DEFINE a == w("scaler", TRUE)
             b == w("yOff", 0)
             c == w("ySt", 256)
             d == w("yEnd", 1695)
             e == w("scaler", FALSE)
  <2> DEFINE ws == IF sensorFS = "HDV2" /\ ~(reg.ySt = 256 /\ reg.yEnd = 1695 /\ reg.yOff = 0)
                   THEN <<a, b, c, d, e>> ELSE <<>>
  <2>0. Step("rows", "line", ws)
    BY <1>5 DEF ApplyTightRows
  <2> HIDE DEF a, b, c, d, e
  <2>1. pc = "rows" /\ (todo' = <<>> \/ (sensorFS = "HDV2" /\ todo' = <<a, b, c, d, e>>))
    BY <2>0 DEF Step
  <2>2. a.reg = "scaler" /\ b.reg = "yOff" /\ e.reg = "scaler"
    BY DEF w, a, b, e
  <2>3. \A y \in Range(todo') : sensorFS = "HDV2" /\ y \in {a, b, c, d, e}
    <3>1. Range(<<>>) = {} /\ Range(<<a, b, c, d, e>>) = {a, b, c, d, e}
      BY DEF Range
    <3> QED
      BY <2>1, <3>1
  <2> QED
    BY <2>1, <2>2, <2>3 DEF Allowed, c, d
<1>6. ASSUME ApplyHtsFloor PROVE \A x \in Range(todo') : Allowed(x)
  <2> DEFINE v == HtsFloorFor(sensorFS)
  <2>1. pc = "line" /\ (todo' = <<>> \/ todo' = InOrder("hts", reg.hts, v))
    BY <1>6 DEF ApplyHtsFloor, Step
  <2>2. v \in Nat /\ reg.hts \in Nat
    BY DEF HtsFloorFor, HTS_FLOOR, TInv, RegInv
  <2> HIDE DEF v
  <2>3. LET s == InOrder("hts", reg.hts, v) IN Range(s) \subseteq {hi("hts", v), lo("hts", v)}
    BY <2>2, InOrderRange
  <2>4. \A y \in Range(todo') : y \in {hi("hts", v), lo("hts", v)}
    <3>1. Range(<<>>) = {}
      BY DEF Range
    <3> QED
      BY <2>1, <2>3, <3>1
  <2> QED
    BY <2>1, <2>4 DEF Allowed, v
<1>7. ASSUME ApplyTunedTiming \/ ApplyScalerClock PROVE \A x \in Range(todo') : Allowed(x)
  <2>1. PICK p : todo' = PllWrites(p)
    BY <1>7 DEF ApplyTunedTiming, ApplyScalerClock, Step
  <2>2. PICK S : PllWrites(p) \in Seq(S) /\ \A x \in S : Well(x) /\ x.reg \in Pll
    BY PllWell
  <2>3. Range(todo') \subseteq S
    BY <2>1, <2>2, InRange
  <2> QED
    BY <2>2, <2>3 DEF Allowed, Pll
<1>8. ASSUME ApplyAecLimits PROVE \A x \in Range(todo') : Allowed(x)
  <2>1. PICK a, b : /\ pc = "aec" /\ a.reg = "damped" /\ b.reg = "aec"
                    /\ todo' = <<a>> \o <<b>> \/ todo' = <<a>> \o <<>>
    <3>1. PICK v : /\ pc = "aec"
                   /\ \/ todo' = <<w("damped", nightFrameMs > 0)>> \o <<w("aec", v)>>
                      \/ todo' = <<w("damped", nightFrameMs > 0)>> \o <<>>
      BY <1>8 DEF ApplyAecLimits, Step
    <3>2. w("damped", nightFrameMs > 0).reg = "damped" /\ w("aec", v).reg = "aec"
      BY DEF w
    <3> QED
      BY <3>1, <3>2
  <2> DEFINE A == <<a>>
             B == <<b>>
             N == <<>>
             S == {a, b}
  <2>2. /\ A \in Seq(S) /\ B \in Seq(S) /\ N \in Seq(S)
        /\ Range(A) = {a} /\ Range(B) = {b} /\ Range(N) = {}
    <3>1. \A i, j : /\ <<i>> \in Seq({i, j}) /\ <<j>> \in Seq({i, j}) /\ <<>> \in Seq({i, j})
                    /\ Range(<<i>>) = {i} /\ Range(<<>>) = {}
      BY DEF Range
    <3> QED
      BY <3>1
  <2>3. Range(A \o B) = {a} \cup {b} /\ Range(A \o N) = {a} \cup {}
    <3> HIDE DEF A, B, N, S
    <3> QED
      BY <2>2, RangeJoin
  <2>4. \A y \in Range(todo') : y \in {a, b}
    BY <2>1, <2>3
  <2> QED
    BY <2>1, <2>4 DEF Allowed
<1> QED
  BY <1>1, <1>2, <1>3, <1>4, <1>5, <1>6, <1>7, <1>8, CropRestWrites, FrameWrites DEF Parts
----------------------------------------------------------------------------
(* The line, the window and the clock.                                     *)

\* A clock that is picked is one the PLL can make.
LEMMA PickedFits ==
  ASSUME NEW kHz, Dividers(kHz) # {}
  PROVE  PickPll(kHz).mul \in 66..150 /\ PickPll(kHz).sysDiv \in 1..15
<1>1. Dividers(kHz) \in SUBSET (1..15)
  BY DEF Dividers
<1>2. PICK sd \in 1..15 : sd = Min(Dividers(kHz)) /\ Fits(kHz, sd)
  BY <1>1, LeastDivider DEF Dividers
<1>3. Multiplier(kHz, sd) \in 75..150
  BY <1>2 DEF Fits
<1> QED
  BY <1>2, <1>3 DEF PickPll

\* By day the line is kept, and the clock is a fixed one or one the PLL can make.
LEMMA DayClock ==
  ASSUME NEW fs, NEW fps, NEW hts
  PROVE  LET p == DayPlan(fs, fps, hts)
         IN  p.hts = hts /\ p.route \in {"A", "B"} /\ p.mul \in 66..150 /\ p.sysDiv \in 1..15
<1> DEFINE vts == VtsAt(80000, hts, fs, fps)
           target == Higher(AEC_VTS_CEIL, VtsFloor(fs))
           kHz == ClockFor(target, hts, fs, fps)
           p == DayPlan(fs, fps, hts)
<1>1. \/ p = Planned("A", SLOW, hts, target)
      \/ Dividers(kHz) # {} /\ p = Planned("A", PickPll(kHz), hts, target)
      \/ \E v : p = Planned("B", ROUTE_B, hts, v)
      \/ \E v : p = Planned("A", FAST, hts, v)
  <2> DEFINE long == vts > AEC_VTS_CEIL
             fast == Higher(VtsFloor(fs), VtsAt(88000, hts, fs, fps))
             slow == Higher(VtsFloor(fs), vts)
  <2>1. p = CASE long /\ kHz < 10000 -> Planned("A", SLOW, hts, target)
              [] long /\ kHz >= 10000 /\ Dividers(kHz) # {} -> Planned("A", PickPll(kHz), hts, target)
              [] vts < VtsFloor(fs) /\ RouteB(fs) -> Planned("B", ROUTE_B, hts, fast)
              [] OTHER -> Planned("A", FAST, hts, slow)
    BY DEF DayPlan
  <2> HIDE DEF p, long, kHz, target, vts, fast, slow
  <2> QED
    BY <2>1
<1>2. ASSUME Dividers(kHz) # {}
      PROVE  PickPll(kHz).mul \in 66..150 /\ PickPll(kHz).sysDiv \in 1..15
  <2> HIDE DEF kHz
  <2> QED
    BY <1>2, PickedFits
<1>3. \A route, pll, v : LET q == Planned(route, pll, hts, v)
                         IN  q.hts = hts /\ q.route = route /\ q.mul = pll.mul /\ q.sysDiv = pll.sysDiv
  BY DEF Planned
<1>4. /\ SLOW.mul \in 66..150 /\ SLOW.sysDiv \in 1..15 /\ FAST.mul \in 66..150 /\ FAST.sysDiv \in 1..15
      /\ ROUTE_B.mul \in 66..150 /\ ROUTE_B.sysDiv \in 1..15
  BY DEF SLOW, FAST, ROUTE_B
<1> HIDE DEF p, target, kHz, vts
<1>5. p.hts = hts /\ p.route \in {"A", "B"} /\ p.mul \in 66..150 /\ p.sysDiv \in 1..15
  BY <1>1, <1>2, <1>3, <1>4
<1> QED
  BY <1>5 DEF p

\* What a retime plans.
LEMMA PlanFits ==
  ASSUME TInv, LineFits, Parts
  PROVE  /\ nightHtsBase' <= NIGHT_HTS_MAX
         /\ pc' = "frame" => plan'.hts <= NIGHT_HTS_MAX
         /\ ClockFits => ClockFits'
<1>1. CASE ApplyTunedTiming
  <2> DEFINE fs == sensorFS
             own == IF GivesBack(fs) THEN nightHtsBase ELSE reg.hts
  <2>1. own <= NIGHT_HTS_MAX /\ nightHtsBase' <= NIGHT_HTS_MAX
    <3>1. nightHtsBase' \in {0, reg.hts, nightHtsBase}
      BY <1>1 DEF ApplyTunedTiming
    <3> QED
      BY <3>1 DEF LineFits, NIGHT_HTS_MAX
  <2>2. \/ plan' = Planned("A", SLOW, NightLine(fs), AEC_VTS_CEIL)
        \/ plan' = DayPlan(fs, captureFPS, own)
    BY <1>1 DEF ApplyTunedTiming
  <2>3. NightLine(fs) <= NIGHT_HTS_MAX
    <3>1. \A a, b : b \in Int => Lower(NIGHT_HTS_MAX, b) <= NIGHT_HTS_MAX
      BY DEF Lower, NIGHT_HTS_MAX
    <3>2. PICK b : NightLine(fs) = Lower(NIGHT_HTS_MAX, b) /\ b \in Int
      <4>1. nightFrameMs \in Nat /\ nightHtsBase \in Nat /\ reg.hts \in Nat
        BY DEF TInv, WebInv, RegInv
      <4> DEFINE n == (nightFrameMs * NIGHT_KHZ + AEC_VTS_CEIL) \div (2 * AEC_VTS_CEIL)
                 o == IF nightHtsBase > 0 /\ nightHtsFS = fs THEN nightHtsBase ELSE reg.hts
      <4>2. n \in Int
        BY <4>1 DEF NIGHT_KHZ, AEC_VTS_CEIL
      <4>3. o \in Int
        BY <4>1
      <4>4. NightLine(fs) = Lower(NIGHT_HTS_MAX, Higher(n, o))
        BY DEF NightLine
      <4> HIDE DEF n, o
      <4>5. Higher(n, o) \in Int
        BY <4>2, <4>3 DEF Higher
      <4> QED
        BY <4>4, <4>5
    <3> QED
      BY <3>1, <3>2
  <2> HIDE DEF own
  <2>4. CASE plan' = Planned("A", SLOW, NightLine(fs), AEC_VTS_CEIL)
    <3>1. /\ plan'.hts = NightLine(fs) /\ plan'.route = "A"
          /\ plan'.mul = 76 /\ plan'.sysDiv = 5
      BY <2>4 DEF Planned, SLOW
    <3> QED
      BY <2>1, <2>3, <3>1 DEF ClockFits
  <2>5. CASE plan' = DayPlan(fs, captureFPS, own)
    <3>1. LET p == DayPlan(fs, captureFPS, own)
          IN  p.hts = own /\ p.route \in {"A", "B"} /\ p.mul \in 66..150 /\ p.sysDiv \in 1..15
      BY DayClock
    <3>2. /\ plan'.hts = own /\ plan'.route \in {"A", "B"}
          /\ plan'.mul \in 66..150 /\ plan'.sysDiv \in 1..15
      BY <2>5, <3>1
    <3> QED
      BY <2>1, <3>2 DEF ClockFits
  <2> QED
    BY <2>2, <2>4, <2>5
<1>2. CASE ApplyScalerClock
  <2> DEFINE kHz == ClockFor(reg.vts, reg.hts, sensorFS, captureFPS)
  <2>1. plan' = Planned("A", ScalerPll(kHz), reg.hts, reg.vts) /\ pc' = "aec" /\ UNCHANGED base
    BY <1>2 DEF ApplyScalerClock, Step
  <2>2. ScalerPll(kHz).mul \in 66..150 /\ ScalerPll(kHz).sysDiv \in 1..15
    <3> HIDE DEF kHz
    <3>1. ScalerPll(kHz) = SLOW \/ ScalerPll(kHz) = FAST
          \/ (Dividers(kHz) # {} /\ ScalerPll(kHz) = PickPll(kHz))
      <4> DEFINE low == kHz < 10000
                 mid == kHz \in 10000..80000 /\ Dividers(kHz) # {}
                 p == ScalerPll(kHz)
                 q == PickPll(kHz)
      <4>1. p = CASE low -> SLOW [] mid -> q [] OTHER -> FAST
        BY DEF ScalerPll
      <4>2. mid => Dividers(kHz) # {}
        OBVIOUS
      <4> HIDE DEF low, mid, p, q
      <4>3. p = SLOW \/ p = FAST \/ (mid /\ p = q)
        BY <4>1
      <4> QED
        BY <4>2, <4>3 DEF p, q
    <3>2. SLOW.mul \in 66..150 /\ SLOW.sysDiv \in 1..15 /\ FAST.mul \in 66..150 /\ FAST.sysDiv \in 1..15
      BY DEF SLOW, FAST
    <3>3. ASSUME Dividers(kHz) # {} PROVE PickPll(kHz).mul \in 66..150 /\ PickPll(kHz).sysDiv \in 1..15
      BY <3>3, PickedFits
    <3> QED
      BY <3>1, <3>2, <3>3
  <2>3. plan'.route = "A" /\ plan'.mul = ScalerPll(kHz).mul /\ plan'.sysDiv = ScalerPll(kHz).sysDiv
    BY <2>1 DEF Planned
  <2> HIDE DEF kHz
  <2> QED
    BY <2>1, <2>2, <2>3 DEF ClockFits, LineFits, base
<1>3. CASE ~(ApplyTunedTiming \/ ApplyScalerClock)
  <2>1. UNCHANGED <<plan, base>> /\ pc' # "frame" /\ (pc' = "aec" => pc = "frame")
    BY <1>3 DEF Parts, ApplyOutputSize, ApplyCropWindow, ApplyCropRest, ApplyTightRows, ApplyHtsFloor,
       ApplyFrame, ApplyAecLimits, Step
  <2> QED
    BY <2>1 DEF LineFits, ClockFits, base
<1> QED
  BY <1>1, <1>2, <1>3

\* Neither byte takes the line past thirteen bits.
LEMMA ByteFits ==
  ASSUME NEW old \in Nat, old <= NIGHT_HTS_MAX, NEW x,
         \/ x.part = "hi" /\ x.val \in Nat /\ x.val <= 31
         \/ x.part = "lo" /\ x.val \in 0..255
  PROVE  Written(old, x) <= NIGHT_HTS_MAX
<1>1. CASE x.part = "hi"
  <2>1. Written(old, x) = x.val * 256 + Lo(old)
    BY <1>1 DEF Written
  <2> QED
    BY <1>1, <2>1 DEF Lo, NIGHT_HTS_MAX
<1>2. CASE x.part = "lo"
  <2>1. Written(old, x) = Hi(old) * 256 + x.val
    BY <1>2 DEF Written
  <2> QED
    BY <1>2, <2>1 DEF Hi, NIGHT_HTS_MAX
<1> QED
  BY <1>1, <1>2

\* Every write on the bus.
LEMMA LimitWrite ==
  ASSUME TInv, LimitInv, Write
  PROVE  LimitInv'
<1> DEFINE h == Head(todo)
<1>1. /\ Well(h) /\ h.reg \in RegNames
      /\ \A n \in RegNames : reg'[n] = IF n = h.reg THEN Written(reg[n], h) ELSE reg[n]
      /\ Range(todo) = {h} \cup Range(todo')
      /\ UNCHANGED <<sensorFS, pc, plan, nightHtsBase>>
  BY WriteEffect DEF base
<1>2. /\ reg.hts \in Nat /\ reg.ySt \in Nat /\ reg.yEnd \in Int
      /\ \A x \in Range(todo) : Well(x)
  BY NextWrite DEF TInv, RegInv, Write
<1> HIDE DEF h
<1>3. LineFits'
  <2>1. reg'.hts <= NIGHT_HTS_MAX
    <3>1. CASE h.reg = "hts"
      <4>1. reg'.hts = Written(reg.hts, h)
        BY <1>1, <3>1 DEF RegNames
      <4>2. \/ h.part = "hi" /\ h.val \in Nat /\ h.val <= 31
            \/ h.part = "lo" /\ h.val \in 0..255
        BY <1>1, <3>1 DEF Well, LimitInv, LineFits
      <4> QED
        BY <1>2, <4>1, <4>2, ByteFits DEF LimitInv, LineFits
    <3>2. CASE h.reg # "hts"
      <4>1. reg'.hts = reg.hts
        BY <1>1, <3>2 DEF RegNames
      <4> QED
        BY <4>1 DEF LimitInv, LineFits
    <3> QED
      BY <3>1, <3>2
  <2> QED
    BY <1>1, <2>1 DEF LimitInv, LineFits
<1>4. Spans'
  <2>1. /\ reg'.ySt = IF h.reg = "ySt" THEN h.val ELSE reg.ySt
        /\ reg'.yEnd = IF h.reg = "yEnd" THEN h.val ELSE reg.yEnd
    BY <1>1 DEF Well, Written, RegNames
  <2>2. Spans /\ Agree(Range(todo))
    BY DEF LimitInv, TInv, TodoInv
  <2>3. reg'.ySt <= reg'.yEnd + 1
    BY <1>1, <2>1, <2>2 DEF Spans
  <2>4. ASSUME NEW x \in Range(todo')
        PROVE  /\ x.reg = "ySt" => x.val <= reg'.yEnd + 1
               /\ x.reg = "yEnd" => reg'.ySt <= x.val + 1
    BY <1>1, <2>1, <2>2 DEF Spans
  <2> QED
    BY <1>1, <2>2, <2>3, <2>4 DEF Spans
<1>5. ClockFits'
  BY <1>1 DEF LimitInv, ClockFits
<1> QED
  BY <1>3, <1>4, <1>5 DEF LimitInv

\* A write that is lost leaves the registers and no new writes.
LEMMA LimitLose ==
  ASSUME TInv, LimitInv, Lose
  PROVE  LimitInv'
<1>1. /\ UNCHANGED <<reg, sensorFS, pc, plan, nightHtsBase>>
      /\ Range(todo') \subseteq Range(todo)
  <2>1. Range(Tail(todo)) \subseteq Range(todo)
    BY NextWrite DEF TInv, Lose
  <2>2. Range(<<>>) = {}
    BY DEF Range
  <2> QED
    BY <2>1, <2>2 DEF Lose, base
<1> QED
  BY <1>1 DEF LimitInv, LineFits, Spans, ClockFits

\* The line, the window and the clock of the driver, or those there are.
LEMMA LimitSettle ==
  ASSUME TInv, LimitInv, Settle
  PROVE  LimitInv'
<1>1. /\ Range(todo') = {} /\ pc' = "size" /\ nightHtsBase' = nightHtsBase
      /\ reg' = reg \/ reg' = DriverRegs(fsizePtr)
  BY DEF Settle, base, Range
<1>2. PICK d : /\ d.hts \in Nat /\ d.hts <= NIGHT_HTS_MAX /\ d.ySt \in Nat /\ d.rows \in Nat
               /\ d = Driver[fsizePtr]
  <2>1. fsizePtr \in Sizes
    BY DEF TInv, WebInv
  <2>2. Driver[fsizePtr].hts \in HTS_LEAST..NIGHT_HTS_MAX
    BY <2>1, DriverAssumption
  <2>3. \A n \in HTS_LEAST..NIGHT_HTS_MAX : n <= NIGHT_HTS_MAX
    BY DEF HTS_LEAST, NIGHT_HTS_MAX
  <2> QED
    BY <2>1, <2>2, <2>3, SizeFacts
<1>3. reg' = DriverRegs(fsizePtr) => /\ reg'.hts = d.hts /\ reg'.ySt = d.ySt
                                     /\ reg'.yEnd = d.ySt + d.rows - 1
  BY <1>2 DEF DriverRegs
<1>4. reg'.hts <= NIGHT_HTS_MAX /\ reg'.ySt <= reg'.yEnd + 1
  BY <1>1, <1>2, <1>3 DEF LimitInv, LineFits, Spans
<1> QED
  BY <1>1, <1>4 DEF LimitInv, LineFits, Spans, ClockFits

\* Every part: the high byte of a line within its register, a window cut from the one there is.
LEMMA LimitPart ==
  ASSUME TInv, LimitInv, Parts
  PROVE  LimitInv'
<1>1. /\ UNCHANGED <<reg, sensorFS>> /\ \A x \in Range(todo') : Allowed(x)
  BY StepWrites
<1>2. /\ WebInv /\ RegInv
      /\ pc = "frame" => plan.hts \in Nat
      /\ reg.hts \in Nat /\ reg.cols \in Nat /\ reg.ySt \in Nat /\ reg.yEnd \in Int
  BY DEF TInv, RegInv, PlanInv
<1>3. LineFits /\ Spans /\ ClockFits
  BY DEF LimitInv
<1>4. ASSUME NEW x \in Range(todo'), x.reg = "hts", x.part = "hi"
      PROVE  x.val <= 31
  <2>1. PICK v \in Nat : x.val = Hi(v) /\ v <= NIGHT_HTS_MAX
    <3>1. \A name, v : /\ hi(name, v).reg = name /\ hi(name, v).part = "hi" /\ hi(name, v).val = Hi(v)
                       /\ lo(name, v).part = "lo" /\ w(name, v).reg = name
      BY DEF hi, lo, w
    <3>2. CutLine \in Nat /\ HtsFloorFor(sensorFS) \in Nat /\ HtsFloorFor(sensorFS) <= NIGHT_HTS_MAX
      BY <1>2 DEF CutLine, HtsFloorFor, Higher, HTS_FLOOR_FULLRES, HTS_FLOOR, NIGHT_HTS_MAX
    <3>3. \/ pc = "cropRest" /\ reg.hts > CutLine /\ x = hi("hts", CutLine)
          \/ pc = "line" /\ x = hi("hts", HtsFloorFor(sensorFS))
          \/ pc = "frame" /\ x = hi("hts", plan.hts)
      BY <1>1, <1>4, <3>1 DEF Allowed
    <3>4. CASE reg.hts > CutLine /\ x = hi("hts", CutLine)
      <4>1. CutLine <= NIGHT_HTS_MAX
        BY <1>2, <1>3, <3>2, <3>4 DEF LineFits, NIGHT_HTS_MAX
      <4> QED
        BY <3>1, <3>2, <3>4, <4>1
    <3>5. CASE x = hi("hts", HtsFloorFor(sensorFS))
      BY <3>1, <3>2, <3>5
    <3>6. CASE pc = "frame" /\ x = hi("hts", plan.hts)
      BY <1>2, <1>3, <3>1, <3>6 DEF LineFits
    <3> QED
      BY <3>3, <3>4, <3>5, <3>6
  <2> QED
    BY <2>1 DEF Hi, NIGHT_HTS_MAX
<1>5. LineFits'
  BY <1>1, <1>3, <1>4, PlanFits DEF LineFits
<1>6. Spans'
  <2>1. PICK a \in Int, b \in Int :
          /\ a <= b + 1 /\ a <= reg.yEnd + 1 /\ reg.ySt <= b + 1
          /\ \A x \in Range(todo') : /\ x.reg = "ySt" => x.val = a
                                     /\ x.reg = "yEnd" => x.val = b
    <3>0. \A name, v : w(name, v).reg = name /\ w(name, v).val = v
      BY DEF w
    <3>1. CASE pc = "crop" /\ Crops(sensorFS)
      <4> DEFINE a == CropStart(sensorFS)
                 b == CropStart(sensorFS) + CropRows(sensorFS) - 1
      <4>1. /\ a \in Nat /\ a >= reg.ySt /\ CropRows(sensorFS) \in Nat /\ b <= reg.yEnd
        BY <1>2, <3>1, CropFits
      <4>2. b \in Int /\ a <= b + 1 /\ a <= reg.yEnd + 1 /\ reg.ySt <= b + 1
        BY <1>2, <4>1
      <4>3. \A x \in Range(todo') : /\ x.reg = "ySt" => x = w("ySt", a)
                                    /\ x.reg = "yEnd" => x = w("yEnd", b)
        <5>1. \A n, v : hi(n, v).reg = n /\ lo(n, v).reg = n
          BY DEF hi, lo
        <5> HIDE DEF a, b
        <5>2. \A x \in Range(todo') : x.reg \in {"ySt", "yEnd"} => x \in {w("ySt", a), w("yEnd", b)}
          BY <1>1, <3>1 DEF Allowed, a, b
        <5> QED
          BY <3>0, <5>2
      <4> HIDE DEF a, b
      <4> QED
        BY <3>0, <4>1, <4>2, <4>3
    <3>2. CASE pc = "rows" /\ sensorFS = "HDV2"
      <4>1. reg.ySt <= 256 /\ reg.yEnd >= 1695
        BY <1>2, <3>2 DEF RegInv
      <4>2. \A x \in Range(todo') : /\ x.reg = "ySt" => x = w("ySt", 256)
                                    /\ x.reg = "yEnd" => x = w("yEnd", 1695)
        BY <1>1, <3>0, <3>2 DEF Allowed
      <4>3. 256 <= 1695 + 1 /\ 256 <= reg.yEnd + 1 /\ reg.ySt <= 1695 + 1
        BY <1>2, <4>1
      <4> QED
        BY <3>0, <4>2, <4>3
    <3>3. CASE ~(pc = "crop" /\ Crops(sensorFS)) /\ ~(pc = "rows" /\ sensorFS = "HDV2")
      <4>1. \A n, v : hi(n, v).reg = n /\ lo(n, v).reg = n
        BY DEF hi, lo
      <4>2. \A x \in Range(todo') : x.reg \notin {"ySt", "yEnd"}
        BY <1>1, <3>3, <4>1 DEF Allowed
      <4> QED
        BY <1>2, <1>3, <4>2 DEF Spans
    <3> QED
      BY <3>1, <3>2, <3>3
  <2> QED
    BY <1>1, <1>3, <2>1 DEF Spans
<1>7. ClockFits'
  BY <1>3, PlanFits
<1> QED
  BY <1>5, <1>6, <1>7 DEF LimitInv

\* At the start, and then at every step.
LEMMA LimitInit == Init => LimitInv
<1> SUFFICES ASSUME Init PROVE LimitInv
  OBVIOUS
<1>1. PICK fs \in Sizes : reg = DriverRegs(fs)
  BY DEF Init
<1>2. Range(todo) = {} /\ pc = "size" /\ nightHtsBase = 0
  BY DEF Init, Range
<1>3. /\ reg.hts = Driver[fs].hts /\ reg.ySt = Driver[fs].ySt
      /\ reg.yEnd = Driver[fs].ySt + Driver[fs].rows - 1
  BY <1>1 DEF DriverRegs
<1>4. reg.hts <= NIGHT_HTS_MAX
  <2>1. Driver[fs].hts \in HTS_LEAST..NIGHT_HTS_MAX
    BY DriverAssumption
  <2>2. \A n \in HTS_LEAST..NIGHT_HTS_MAX : n <= NIGHT_HTS_MAX
    BY DEF HTS_LEAST, NIGHT_HTS_MAX
  <2> QED
    BY <1>3, <2>1, <2>2
<1>5. reg.ySt <= reg.yEnd + 1
  BY <1>3, SizeFacts
<1> QED
  BY <1>2, <1>4, <1>5 DEF LimitInv, LineFits, Spans, ClockFits, NIGHT_HTS_MAX

LEMMA LimitNext == TInv /\ LimitInv /\ [Next]_vars => LimitInv'
<1> SUFFICES ASSUME TInv, LimitInv, [Next]_vars PROVE LimitInv'
  OBVIOUS
<1>1. CASE Web \/ UNCHANGED vars
  <2>1. UNCHANGED <<reg, sensorFS, todo, pc, plan, nightHtsBase>>
    BY <1>1 DEF Web, vars, base
  <2> QED
    BY <2>1 DEF LimitInv, LineFits, Spans, ClockFits
<1>2. Tune => Settle \/ Parts
  BY DEF Tune, Parts
<1> QED
  BY <1>1, <1>2, LimitWrite, LimitLose, LimitSettle, LimitPart DEF Next
----------------------------------------------------------------------------
(* The window of every frame.                                              *)

\* Two bytes of a frame length of at least f lines.
Pair(x, y, f) ==
    /\ x.reg = "vts" /\ x.part = "hi" /\ x.val \in Nat
    /\ y.reg = "vts" /\ y.part = "lo" /\ y.val \in 0..255
    /\ x.val * 256 + y.val >= f

\* The bytes still to be written come in such pairs, but for one whose first is written.
Paired(s, f) ==
    \A i \in DOMAIN s : s[i].reg = "vts" =>
        \/ i + 1 \in DOMAIN s /\ Pair(s[i], s[i + 1], f)
        \/ i - 1 \in DOMAIN s /\ Pair(s[i - 1], s[i], f)
        \/ i = 1 /\ s[i].part = "lo"

\* The frame covers the window, or will when the second byte of it is written.
Covers ==
    /\ reg.vts \in Nat
    /\ ~Halfway => reg.vts >= RowFloor(sensorFS)
    /\ Halfway => /\ Head(todo).val \in 0..255
                  /\ Hi(reg.vts) * 256 + Head(todo).val >= RowFloor(sensorFS)

CoverInv == lost = 0 => Paired(todo, RowFloor(sensorFS)) /\ Covers

LEMMA CoverInit == Init => CoverInv
<1> SUFFICES ASSUME Init PROVE CoverInv
  OBVIOUS
<1>1. /\ sensorFS \in Sizes /\ todo = <<>> /\ reg.vts = Driver[sensorFS].vts
      /\ reg.ySt = Driver[sensorFS].ySt
      /\ reg.yEnd = Driver[sensorFS].ySt + Driver[sensorFS].rows - 1
  BY DEF Init, DriverRegs
<1>2. RowFloor(sensorFS) = DriverFloor(Driver[sensorFS])
  <2>1. PICK fs \in Sizes : sensorFS = fs
    BY <1>1
  <2>2. {Driver[fs].ySt, Driver[fs].rows} \subseteq Nat /\ Driver[fs].ss \in {1, 2}
    BY SizeFacts
  <2>3. RowsRead = Driver[fs].rows
    BY <1>1, <2>1, <2>2 DEF RowsRead
  <2> QED
    BY <2>1, <2>2, <2>3 DEF RowFloor, DriverFloor, Binned
<1> QED
  BY <1>1, <1>2, SizeFacts DEF CoverInv, Paired, Covers, Halfway

\* set_framesize() gives a frame that covers the window it gives.
LEMMA CoverSettle ==
  ASSUME TInv, CoverInv, Settle, lost = 0
  PROVE  CoverInv'
<1>1. todo = <<>> /\ todo' = <<>> /\ fsizePtr \in Sizes
  BY DEF Settle, TInv, WebInv
<1>2. Paired(todo, RowFloor(sensorFS))' /\ ~Halfway' /\ ~Halfway
  BY <1>1 DEF Paired, Halfway
<1>3. CASE sensorFS' = fsizePtr /\ reg' = DriverRegs(fsizePtr)
  <2>1. /\ reg'.vts = Driver[fsizePtr].vts /\ reg'.ySt = Driver[fsizePtr].ySt
        /\ reg'.yEnd = Driver[fsizePtr].ySt + Driver[fsizePtr].rows - 1
    BY <1>3 DEF DriverRegs
  <2>2. RowFloor(sensorFS)' = DriverFloor(Driver[fsizePtr])
    <3>1. PICK fs \in Sizes : fsizePtr = fs
      BY <1>1
    <3>2. {Driver[fs].ySt, Driver[fs].rows} \subseteq Nat /\ Driver[fs].ss \in {1, 2}
      BY SizeFacts
    <3>3. RowsRead' = Driver[fs].rows /\ sensorFS' = fs
      BY <1>3, <2>1, <3>1, <3>2 DEF RowsRead
    <3> QED
      BY <3>1, <3>2, <3>3 DEF RowFloor, DriverFloor, Binned
  <2> QED
    BY <1>1, <1>2, <2>1, <2>2, SizeFacts DEF CoverInv, Covers
<1>4. CASE UNCHANGED <<sensorFS, reg>>
  BY <1>2, <1>4 DEF CoverInv, Covers, RowFloor, RowsRead, Binned
<1> QED
  BY <1>3, <1>4 DEF Settle

\* The web server touches no register.
LEMMA CoverWeb ==
  ASSUME CoverInv, UNCHANGED <<reg, sensorFS, todo, lost>>
  PROVE  CoverInv'
  BY DEF CoverInv, Paired, Pair, Covers, Halfway, RowFloor, RowsRead, Binned

\* What follows the first write comes in pairs still, and of a smaller window.
LEMMA PairedTail ==
  ASSUME NEW S, NEW s \in Seq(S), s # <<>>, NEW f \in Int, NEW g \in Int, g <= f, Paired(s, f)
  PROVE  Paired(Tail(s), g)
<1> DEFINE t == Tail(s)
<1>0. ASSUME NEW x, NEW y, Pair(x, y, f) PROVE Pair(x, y, g)
  <2>1. PICK a \in Nat, b \in 0..255 : a = x.val /\ b = y.val /\ a * 256 + b >= f
    BY <1>0 DEF Pair
  <2>2. a * 256 + b >= g
    BY <2>1
  <2> QED
    BY <1>0, <2>1, <2>2 DEF Pair
<1> SUFFICES ASSUME NEW i \in DOMAIN t, t[i].reg = "vts"
             PROVE  \/ i + 1 \in DOMAIN t /\ Pair(t[i], t[i + 1], g)
                    \/ i - 1 \in DOMAIN t /\ Pair(t[i - 1], t[i], g)
                    \/ i = 1 /\ t[i].part = "lo"
  BY DEF Paired
<1>1. /\ i \in Nat /\ i >= 1 /\ i + 1 \in DOMAIN s /\ t[i] = s[i + 1]
      /\ i + 2 \in DOMAIN s => i + 1 \in DOMAIN t /\ t[i + 1] = s[i + 2]
      /\ i > 1 => i - 1 \in DOMAIN t /\ t[i - 1] = s[i]
  OBVIOUS
<1> HIDE DEF t
<1>2. \/ i + 2 \in DOMAIN s /\ Pair(s[i + 1], s[i + 2], f)
      \/ i \in DOMAIN s /\ Pair(s[i], s[i + 1], f)
  <2>1. (i + 1) + 1 = i + 2 /\ (i + 1) - 1 = i /\ i + 1 # 1
    BY <1>1
  <2>2. \/ (i + 1) + 1 \in DOMAIN s /\ Pair(s[i + 1], s[(i + 1) + 1], f)
        \/ (i + 1) - 1 \in DOMAIN s /\ Pair(s[(i + 1) - 1], s[i + 1], f)
        \/ i + 1 = 1 /\ s[i + 1].part = "lo"
    BY <1>1 DEF Paired
  <2> QED
    BY <2>1, <2>2
<1>3. CASE i + 2 \in DOMAIN s /\ Pair(s[i + 1], s[i + 2], f)
  BY <1>0, <1>1, <1>3
<1>4. CASE Pair(s[i], s[i + 1], f)
  <2>1. CASE i = 1
    BY <1>1, <1>4, <2>1 DEF Pair
  <2>2. CASE i > 1
    BY <1>0, <1>1, <1>4, <2>2
  <2> QED
    BY <1>1, <2>1, <2>2
<1> QED
  BY <1>2, <1>3, <1>4

\* The write that will be next.
LEMMA NextWrites ==
  ASSUME NEW S, NEW s \in Seq(S), s # <<>>
  PROVE  /\ 2 \in DOMAIN s => Head(Tail(s)) = s[2] /\ Tail(s) # <<>>
         /\ Tail(s) # <<>> => Head(Tail(s)) = s[2] /\ 2 \in DOMAIN s
<1> DEFINE t == Tail(s)
<1>1. t \in Seq(S) /\ Len(t) = Len(s) - 1 /\ (Len(s) >= 2 => t[1] = s[2])
  OBVIOUS
<1>2. Len(s) \in Nat /\ DOMAIN s = 1..Len(s)
  OBVIOUS
<1> HIDE DEF t
<1>3. Len(t) \in Nat /\ (t = <<>> <=> Len(t) = 0) /\ (t # <<>> => Head(t) = t[1])
  BY <1>1
<1> QED
  BY <1>1, <1>2, <1>3 DEF t

\* The first byte leaves the second next, with the high byte there; and the second the frame.
LEMMA CoverWrite ==
  ASSUME TInv, CoverInv, Write, lost = 0
  PROVE  CoverInv'
<1> DEFINE h == Head(todo)
           f == RowFloor(sensorFS)
           g == RowFloor(sensorFS)'
<1>1. /\ RegInv /\ sensorFS \in Sizes /\ todo # <<>> /\ todo' = Tail(todo)
      /\ h \in Range(todo) /\ Well(h) /\ todo \in Seq(Range(todo))
      /\ Paired(todo, f) /\ Covers /\ UNCHANGED <<sensorFS, lost>>
      /\ Agree(Range(todo))
  <2>1. TodoInv /\ RegInv /\ sensorFS \in Sizes /\ todo # <<>>
    BY DEF TInv, WebInv, Write
  <2>2. todo \in Seq(Range(todo))
    BY <2>1, InRange DEF TodoInv
  <2> QED
    BY <2>1, <2>2, NextWrite DEF CoverInv, Write
<1>2. /\ h.reg \in RegNames
      /\ \A n \in RegNames : reg'[n] = IF n = h.reg THEN Written(reg[n], h) ELSE reg[n]
  BY <1>1 DEF Write, RegInv, Well
<1>3. h.reg \notin {"hts", "vts"} => Written(reg[h.reg], h) = h.val
  BY <1>1 DEF Well, Written
<1>4. g <= f /\ g \in Int /\ f \in Int
  <2>1. reg'.ySt \in Int /\ reg'.ySt >= reg.ySt
    BY <1>1, <1>2, <1>3 DEF Well, RegInv, RegNames
  <2>2. reg'.yEnd \in Int /\ reg'.yEnd <= reg.yEnd
    BY <1>1, <1>2, <1>3 DEF Well, RegInv, RegNames
  <2>3. f \in Int
    BY <1>1 DEF RegInv, RowFloor, RowsRead
  <2> QED
    BY <1>1, <2>1, <2>2, <2>3, RowFloorFalls
<1>5. h = todo[1] /\ 1 \in DOMAIN todo
  BY <1>1
<1> HIDE DEF h, f, g
<1>6. Paired(todo', g)
  BY <1>1, <1>4, PairedTail
<1>7. reg.vts \in Nat /\ Hi(reg.vts) \in Nat /\ Lo(reg.vts) \in 0..255
  <2>1. PICK v \in Nat : v = reg.vts
    BY <1>1 DEF Covers
  <2>2. v \div 256 \in Nat /\ v % 256 \in 0..255
    OBVIOUS
  <2> QED
    BY <2>1, <2>2 DEF Hi, Lo
<1>8. 2 \in DOMAIN todo => Head(todo') = todo[2] /\ todo' # <<>>
  BY <1>1, NextWrites
<1>9. todo' # <<>> => Head(todo') = todo[2] /\ 2 \in DOMAIN todo
  BY <1>1, NextWrites
<1>10. CASE h.reg = "vts" /\ h.part = "hi"
  <2>1. 2 \in DOMAIN todo /\ Pair(h, todo[2], f)
    <3>1. \/ 1 + 1 \in DOMAIN todo /\ Pair(todo[1], todo[1 + 1], f)
          \/ 1 - 1 \in DOMAIN todo
      BY <1>1, <1>5, <1>10 DEF Paired
    <3> QED
      BY <1>1, <1>5, <3>1
  <2>2. reg'.vts = h.val * 256 + Lo(reg.vts) /\ h.val \in Nat
    BY <1>2, <1>10, <2>1 DEF Written, RegNames, Pair
  <2>3. reg'.vts \in Nat /\ Hi(reg'.vts) = h.val
    BY <1>7, <2>2 DEF Hi
  <2>4. Halfway' /\ Head(todo').val \in 0..255 /\ h.val * 256 + Head(todo').val >= f
    BY <1>8, <2>1 DEF Halfway, Pair
  <2>5. Hi(reg'.vts) * 256 + Head(todo').val >= g
    BY <1>4, <2>2, <2>3, <2>4
  <2> QED
    BY <1>6, <2>3, <2>4, <2>5 DEF CoverInv, Covers, g
<1>11. CASE ~(h.reg = "vts" /\ h.part = "hi")
  <2>1. ~Halfway'
    <3> SUFFICES ASSUME 2 \in DOMAIN todo, todo[2].reg = "vts", todo[2].part = "lo" PROVE FALSE
      BY <1>9 DEF Halfway
    <3>1. \/ 2 + 1 \in DOMAIN todo /\ Pair(todo[2], todo[2 + 1], f)
          \/ 2 - 1 \in DOMAIN todo /\ Pair(todo[2 - 1], todo[2], f)
      BY <1>1 DEF Paired
    <3>2. Pair(todo[2], todo[3], f) \/ Pair(todo[1], todo[2], f)
      BY <3>1
    <3> QED
      BY <1>5, <1>11, <3>2 DEF Pair
  <2>2. reg'.vts \in Nat /\ reg'.vts >= f
    <3>1. CASE h.reg = "vts"
      <4>1. h.part = "lo"
        <5>1. \/ 1 + 1 \in DOMAIN todo /\ Pair(todo[1], todo[1 + 1], f)
              \/ 1 - 1 \in DOMAIN todo
              \/ todo[1].part = "lo"
          BY <1>1, <1>5, <3>1 DEF Paired
        <5> QED
          BY <1>1, <1>5, <1>11, <3>1, <5>1 DEF Pair
      <4>2. Halfway
        BY <1>1, <3>1, <4>1 DEF Halfway, h
      <4>3. h.val \in 0..255 /\ Hi(reg.vts) * 256 + h.val >= f
        BY <1>1, <4>2 DEF Covers, h, f
      <4>4. reg'.vts = Hi(reg.vts) * 256 + h.val
        BY <1>2, <3>1, <4>1 DEF Written, RegNames
      <4> QED
        BY <1>7, <4>3, <4>4
    <3>2. CASE h.reg # "vts"
      <4>1. ~Halfway
        BY <3>2 DEF Halfway, h
      <4>2. reg'.vts = reg.vts
        BY <1>2, <3>2 DEF RegNames
      <4> QED
        BY <1>1, <1>7, <4>1, <4>2 DEF Covers, f
    <3> QED
      BY <3>1, <3>2
  <2>3. reg'.vts >= g
    BY <1>4, <2>2
  <2> QED
    BY <1>6, <2>1, <2>2, <2>3 DEF CoverInv, Covers, g
<1> QED
  BY <1>10, <1>11

\* Two bytes among writes of other registers.
LEMMA PairAmong ==
  ASSUME NEW S, \A x \in S : x.reg # "vts", NEW s \in Seq(S), NEW t \in Seq(S),
         NEW a, NEW b, NEW f, Pair(a, b, f)
  PROVE  Paired(s \o <<a, b>> \o t, f) /\ (s = <<>> => Head(s \o <<a, b>> \o t) = a)
<1> DEFINE T == S \cup {a, b}
           ab == <<a, b>>
           u == s \o ab \o t
<1>1. s \in Seq(T) /\ t \in Seq(T) /\ ab \in Seq(T) /\ Len(ab) = 2 /\ ab[1] = a /\ ab[2] = b
  OBVIOUS
<1>2. \A i \in 1..Len(s) : s[i].reg # "vts"
  OBVIOUS
<1>3. \A i \in 1..Len(t) : t[i].reg # "vts"
  OBVIOUS
<1> HIDE DEF T, ab
<1>4. /\ Len(u) = Len(s) + 2 + Len(t) /\ DOMAIN u = 1..Len(u)
      /\ \A i \in 1..Len(u) : u[i] = IF i <= Len(s) THEN s[i]
                                       ELSE IF i <= Len(s) + 2 THEN ab[i - Len(s)]
                                       ELSE t[i - (Len(s) + 2)]
  <2> DEFINE v == s \o ab
  <2>1. /\ v \in Seq(T) /\ Len(v) = Len(s) + 2
        /\ \A i \in 1..Len(v) : v[i] = IF i <= Len(s) THEN s[i] ELSE ab[i - Len(s)]
    <3>1. /\ s \o ab \in Seq(T) /\ Len(s \o ab) = Len(s) + Len(ab)
          /\ \A i \in 1..(Len(s) + Len(ab)) :
                (s \o ab)[i] = IF i <= Len(s) THEN s[i] ELSE ab[i - Len(s)]
      BY <1>1, ConcatProperties
    <3> QED
      BY <1>1, <3>1
  <2>2. Len(s) \in Nat
    OBVIOUS
  <2> HIDE DEF v
  <2>3. /\ v \o t \in Seq(T) /\ Len(v \o t) = Len(v) + Len(t)
        /\ \A i \in 1..Len(v \o t) : (v \o t)[i] = IF i <= Len(v) THEN v[i] ELSE t[i - Len(v)]
    <3>1. /\ v \o t \in Seq(T) /\ Len(v \o t) = Len(v) + Len(t)
          /\ \A i \in 1..(Len(v) + Len(t)) :
                (v \o t)[i] = IF i <= Len(v) THEN v[i] ELSE t[i - Len(v)]
      <4>1. t \in Seq(T)
        BY <1>1
      <4>2. v \in Seq(T)
        BY <2>1
      <4> QED
        BY <4>1, <4>2, ConcatProperties
    <3> QED
      BY <3>1
  <2>4. u = v \o t /\ DOMAIN (v \o t) = 1..Len(v \o t)
    BY <2>3 DEF v
  <2> HIDE DEF u
  <2> QED
    BY <2>1, <2>2, <2>3, <2>4
<1>5. Len(s) \in Nat /\ Len(t) \in Nat
  OBVIOUS
<1> HIDE DEF u
<1>6. u[Len(s) + 1] = a /\ u[Len(s) + 2] = b /\ {Len(s) + 1, Len(s) + 2} \subseteq DOMAIN u
  BY <1>1, <1>4, <1>5
<1>7. ASSUME NEW i \in DOMAIN u, u[i].reg = "vts"
      PROVE  i = Len(s) + 1 \/ i = Len(s) + 2
  BY <1>2, <1>3, <1>4, <1>5, <1>7
<1>8. Paired(u, f)
  <2> SUFFICES ASSUME NEW i \in DOMAIN u, u[i].reg = "vts"
               PROVE  \/ i + 1 \in DOMAIN u /\ Pair(u[i], u[i + 1], f)
                      \/ i - 1 \in DOMAIN u /\ Pair(u[i - 1], u[i], f)
    BY DEF Paired
  <2>1. CASE i = Len(s) + 1
    <3>1. i + 1 = Len(s) + 2
      BY <1>5, <2>1
    <3> QED
      BY <1>6, <2>1, <3>1
  <2>2. CASE i = Len(s) + 2
    <3>1. i - 1 = Len(s) + 1
      BY <1>5, <2>2
    <3> QED
      BY <1>6, <2>2, <3>1
  <2> QED
    BY <1>7, <2>1, <2>2
<1>9. s = <<>> => Head(u) = a
  <2>1. s = <<>> => Len(s) = 0
    OBVIOUS
  <2>2. Head(u) = u[1]
    BY <1>1 DEF u
  <2> QED
    BY <1>6, <2>1, <2>2
<1> QED
  BY <1>8, <1>9 DEF u, ab

\* The two bytes of a frame length that covers the window.
LEMMA BytesPair ==
  ASSUME NEW v \in Nat, NEW f, v >= f
  PROVE  Pair(hi("vts", v), lo("vts", v), f)
<1>1. v \div 256 \in Nat /\ v % 256 \in 0..255 /\ (v \div 256) * 256 + (v % 256) = v
  OBVIOUS
<1> QED
  BY <1>1 DEF Pair, hi, lo, Hi, Lo

\* A part that starts when the frame covers the window, and gives no other or one that does.
LEMMA CoverPart ==
  ASSUME TInv, LimitInv, CoverInv, lost = 0, Parts
  PROVE  CoverInv'
<1> DEFINE f == RowFloor(sensorFS)
<1>1. /\ todo = <<>> /\ UNCHANGED <<reg, sensorFS, lost>>
      /\ RowFloor(sensorFS)' = f /\ f \in Nat
  <2>1. todo = <<>> /\ UNCHANGED <<reg, sensorFS, lost>>
    BY StepWrites
  <2>2. f \in Nat
    <3>1. reg.ySt \in Nat /\ reg.yEnd \in Int /\ reg.ySt <= reg.yEnd + 1
      BY DEF TInv, RegInv, LimitInv, Spans
    <3> QED
      BY <3>1 DEF RowFloor, RowsRead
  <2> QED
    BY <2>1, <2>2 DEF RowFloor, RowsRead, Binned
<1>2. reg.vts \in Nat /\ reg.vts >= f
  BY <1>1 DEF CoverInv, Covers, Halfway
<1>3. SUFFICES Paired(todo', f) /\ ~Halfway'
  BY <1>1, <1>2 DEF CoverInv, Covers
<1> HIDE DEF f
<1>4. ASSUME \A x \in Range(todo') : x.reg # "vts", todo' \in Seq(Range(todo'))
      PROVE  Paired(todo', f) /\ ~Halfway'
  <2>1. \A i \in DOMAIN todo' : todo'[i].reg # "vts"
    BY <1>4 DEF Range
  <2>2. todo' # <<>> => Head(todo') \in Range(todo')
    BY <1>4
  <2> QED
    BY <1>4, <2>1, <2>2 DEF Paired, Halfway
<1>5. ASSUME NEW S, \A x \in S : x.reg # "vts", NEW s \in Seq(S), NEW t \in Seq(S),
             NEW v \in Nat, v >= f, todo' = s \o <<hi("vts", v), lo("vts", v)>> \o t
      PROVE  Paired(todo', f) /\ ~Halfway'
  <2> DEFINE a == hi("vts", v)
             b == lo("vts", v)
  <2>1. Pair(a, b, f)
    BY <1>5, BytesPair
  <2>2. a.part = "hi"
    BY DEF hi
  <2> HIDE DEF a, b
  <2>3. Paired(todo', f) /\ (s = <<>> => Head(todo') = a)
    <3>1. todo' = s \o <<a, b>> \o t
      BY <1>5 DEF a, b
    <3>2. Paired(s \o <<a, b>> \o t, f) /\ (s = <<>> => Head(s \o <<a, b>> \o t) = a)
      <4>1. \A x \in S : x.reg # "vts"
        BY <1>5
      <4>2. s \in Seq(S) /\ t \in Seq(S)
        OBVIOUS
      <4> QED
        BY <2>1, <4>1, <4>2, PairAmong
    <3> QED
      BY <3>1, <3>2
  <2>4. s # <<>> => Head(todo') \in S
    <3>1. <<a, b>> \o t \in Seq(S \cup {a, b}) /\ s \in Seq(S \cup {a, b})
      BY <1>5
    <3> QED
      BY <1>5, <3>1 DEF a, b
  <2> QED
    BY <1>5, <2>2, <2>3, <2>4 DEF Halfway
<1>6. TInv' \/ ~(ApplyOutputSize \/ ApplyCropWindow \/ ApplyTightRows \/ ApplyHtsFloor
                  \/ ApplyTunedTiming \/ ApplyScalerClock \/ ApplyAecLimits)
  BY OutputSizeKeeps, CropWindowKeeps, TightRowsKeeps, HtsFloorKeeps, TunedTimingKeeps,
     ScalerClockKeeps, AecLimitsKeeps
<1>7. CASE ApplyOutputSize \/ ApplyCropWindow \/ ApplyTightRows \/ ApplyHtsFloor
           \/ ApplyTunedTiming \/ ApplyScalerClock \/ ApplyAecLimits
  <2>1. pc \notin {"cropRest", "frame"}
    BY <1>7 DEF ApplyOutputSize, ApplyCropWindow, ApplyTightRows, ApplyHtsFloor,
                ApplyTunedTiming, ApplyScalerClock, ApplyAecLimits, Step
  <2>2. \A x \in Range(todo') : x.reg # "vts"
    BY <2>1, StepWrites DEF Allowed, w, hi, lo
  <2>3. todo' \in Seq(Range(todo'))
    BY <1>6, <1>7, InRange DEF TInv, TodoInv
  <2> QED
    BY <1>4, <2>2, <2>3
<1>8. CASE ApplyCropRest
  <2> DEFINE x == w("scaler", FALSE)
             a == hi("hts", CutLine)
             b == lo("hts", CutLine)
             X == IF (Driver[sensorFS].pre = 0 \/ Driver[sensorFS].pre = Driver[sensorFS].outW) /\ reg.scaler
                  THEN <<x>> ELSE <<>>
             H == IF ~Binned(sensorFS) /\ reg.hts > CutLine THEN <<a, b>> ELSE <<>>
             S == {x, a, b}
  <2>1. todo' = WriteVts(f) \o X \o H \/ todo' = <<>>
    BY <1>8 DEF ApplyCropRest, Step, CutLine, f
  <2>2. x.reg = "scaler" /\ a.reg = "hts" /\ b.reg = "hts"
    BY DEF w, hi, lo
  <2> HIDE DEF x, a, b
  <2>3. X \in Seq(S) /\ H \in Seq(S) /\ <<>> \in Seq(S) /\ \A y \in S : y.reg # "vts"
    <3>1. \A i, j, k : {<<i>>, <<j, k>>, <<>>} \subseteq Seq({i, j, k})
      OBVIOUS
    <3> QED
      BY <2>2, <3>1
  <2> HIDE DEF X, H, S
  <2>4. CASE todo' = WriteVts(f) \o X \o H
    <3> DEFINE V == WriteVts(f)
               p == hi("vts", f)
               q == lo("vts", f)
    <3>1. V = <<p, q>>
      BY DEF WriteVts
    <3> HIDE DEF V, p, q
    <3>2. V \o X \o H = <<>> \o V \o (X \o H) /\ X \o H \in Seq(S)
      <4> DEFINE T == S \cup {p, q}
      <4>1. V \in Seq(T) /\ X \in Seq(T) /\ H \in Seq(T)
        BY <2>3, <3>1
      <4> HIDE DEF T
      <4>2. (V \o X) \o H = V \o (X \o H) /\ <<>> \o V = V
        BY <4>1, ConcatAssociative, ConcatEmptySeq
      <4> QED
        BY <2>3, <4>2
    <3> DEFINE e == <<>>
               R == X \o H
    <3>3. todo' = e \o <<p, q>> \o R /\ e \in Seq(S) /\ R \in Seq(S)
      BY <2>3, <2>4, <3>1, <3>2 DEF V
    <3>4. f \in Nat /\ f >= f
      BY <1>1
    <3> HIDE DEF e, R
    <3> QED
      BY <1>5, <2>3, <3>3, <3>4 DEF p, q
  <2>5. CASE todo' = <<>>
    BY <2>5 DEF Paired, Halfway
  <2> QED
    BY <2>1, <2>4, <2>5
<1>9. CASE ApplyFrame
  <2> DEFINE h == plan.hts
             v == plan.vts
             I == InOrder("hts", reg.hts, h)
             S == {hi("hts", h), lo("hts", h)}
  <2>1. pc = "frame" /\ (todo' = I \o WriteVts(v) \/ todo' = <<>>)
    BY <1>9 DEF ApplyFrame, Step
  <2>2. h \in Nat /\ reg.hts \in Nat /\ v \in Nat /\ v >= f
    BY <1>1, <2>1 DEF TInv, PlanInv, RegInv, f
  <2> HIDE DEF h, v
  <2>3. I \in Seq(S) /\ <<>> \in Seq(S) /\ \A y \in S : y.reg # "vts"
    <3>1. I \in Seq(S)
      BY <2>2, InOrderRange
    <3>2. \A y \in S : y.reg = "hts"
      BY DEF hi, lo
    <3> QED
      BY <3>1, <3>2
  <2> HIDE DEF I, S
  <2>4. CASE todo' = I \o WriteVts(v)
    <3> DEFINE V == WriteVts(v)
               p == hi("vts", v)
               q == lo("vts", v)
    <3>1. V = <<p, q>>
      BY DEF WriteVts
    <3> HIDE DEF V, p, q
    <3>2. I \o V = I \o V \o <<>>
      <4> DEFINE T == S \cup {p, q}
      <4>1. V \in Seq(T) /\ I \in Seq(T)
        BY <2>3, <3>1
      <4> HIDE DEF T
      <4> QED
        BY <4>1, ConcatEmptySeq
    <3>3. todo' = I \o <<p, q>> \o <<>>
      BY <2>4, <3>1, <3>2 DEF V
    <3> QED
      BY <1>5, <2>2, <2>3, <3>3 DEF p, q
  <2>5. CASE todo' = <<>>
    BY <2>5 DEF Paired, Halfway
  <2> QED
    BY <2>1, <2>4, <2>5
<1> QED
  BY <1>7, <1>8, <1>9 DEF Parts

LEMMA CoverNext == TInv /\ PllInv /\ LimitInv /\ CoverInv /\ [Next]_vars => CoverInv'
<1> SUFFICES ASSUME TInv, PllInv, LimitInv, CoverInv, [Next]_vars, lost' = 0 PROVE CoverInv'
  BY DEF CoverInv
<1>0. lost \in Nat
  BY DEF PllInv
<1>1. CASE Web
  BY <1>1, CoverWeb DEF Web
<1>2. CASE Write
  BY <1>2, CoverWrite DEF Write
<1>3. CASE Lose
  BY <1>0, <1>3 DEF Lose
<1>4. CASE Settle
  BY <1>4, CoverSettle DEF Settle
<1>5. CASE Parts
  BY <1>5, CoverPart, StepWrites
<1>6. CASE UNCHANGED vars
  BY <1>6, CoverWeb DEF vars
<1> QED
  BY <1>1, <1>2, <1>3, <1>4, <1>5, <1>6 DEF Next, Tune, Parts
----------------------------------------------------------------------------
(* The order of the two bytes of a line.                                   *)

\* A byte of the line written in order leaves it no shorter than both the line there was
\* and the line there is to be.
LEMMA BytesInOrder ==
  ASSUME NEW old \in Nat, NEW v \in Nat
  PROVE  /\ Hi(old) = Hi(v) => Written(old, lo("hts", v)) = v
         /\ Lo(old) = Lo(v) => Written(old, hi("hts", v)) = v
         /\ old < v => /\ Written(old, hi("hts", v)) >= old
                       /\ Hi(Written(old, hi("hts", v))) = Hi(v)
         /\ old > v => /\ Written(old, lo("hts", v)) >= v
                       /\ Lo(Written(old, lo("hts", v))) = Lo(v)
<1>1. /\ Written(old, hi("hts", v)) = Hi(v) * 256 + Lo(old)
      /\ Written(old, lo("hts", v)) = Hi(old) * 256 + Lo(v)
  BY DEF Written, hi, lo
<1> QED
  BY <1>1 DEF Hi, Lo

\* What the next write does to a list that is in order.
LEMMA OrderedStep ==
  ASSUME TInv, Write, NEW v \in Nat, Ordered(v)
  PROVE  /\ Ordered(v)'
         /\ reg'.hts >= Lower(reg.hts, v)
<1> DEFINE h == Head(todo)
<1>1. /\ h.reg \in RegNames
      /\ \A n \in RegNames : reg'[n] = IF n = h.reg THEN Written(reg[n], h) ELSE reg[n]
      /\ Range(todo) = {h} \cup Range(todo')
      /\ todo' = Tail(todo)
  BY WriteEffect DEF Write
<1>2. reg.hts \in Nat
  BY DEF TInv, RegInv
<1>3. hi("hts", v).reg = "hts" /\ lo("hts", v).reg = "hts"
  BY DEF hi, lo
<1>4. h.reg = "hts" => reg'.hts = Written(reg.hts, h)
  BY <1>1 DEF RegNames
<1>5. h.reg # "hts" => reg'.hts = reg.hts
  BY <1>1 DEF RegNames
<1>6. reg.hts >= Lower(reg.hts, v) /\ v >= Lower(reg.hts, v)
  BY <1>2 DEF Lower
<1>7. CASE Free(todo)
  <2>1. h.reg # "hts" /\ Free(Tail(todo))
    BY <1>1, <1>7 DEF Free
  <2> QED
    BY <1>1, <1>5, <1>6, <2>1 DEF Ordered
<1>8. CASE h = hi("hts", v) /\ Lo(reg.hts) = Lo(v) /\ Free(Tail(todo))
  BY <1>1, <1>2, <1>3, <1>4, <1>6, <1>8, BytesInOrder DEF Ordered
<1>9. CASE h = lo("hts", v) /\ Hi(reg.hts) = Hi(v) /\ Free(Tail(todo))
  BY <1>1, <1>2, <1>3, <1>4, <1>6, <1>9, BytesInOrder DEF Ordered
<1>10. CASE /\ h = hi("hts", v) /\ reg.hts < v
            /\ Tail(todo) # <<>> /\ Head(Tail(todo)) = lo("hts", v) /\ Free(Tail(Tail(todo)))
  <2>1. Hi(reg'.hts) = Hi(v) /\ reg'.hts >= reg.hts
    BY <1>2, <1>3, <1>4, <1>10, BytesInOrder
  <2>2. Ordered(v)'
    BY <1>1, <1>10, <2>1 DEF Ordered
  <2>3. Lower(reg.hts, v) = reg.hts
    BY <1>10 DEF Lower
  <2> QED
    BY <2>1, <2>2, <2>3
<1>11. CASE /\ h = lo("hts", v) /\ reg.hts > v
            /\ Tail(todo) # <<>> /\ Head(Tail(todo)) = hi("hts", v) /\ Free(Tail(Tail(todo)))
  <2>1. Lo(reg'.hts) = Lo(v) /\ reg'.hts >= v
    BY <1>2, <1>3, <1>4, <1>11, BytesInOrder
  <2>2. Ordered(v)'
    BY <1>1, <1>11, <2>1 DEF Ordered
  <2>3. Lower(reg.hts, v) = v
    BY <1>2, <1>11 DEF Lower
  <2> QED
    BY <2>1, <2>2, <2>3
<1> HIDE DEF h
<1> QED
  BY <1>7, <1>8, <1>9, <1>10, <1>11 DEF Ordered, h

\* The order of the bytes is the one that keeps the line long.
LEMMA InOrderIs ==
  ASSUME NEW old \in Nat, NEW v \in Nat
  PROVE  /\ v = old => InOrder("hts", old, v) = <<>>
         /\ v > old => InOrder("hts", old, v) = <<hi("hts", v), lo("hts", v)>>
         /\ v < old => InOrder("hts", old, v) = <<lo("hts", v), hi("hts", v)>>
<1> DEFINE a == <<hi("hts", v), lo("hts", v)>>
           b == <<lo("hts", v), hi("hts", v)>>
           r == InOrder("hts", old, v)
           same == v = old
           more == v > old
           less == v < old
<1>1. r = CASE same -> <<>> [] more -> a [] less -> b
  BY DEF InOrder
<1>2. /\ same => ~more /\ ~less
      /\ more => ~same /\ ~less
      /\ less => ~same /\ ~more
  OBVIOUS
<1> HIDE DEF a, b, r, same, more, less
<1>3. (same => r = <<>>) /\ (more => r = a) /\ (less => r = b)
  BY <1>1, <1>2
<1> QED
  BY <1>3 DEF a, b, r, same, more, less

\* The list a line is written by, and what follows it, is in order.
LEMMA OrderedNew ==
  ASSUME NEW v \in Nat, reg.hts \in Nat, reg' = reg, NEW S, NEW t \in Seq(S), Free(t),
         todo' = InOrder("hts", reg.hts, v) \o t
  PROVE  Ordered(v)'
<1> DEFINE a == hi("hts", v)
           b == lo("hts", v)
<1>1. CASE v = reg.hts
  <2>1. todo' = <<>> \o t
    BY <1>1, InOrderIs
  <2>2. todo' = t
    BY <2>1, ConcatEmptySeq
  <2> QED
    BY <2>2 DEF Ordered, Free
<1>2. \A x, y : LET s == <<x, y>> \o t
                IN  /\ Head(s) = x /\ Head(Tail(s)) = y /\ Tail(s) # <<>> /\ Tail(Tail(s)) = t
  <2> SUFFICES ASSUME NEW x, NEW y
               PROVE  LET s == <<x, y>> \o t
                      IN  Head(s) = x /\ Head(Tail(s)) = y /\ Tail(s) # <<>> /\ Tail(Tail(s)) = t
    OBVIOUS
  <2> DEFINE T == S \cup {x, y}
             s == <<x, y>> \o t
  <2>1. t \in Seq(T) /\ <<x, y>> \in Seq(T) /\ Len(<<x, y>>) = 2 /\ <<x, y>>[1] = x /\ <<x, y>>[2] = y
    OBVIOUS
  <2> HIDE DEF T
  <2>2. /\ s \in Seq(T) /\ Len(s) = 2 + Len(t) /\ Len(t) \in Nat
        /\ \A i \in 1..Len(s) : s[i] = IF i <= 2 THEN <<x, y>>[i] ELSE t[i - 2]
    BY <2>1, ConcatProperties
  <2> HIDE DEF s
  <2>3. s[1] = x /\ s[2] = y /\ \A i \in 1..Len(t) : s[i + 2] = t[i]
    BY <2>1, <2>2
  <2> DEFINE u == Tail(s)
             r == Tail(u)
  <2>4. /\ u \in Seq(T) /\ Len(u) = Len(t) + 1 /\ Head(s) = s[1]
        /\ \A i \in 1..(Len(t) + 1) : u[i] = s[i + 1]
    BY <2>2
  <2> HIDE DEF u
  <2>5. u # <<>> /\ Head(u) = u[1]
    BY <2>2, <2>4
  <2>6. /\ r \in Seq(T) /\ Len(r) = Len(t)
        /\ \A i \in 1..Len(t) : r[i] = u[i + 1]
    BY <2>2, <2>4, <2>5
  <2> HIDE DEF r
  <2>7. \A i \in 1..Len(t) : r[i] = t[i]
    <3> SUFFICES ASSUME NEW i \in 1..Len(t) PROVE r[i] = t[i]
      OBVIOUS
    <3>1. i + 1 \in 1..(Len(t) + 1) /\ (i + 1) + 1 = i + 2
      BY <2>2
    <3> QED
      BY <2>3, <2>4, <2>6, <3>1
  <2>8. r = t
    BY <2>1, <2>6, <2>7, SeqEqual
  <2>9. u[1] = y
    BY <2>2, <2>3, <2>4
  <2> QED
    BY <2>3, <2>4, <2>5, <2>8, <2>9 DEF s, u, r
<1>3. CASE v > reg.hts
  <2>1. todo' = <<a, b>> \o t
    BY <1>3, InOrderIs
  <2> HIDE DEF a, b
  <2>2. Head(todo') = a /\ Head(Tail(todo')) = b /\ Tail(todo') # <<>> /\ Tail(Tail(todo')) = t
    BY <1>2, <2>1
  <2> QED
    BY <1>3, <2>2 DEF Ordered, Free, a, b
<1>4. CASE v < reg.hts
  <2>1. todo' = <<b, a>> \o t
    BY <1>4, InOrderIs
  <2> HIDE DEF a, b
  <2>2. Head(todo') = b /\ Head(Tail(todo')) = a /\ Tail(todo') # <<>> /\ Tail(Tail(todo')) = t
    BY <1>2, <2>1
  <2> QED
    BY <1>4, <2>2 DEF Ordered, Free, a, b
<1> QED
  BY <1>1, <1>3, <1>4

\* Both lines are written in order: the one of a binned size, and the one that was planned.
LEMMA OrderPart ==
  ASSUME TInv, Parts
  PROVE  OrderInv'
<1>1. todo = <<>> /\ UNCHANGED <<reg, sensorFS>> /\ reg.hts \in Nat
  BY StepWrites DEF TInv, RegInv
<1>2. CASE ApplyHtsFloor
  <2>0. PICK v \in Nat : v = HtsFloorFor(sensorFS)
    BY DEF HtsFloorFor, HTS_FLOOR
  <2>1. pc' = "retime" /\ todo' = IF Binned(sensorFS) THEN InOrder("hts", reg.hts, v) ELSE <<>>
    BY <1>2, <2>0 DEF ApplyHtsFloor, Step
  <2>2. HtsFloorFor(sensorFS)' = v
    BY <1>1, <2>0
  <2>3. CASE Binned(sensorFS)
    <3> DEFINE A == {hi("hts", v), lo("hts", v)}
               s == InOrder("hts", reg.hts, v)
               t == <<>>
    <3>1. s \in Seq(A)
      BY <1>1, <2>0, InOrderRange
    <3>2. t \in Seq(A) /\ Free(t)
      BY DEF Free, Range
    <3>3. todo' = s
      BY <2>1, <2>3
    <3> HIDE DEF s, A, t
    <3>4. todo' = s \o t
      BY <3>1, <3>3, ConcatEmptySeq DEF t
    <3>5. Ordered(v)'
      BY <1>1, <2>0, <3>2, <3>4, OrderedNew DEF s
    <3> QED
      BY <2>1, <2>2, <3>5 DEF OrderInv
  <2>4. CASE ~Binned(sensorFS)
    <3>1. (Free(todo))'
      BY <2>1, <2>4 DEF Free, Range
    <3> QED
      BY <2>1, <3>1 DEF OrderInv, Ordered
  <2> QED
    BY <2>3, <2>4
<1>3. CASE ApplyFrame
  <2>0. pc = "frame"
    BY <1>3 DEF ApplyFrame, Step
  <2>2. PICK v \in Nat : v = plan.hts
    BY <2>0 DEF TInv, PlanInv
  <2> DEFINE n == plan.vts
             t == WriteVts(n)
             s == InOrder("hts", reg.hts, v)
  <2>1. pc' = "aec" /\ plan' = plan /\ (todo' = s \o t \/ todo' = <<>>)
    BY <1>3, <2>2 DEF ApplyFrame, Step
  <2>9. PICK r : r = t
    OBVIOUS
  <2>3. PICK S : r \in Seq(S) /\ Free(r)
    <3> HIDE DEF n
    <3>1. t \in Seq({hi("vts", n), lo("vts", n), w("vts", n)})
          /\ Range(t) \subseteq {hi("vts", n), lo("vts", n), w("vts", n)}
      BY VtsRange
    <3>2. hi("vts", n).reg = "vts" /\ lo("vts", n).reg = "vts" /\ w("vts", n).reg = "vts"
      BY DEF hi, lo, w
    <3> HIDE DEF t
    <3> QED
      BY <2>9, <3>1, <3>2 DEF Free
  <2> HIDE DEF n, t
  <2>4. CASE todo' = s \o t
    <3>1. Ordered(v)'
      BY <1>1, <2>2, <2>3, <2>4, <2>9, OrderedNew DEF s
    <3> QED
      BY <2>1, <2>2, <3>1 DEF OrderInv
  <2>5. CASE todo' = <<>>
    <3>1. (Free(todo))'
      BY <2>5 DEF Free, Range
    <3> QED
      BY <2>1, <3>1 DEF OrderInv, Ordered
  <2> QED
    BY <2>1, <2>4, <2>5
<1>4. CASE ApplyScalerClock
  <2>1. PICK p : todo' = PllWrites(p) /\ pc' = "aec"
    BY <1>4 DEF ApplyScalerClock, Step
  <2>2. PICK S : PllWrites(p) \in Seq(S) /\ \A x \in S : Well(x) /\ x.reg \in Pll
    BY PllWell
  <2>3. Range(todo') \subseteq S
    BY <2>1, <2>2, InRange
  <2>4. Free(todo)'
    BY <2>2, <2>3 DEF Free, Pll
  <2> QED
    BY <2>1, <2>4 DEF OrderInv, Ordered
<1>5. CASE ~(ApplyHtsFloor \/ ApplyFrame \/ ApplyScalerClock)
  <2>1. pc' \notin {"retime", "aec"}
    BY <1>5 DEF Parts, ApplyOutputSize, ApplyCropWindow, ApplyCropRest, ApplyTightRows,
       ApplyTunedTiming, ApplyAecLimits, Step
  <2> QED
    BY <2>1 DEF OrderInv
<1> QED
  BY <1>2, <1>3, <1>4, <1>5

\* What a line in order may be: the size's floor, and the one that was planned.
LEMMA OrderWrite ==
  ASSUME TInv, OrderInv, Write, plan.hts \in Nat \/ pc # "aec"
  PROVE  /\ OrderInv'
         /\ pc = "retime" => reg'.hts >= Lower(reg.hts, HtsFloorFor(sensorFS))
         /\ pc = "aec" => reg'.hts >= Lower(reg.hts, plan.hts)
<1>1. UNCHANGED <<sensorFS, pc, plan>>
  BY DEF Write
<1>2. HtsFloorFor(sensorFS) \in Nat
  BY DEF HtsFloorFor, HTS_FLOOR
<1>3. PICK n \in Nat : n = HtsFloorFor(sensorFS)
  BY <1>2
<1>4. ASSUME pc = "retime" PROVE Ordered(n)' /\ reg'.hts >= Lower(reg.hts, n)
  BY <1>3, <1>4, OrderedStep DEF OrderInv
<1>5. ASSUME pc = "aec", NEW v \in Nat, v = plan.hts PROVE Ordered(v)' /\ reg'.hts >= Lower(reg.hts, v)
  BY <1>5, OrderedStep DEF OrderInv
<1> QED
  BY <1>1, <1>3, <1>4, <1>5 DEF OrderInv
----------------------------------------------------------------------------
(* The exposure.                                                           *)

\* A window is of no fewer than no rows, and a frame of it long enough to expose.
LEMMA FloorIsLong ==
  ASSUME TInv, Spans
  PROVE  RowFloor(sensorFS) \in Nat /\ RowFloor(sensorFS) >= 8
<1>1. RowsRead \in Nat
  BY DEF TInv, RegInv, Spans, RowsRead
<1> QED
  BY <1>1 DEF RowFloor

\* A quotient of a number and one no larger, but not a thousand times smaller.
LEMMA QuotientIn ==
  ASSUME NEW n \in Nat, NEW j \in Nat \ {0}, j <= n, n < 1024 * j
  PROVE  n \div j \in 1..1023
<1> DEFINE q == n \div j
           p == q * j
<1>1. q \in Nat /\ p <= n /\ n < p + j
  <2>1. \A a \in Nat, b \in Nat \ {0} :
          a \div b \in Nat /\ (a \div b) * b <= a /\ a < (a \div b) * b + b
    OBVIOUS
  <2> QED
    BY <2>1
<1> HIDE DEF q
<1>2. q = 0 => p = 0
  OBVIOUS
<1>3. p \in Nat /\ (q >= 1024 => p >= 1024 * j)
  <2>1. \A a, b, c \in Nat : a * c \in Nat /\ (a >= b => a * c >= b * c)
    OBVIOUS
  <2> QED
    BY <1>1, <2>1
<1> HIDE DEF p
<1>4. q # 0 /\ ~(q >= 1024)
  BY <1>1, <1>2, <1>3
<1>5. q \in 1..1023
  BY <1>1, <1>4
<1> QED
  BY <1>5 DEF q

\* Whatever clock the PLL makes and whatever the line, a period of the mains has at least one
\* line and no more than its register can count.
LEMMA MainsFits ==
  ASSUME Sclk(reg) \in Nat, 2933 <= Sclk(reg), Sclk(reg) <= 200000,
         reg.hts \in Nat, HTS_LEAST <= reg.hts, reg.hts <= NIGHT_HTS_MAX,
         LineFactor(sensorFS) \in {1, 2}, NEW hz \in {100, 120}
  PROVE  LinesPer(hz) \in 1..1023
<1>1. PICK k \in Nat : k = Sclk(reg) /\ 2933 <= k /\ k <= 200000
  OBVIOUS
<1>2. PICK hts \in Nat : hts = reg.hts /\ hts >= 2048 /\ hts <= 8191
  BY DEF HTS_LEAST, NIGHT_HTS_MAX
<1>3. PICK f \in {1, 2} : f = LineFactor(sensorFS)
  OBVIOUS
<1> DEFINE n == k * 1000
           j == hz * hts * f
<1>4. LinesPer(hz) = n \div j
  BY <1>1, <1>2, <1>3 DEF LinesPer
<1>5. j \in Nat /\ j >= 204800 /\ j <= 1965840
  <2>1. j \in {100 * hts * 1, 100 * hts * 2, 120 * hts * 1, 120 * hts * 2}
    OBVIOUS
  <2> HIDE DEF j
  <2> QED
    BY <1>2, <2>1
<1>6. n \in Nat /\ n >= 2933000 /\ n <= 200000000
  BY <1>1
<1> HIDE DEF n, j
<1>7. n \div j \in 1..1023
  BY <1>5, <1>6, QuotientIn
<1> QED
  BY <1>4, <1>7

\* The clocks the PLL can be planned to make.
LEMMA ClockRange ==
  ASSUME NEW r, r.mul \in 66..150, r.sysDiv \in 1..15
  PROVE  Sclk(r) \in Nat /\ 2933 <= Sclk(r) /\ Sclk(r) <= 200000
<1>1. ASSUME NEW n \in Nat, 132000 <= n, n <= 300000, NEW s \in Nat, 3 <= s, s <= 45
      PROVE  n \div s \in Nat /\ 2933 <= n \div s /\ n \div s <= 100000
  <2> DEFINE q == n \div s
             p == q * s
  <2>1. q \in Nat /\ p <= n /\ n < p + s
    <3>1. \A a \in Nat, b \in Nat \ {0} :
            a \div b \in Nat /\ (a \div b) * b <= a /\ a < (a \div b) * b + b
      OBVIOUS
    <3> QED
      BY <1>1, <3>1
  <2> HIDE DEF q
  <2>2. p \in Nat /\ q * 3 <= p /\ p <= q * 45
    <3>1. \A a, b, c \in Nat : a * c \in Nat /\ (a >= b => c * a >= c * b)
      OBVIOUS
    <3> QED
      BY <1>1, <2>1, <3>1
  <2> HIDE DEF p
  <2>3. q \in Nat /\ 2933 <= q /\ q <= 100000
    BY <1>1, <2>1, <2>2
  <2> QED
    BY <2>3 DEF q
<1> DEFINE c == (r.mul * 2000) \div (3 * r.sysDiv)
<1>2. c \in Nat /\ 2933 <= c /\ c <= 100000
  <2> DEFINE n == r.mul * 2000
             s == 3 * r.sysDiv
  <2>1. n \in Nat /\ 132000 <= n /\ n <= 300000 /\ s \in Nat /\ 3 <= s /\ s <= 45
    OBVIOUS
  <2> HIDE DEF n, s
  <2>2. n \div s \in Nat /\ 2933 <= n \div s /\ n \div s <= 100000
    BY <1>1, <2>1
  <2> QED
    BY <2>2 DEF n, s
<1>3. Sclk(r) = c * (IF r.route = "B" THEN 2 ELSE 1)
  BY DEF Sclk
<1> HIDE DEF c
<1> QED
  BY <1>2, <1>3

\* The bands that are written fit the exposure.
LEMMA BandsFit ==
  ASSUME NEW hz, MaxExposure \in 1..1964, LinesPer(hz) \in 1..1023
  PROVE  LET m == Lower(63, MaxExposure \div LinesPer(hz))
         IN  m \in 0..63 /\ m * LinesPer(hz) <= MaxExposure
<1> DEFINE x == MaxExposure
           b == LinesPer(hz)
           q == x \div b
<1>0. x \in 1..1964 /\ b \in 1..1023
  OBVIOUS
<1> HIDE DEF x, b
<1>1. q \in Nat /\ q * b <= x
  <2>1. \A n \in Nat, j \in Nat \ {0} : n \div j \in Nat /\ (n \div j) * j <= n
    OBVIOUS
  <2> QED
    BY <1>0, <2>1
<1> HIDE DEF q
<1>2. Lower(63, q) \in 0..63 /\ Lower(63, q) <= q
  BY <1>1 DEF Lower
<1>3. \A i, j, n \in Nat : i * n \in Nat /\ (i <= j => i * n <= j * n)
  OBVIOUS
<1> DEFINE m == Lower(63, q)
<1> HIDE DEF m
<1>4. m \in Nat /\ m <= q /\ b \in Nat
  BY <1>0, <1>2 DEF m
<1>5. m * b \in Nat /\ q * b \in Nat /\ m * b <= q * b
  BY <1>1, <1>3, <1>4
<1>6. Lower(63, q) * b <= x
  BY <1>0, <1>1, <1>5 DEF m
<1> QED
  BY <1>2, <1>6 DEF q, x, b

\* While no write is lost: the frame, the order of the line and the exposure.
ExposeInv == lost = 0 => FrameLong /\ OrderInv /\ ExposureInv

\* A frame length of at least eight lines, in one write or in two bytes, is long enough.
LEMMA FrameNew ==
  ASSUME NEW v \in Nat, v >= 8,
         \A x \in Range(todo') : x.reg = "vts" => x \in {hi("vts", v), lo("vts", v), w("vts", v)},
         \/ reg'.vts = v
         \/ {hi("vts", v), lo("vts", v)} \subseteq Range(todo')
         \/ w("vts", v) \in Range(todo')
  PROVE  FrameLong'
<1>1. BytesBecome("vts", v)'
  BY BytesPromised
<1> QED
  BY <1>1 DEF FrameLong

\* And so is one that nothing to come touches.
LEMMA FrameKept ==
  ASSUME FrameLong, todo = <<>>, reg' = reg, \A x \in Range(todo') : x.reg # "vts"
  PROVE  FrameLong'
<1>1. PICK v \in Nat : v >= 8 /\ BytesBecome("vts", v)
  BY DEF FrameLong
<1>2. BytesBecome("vts", v)'
  BY <1>1, PromiseKept
<1> QED
  BY <1>1, <1>2 DEF FrameLong

\* At the start the frame is the driver's.
LEMMA ExposeInit == Init => ExposeInv
<1> SUFFICES ASSUME Init PROVE ExposeInv
  OBVIOUS
<1>1. PICK fs \in Sizes : reg = DriverRegs(fs)
  BY DEF Init
<1>2. Range(todo) = {} /\ pc = "size"
  BY DEF Init, Range
<1>3. reg.vts = Driver[fs].vts
  BY <1>1 DEF DriverRegs
<1>4. reg.vts \in Nat /\ reg.vts >= 8
  BY <1>3, SizeFacts DEF DriverFloor
<1>5. BytesBecome("vts", reg.vts)
  BY <1>2 DEF BytesBecome
<1> QED
  BY <1>2, <1>4, <1>5 DEF ExposeInv, FrameLong, OrderInv, ExposureInv

\* And so it is when a size has just been set.
LEMMA ExposeSettle ==
  ASSUME TInv, FrameLong, Settle
  PROVE  FrameLong' /\ OrderInv' /\ ExposureInv'
<1>1. todo = <<>> /\ Range(todo') = {} /\ pc' = "size" /\ (reg' = reg \/ reg' = DriverRegs(fsizePtr))
  BY DEF Settle, Range
<1>2. CASE reg' = reg
  BY <1>1, <1>2, FrameKept DEF OrderInv, ExposureInv
<1>3. CASE reg' = DriverRegs(fsizePtr)
  <2>1. fsizePtr \in Sizes
    BY DEF TInv, WebInv
  <2>2. reg'.vts = Driver[fsizePtr].vts
    BY <1>3 DEF DriverRegs
  <2>3. reg'.vts \in Nat /\ reg'.vts >= 8
    BY <2>1, <2>2, SizeFacts DEF DriverFloor
  <2>4. FrameLong'
    BY <1>1, <2>3, FrameNew
  <2> QED
    BY <1>1, <2>4 DEF OrderInv, ExposureInv
<1> QED
  BY <1>1, <1>2, <1>3

\* Every write on the bus.
LEMMA ExposeWrite ==
  ASSUME TInv, VtsInv, PlannedInv, FrameLong, OrderInv, ExposureInv, Write
  PROVE  FrameLong' /\ OrderInv' /\ ExposureInv'
<1>1. pc' = pc
  BY DEF Write
<1>2. FrameLong'
  <2>1. PICK v \in Nat : v >= 8 /\ BytesBecome("vts", v)
    BY DEF FrameLong
  <2>2. BytesBecome("vts", v)'
    BY <2>1, WriteBytes DEF VtsInv, RegNames
  <2> QED
    BY <2>1, <2>2 DEF FrameLong
<1>3. OrderInv'
  BY OrderWrite DEF PlannedInv
<1>4. ASSUME pc = "idle" PROVE ExposureInv'
  <2>1. PICK a : Becomes("aec", a) /\ Exposes(a, reg.vts)
    BY <1>4 DEF ExposureInv
  <2>2. Untouched({"vts"})' /\ reg'.vts = reg.vts
    <3>1. {"vts"} \in SUBSET RegNames
      BY DEF RegNames
    <3> QED
      BY <1>4, <3>1, WriteLeaves DEF ExposureInv
  <2>3. Becomes("aec", a)'
    BY <2>1, WriteBecomes DEF RegNames
  <2>4. Exposes(a, reg'.vts)
    BY <2>1, <2>2
  <2>5. Exposes(a, reg.vts)'
    BY <2>4 DEF Exposes
  <2> QED
    BY <2>2, <2>3, <2>5 DEF ExposureInv
<1> QED
  BY <1>1, <1>2, <1>3, <1>4 DEF ExposureInv

\* The limits written for a clock the PLL can make, a line its register holds and a frame of
\* at least eight lines are an exposure's.
LEMMA LimitsExpose ==
  ASSUME RegInv, sensorFS \in Sizes, reg.hts <= NIGHT_HTS_MAX, reg.vts \in Nat, reg.vts >= 8,
         reg.mul \in 66..150, reg.sysDiv \in 1..15
  PROVE  LET a == [maxExp |-> MaxExposure, b50 |-> LinesPer(100), b60 |-> LinesPer(120),
                   n50 |-> Lower(63, MaxExposure \div LinesPer(100)),
                   n60 |-> Lower(63, MaxExposure \div LinesPer(120))]
         IN  /\ Exposes(a, reg.vts)
             /\ {LinesPer(100), LinesPer(120)} \subseteq 1..1023 /\ MaxExposure >= 1
<1>1. Sclk(reg) \in Nat /\ 2933 <= Sclk(reg) /\ Sclk(reg) <= 200000
  BY ClockRange
<1>2. /\ reg.hts \in Nat /\ HTS_LEAST <= reg.hts /\ reg.hts <= NIGHT_HTS_MAX
      /\ LineFactor(sensorFS) \in {1, 2}
  <2>1. reg.hts \in Nat /\ reg.hts >= HTS_LEAST
    BY DEF RegInv
  <2> QED
    BY <2>1 DEF LineFactor, HTS_LEAST
<1>3. LinesPer(100) \in 1..1023 /\ LinesPer(120) \in 1..1023
  BY <1>1, <1>2, MainsFits
<1>4. MaxExposure \in 1..Lower(reg.vts - 4, 1964) /\ MaxExposure \in 1..1964
  BY DEF MaxExposure, Lower
<1> DEFINE x == MaxExposure
           b == LinesPer(100)
           c == LinesPer(120)
           m == Lower(63, x \div b)
           n == Lower(63, x \div c)
           top == Lower(reg.vts - 4, 1964)
<1>5. /\ x \in 1..top /\ x >= 1 /\ x \in 1..1964
      /\ b \in 1..1023 /\ c \in 1..1023 /\ {b, c} \subseteq 1..1023
  BY <1>3, <1>4
<1>6. m \in 0..63 /\ m * b <= x /\ n \in 0..63 /\ n * c <= x
  <2>1. m \in 0..63 /\ m * b <= x
    BY <1>3, <1>4, BandsFit
  <2>2. n \in 0..63 /\ n * c <= x
    BY <1>3, <1>4, BandsFit
  <2> QED
    BY <2>1, <2>2
<1> HIDE DEF x, b, c, m, n, top
<1>7. LET a == [maxExp |-> x, b50 |-> b, b60 |-> c, n50 |-> m, n60 |-> n]
      IN  /\ a.maxExp \in 1..top
          /\ {a.b50, a.b60} \subseteq 1..1023 /\ {a.n50, a.n60} \subseteq 0..63
          /\ a.n50 * a.b50 <= a.maxExp /\ a.n60 * a.b60 <= a.maxExp
  BY <1>5, <1>6
<1>8. x >= 1 /\ {b, c} \subseteq 1..1023
  BY <1>5
<1> QED
  BY <1>7, <1>8 DEF Exposes, x, b, c, m, n, top

\* The end of the tuning: nothing of the frame is to be written, and the limits are.
LEMMA ExposeLimits ==
  ASSUME TInv, VtsInv, PlannedInv, LimitInv, FrameLong, ApplyAecLimits
  PROVE  ExposureInv'
<1> DEFINE a == [maxExp |-> MaxExposure, b50 |-> LinesPer(100), b60 |-> LinesPer(120),
                 n50 |-> Lower(63, MaxExposure \div LinesPer(100)),
                 n60 |-> Lower(63, MaxExposure \div LinesPer(120))]
           x == w("damped", nightFrameMs > 0)
           y == w("aec", a)
<1>1. todo = <<>> /\ pc = "aec" /\ reg' = reg
  BY DEF ApplyAecLimits, Step
<1>2. reg.vts \in Nat /\ reg.vts >= 8
  BY <1>1, Done DEF FrameLong, VtsInv
<1>3. reg.mul \in 66..150 /\ reg.sysDiv \in 1..15
  <2>1. reg["mul"] = plan["mul"] /\ reg["sysDiv"] = plan["sysDiv"]
    BY <1>1, Done DEF PlannedInv, Pll
  <2> QED
    BY <1>1, <2>1 DEF LimitInv, ClockFits
<1>4. /\ Exposes(a, reg.vts)
      /\ {LinesPer(100), LinesPer(120)} \subseteq 1..1023 /\ MaxExposure >= 1
  BY <1>2, <1>3, LimitsExpose DEF TInv, WebInv, LimitInv, LineFits
<1>5. todo' = <<x>> \o <<y>>
  BY <1>4 DEF ApplyAecLimits, Step
<1>6. x.reg = "damped" /\ y.reg = "aec" /\ y.val = a
  BY DEF w
<1>10. PICK z : z = a
  OBVIOUS
<1> HIDE DEF a, x, y
<1>7. Range(todo') = {x, y}
  <2>1. \A i, j : <<i>> \in Seq({i, j}) /\ <<j>> \in Seq({i, j}) /\ Range(<<i>>) = {i}
    BY DEF Range
  <2> DEFINE A == <<x>>
             B == <<y>>
             S == {x, y}
  <2>2. A \in Seq(S) /\ B \in Seq(S) /\ Range(A) = {x} /\ Range(B) = {y}
    BY <2>1
  <2>3. Range(A \o B) = {x} \cup {y}
    <3> HIDE DEF A, B, S
    <3> QED
      BY <2>2, RangeJoin
  <2> QED
    BY <1>5, <2>3
<1>8. Becomes("aec", z)' /\ Untouched({"vts"})'
  BY <1>6, <1>7, <1>10 DEF Becomes, Untouched
<1>9. Exposes(z, reg.vts)'
  <2>1. Exposes(z, reg'.vts)
    BY <1>1, <1>4, <1>10
  <2> QED
    BY <2>1 DEF Exposes
<1> QED
  BY <1>8, <1>9 DEF ExposureInv

\* The frame after each part: the two that write it write one that covers the window.
LEMMA FramePart ==
  ASSUME TInv, LimitInv, FrameLong, Parts, PlannedInv, PlannedInv'
  PROVE  FrameLong'
<1>1. todo = <<>> /\ reg' = reg /\ \A x \in Range(todo') : Allowed(x)
  BY StepWrites
<1>2. RowFloor(sensorFS) \in Nat /\ RowFloor(sensorFS) >= 8
  BY FloorIsLong DEF LimitInv
<1>3. CASE pc \notin {"cropRest", "frame"}
  <2>1. \A n, v : w(n, v).reg = n /\ hi(n, v).reg = n /\ lo(n, v).reg = n
    BY DEF w, hi, lo
  <2>2. \A x \in Range(todo') : x.reg # "vts"
    BY <1>1, <1>3, <2>1 DEF Allowed
  <2> QED
    BY <1>1, <2>2, FrameKept
<1>4. CASE pc = "cropRest"
  <2>1. ApplyCropRest
    BY <1>4 DEF Parts, ApplyOutputSize, ApplyCropWindow, ApplyTightRows, ApplyHtsFloor,
       ApplyTunedTiming, ApplyFrame, ApplyScalerClock, ApplyAecLimits, Step
  <2>2. PICK f : f = RowFloor(sensorFS)
    OBVIOUS
  <2>3. /\ \A x \in Range(todo') : x.reg = "vts" => x \in {hi("vts", f), lo("vts", f), w("vts", f)}
        /\ \/ Range(todo') = {}
           \/ {hi("vts", f), lo("vts", f)} \subseteq Range(todo') \/ w("vts", f) \in Range(todo')
    BY <2>1, <2>2, CropRestWrites
  <2>4. CASE Range(todo') = {}
    BY <1>1, <2>4, FrameKept
  <2>5. CASE Range(todo') # {}
    BY <1>2, <2>2, <2>3, <2>5, FrameNew
  <2> QED
    BY <2>4, <2>5
<1>5. CASE pc = "frame"
  <2>1. ApplyFrame
    BY <1>5 DEF Parts, ApplyOutputSize, ApplyCropWindow, ApplyCropRest, ApplyTightRows, ApplyHtsFloor,
       ApplyTunedTiming, ApplyScalerClock, ApplyAecLimits, Step
  <2>2. plan.vts \in Nat /\ plan.vts >= 8
    BY <1>2, <1>5 DEF PlannedInv, TInv, PlanInv
  <2>3. pc' = "aec" /\ plan' = plan
    BY <2>1 DEF ApplyFrame, Step
  <2>4. BytesBecome("vts", plan.vts)'
    BY <2>3 DEF PlannedInv
  <2> QED
    BY <2>2, <2>3, <2>4 DEF FrameLong
<1> QED
  BY <1>3, <1>4, <1>5

\* Every part of the tuning: only the last leaves limits.
LEMMA ExposePart ==
  ASSUME TInv, LimitInv, VtsInv, PlannedInv, PlannedInv', FrameLong, Parts
  PROVE  FrameLong' /\ OrderInv' /\ ExposureInv'
<1>1. ~ApplyAecLimits => pc' # "idle"
  BY DEF Parts, ApplyOutputSize, ApplyCropWindow, ApplyCropRest, ApplyTightRows, ApplyHtsFloor,
     ApplyTunedTiming, ApplyFrame, ApplyScalerClock, Step
<1>2. ExposureInv'
  BY <1>1, ExposeLimits DEF ExposureInv
<1> QED
  BY <1>2, FramePart, OrderPart

\* Every step.
LEMMA ExposeNext == TInv /\ PllInv /\ TunedInv /\ LimitInv /\ ExposeInv /\ [Next]_vars => ExposeInv'
<1> SUFFICES ASSUME TInv, PllInv, TunedInv, LimitInv, ExposeInv, [Next]_vars, lost' = 0
             PROVE  FrameLong' /\ OrderInv' /\ ExposureInv'
  BY DEF ExposeInv
<1>1. TunedInv'
  BY TunedNext
<1>2. ~Lose /\ lost = 0
  <2>1. ~Lose
    BY DEF Lose, PllInv
  <2>2. Tune => UNCHANGED lost
    BY DEF Tune, Settle, ApplyOutputSize, ApplyCropWindow, ApplyCropRest, ApplyTightRows, ApplyHtsFloor,
       ApplyTunedTiming, ApplyFrame, ApplyScalerClock, ApplyAecLimits, Step
  <2> QED
    BY <2>1, <2>2 DEF Next, Web, Write, vars
<1>3. /\ FrameLong /\ OrderInv /\ ExposureInv
      /\ VtsInv /\ PlannedInv /\ PlannedInv'
  BY <1>1, <1>2 DEF ExposeInv, TunedInv
<1>4. CASE Web \/ UNCHANGED vars
  <2>1. UNCHANGED <<reg, sensorFS, todo, pc, plan>>
    BY <1>4 DEF Web, vars
  <2>2. FrameLong'
    BY <1>3, <2>1 DEF FrameLong, BytesBecome
  <2>3. OrderInv'
    BY <1>3, <2>1 DEF OrderInv, Ordered, Free
  <2>4. ExposureInv'
    BY <1>3, <2>1 DEF ExposureInv, Untouched, Becomes, Exposes
  <2> QED
    BY <2>2, <2>3, <2>4
<1>5. Tune => Settle \/ Parts
  BY DEF Tune, Parts
<1> QED
  BY <1>2, <1>3, <1>4, <1>5, ExposeWrite, ExposeSettle, ExposePart DEF Next

\* Whatever is lost the line fits its register, the window does not end before it starts and the
\* plan is a clock the PLL can make; while no write is lost, the two bytes of a line go out in
\* the order that keeps it long, and the limits left are those of the frame there is.
THEOREM LimitInvariant == Spec => [](TInv /\ PllInv /\ TunedInv /\ LimitInv /\ ExposeInv)
  BY TInvInit, TInvNext, PllInit, PllNext, TunedInit, TunedNext, LimitInit, LimitNext,
     ExposeInit, ExposeNext, PTL DEF Spec

\* As long as no write is lost no frame is read of fewer lines than its window has rows,
\* but one that is read between the two bytes of its length: at most 255 lines short.
THEOREM WindowCovered == Spec => []VtsCoversRows
<1>1. TInv /\ CoverInv => VtsCoversRows
  <2> SUFFICES ASSUME TInv, CoverInv, lost = 0, Halfway
               PROVE  reg.vts + 255 >= RowFloor(sensorFS)
    BY DEF VtsCoversRows, CoverInv, Covers
  <2>1. PICK v \in Nat, b \in 0..255 : v = reg.vts /\ b = Head(todo).val
    BY DEF CoverInv, Covers
  <2>2. (v \div 256) * 256 + b >= RowFloor(sensorFS)
    BY <2>1 DEF CoverInv, Covers, Hi
  <2>3. (v \div 256) * 256 <= v /\ v \div 256 \in Nat
    OBVIOUS
  <2>4. RowFloor(sensorFS) \in Int
    <3>1. reg.ySt \in Nat /\ reg.yEnd \in Int
      BY DEF TInv, RegInv
    <3> QED
      BY <3>1 DEF RowFloor, RowsRead
  <2> QED
    BY <2>1, <2>2, <2>3, <2>4
<1> QED
  BY <1>1, CoverInit, CoverNext, LimitInvariant, PTL DEF Spec

\* Once tuned, the exposure the AEC may choose fits the frame, at least one line of it, and the
\* bands of both mains fit the exposure and their registers: applyAecLimits() always writes
\* them, for any table of sizes, rates and night sessions.
THEOREM ExposureFits == Spec => []AecFits
<1>1. TInv /\ ExposeInv => AecFits
  <2> SUFFICES ASSUME TInv, ExposeInv, Settled, lost = 0
               PROVE  Exposes(reg.aec, reg.vts)
    BY DEF AecFits, Exposes
  <2>1. PICK a : Becomes("aec", a) /\ Exposes(a, reg.vts)
    BY DEF ExposeInv, ExposureInv, Settled
  <2>2. reg["aec"] = a
    BY <2>1, Done DEF Settled
  <2> QED
    BY <2>1, <2>2
<1> QED
  BY <1>1, LimitInvariant, PTL

\* No write of a line, whichever of its two bytes comes first, leaves it shorter than both the
\* line there was and the one wanted, and none takes it past the thirteen bits of its register
\* (applyTunedTiming() and applySensorTuning() write the high byte first when the line grows).
THEOREM LineStaysLong == Spec => HtsNoShorter
<1> DEFINE IInv == TInv /\ PllInv /\ TunedInv /\ LimitInv /\ ExposeInv
           A == /\ reg'.hts <= NIGHT_HTS_MAX
                /\ todo # <<>> /\ Head(todo).reg = "hts" /\ pc = "retime" /\ lost' = 0 =>
                      reg'.hts >= Lower(reg.hts, HtsFloorFor(sensorFS))
                /\ todo # <<>> /\ Head(todo).reg = "hts" /\ pc = "aec" /\ lost' = 0 =>
                      reg'.hts >= Lower(reg.hts, plan.hts)
<1>1. IInv /\ IInv' /\ [Next]_vars => [A]_vars
  <2> SUFFICES ASSUME IInv, IInv', [Next]_vars PROVE A
    OBVIOUS
  <2>1. reg'.hts <= NIGHT_HTS_MAX
    BY DEF LimitInv, LineFits
  <2>2. ASSUME todo # <<>>, lost' = 0, pc \in {"retime", "aec"}
        PROVE  /\ pc = "retime" => reg'.hts >= Lower(reg.hts, HtsFloorFor(sensorFS))
               /\ pc = "aec" => reg'.hts >= Lower(reg.hts, plan.hts)
    <3>1. CASE Write
      <4>1. lost = 0
        BY <2>2, <3>1 DEF Write
      <4>2. OrderInv /\ (pc = "aec" => plan.hts \in Nat)
        BY <4>1 DEF ExposeInv, TunedInv, PlannedInv
      <4> QED
        BY <3>1, <4>2, OrderWrite
    <3>2. CASE Web \/ UNCHANGED vars
      <4>1. reg' = reg /\ lost = 0
        BY <2>2, <3>2 DEF Web, vars
      <4>2. reg.hts \in Nat /\ HtsFloorFor(sensorFS) \in Nat
        BY DEF TInv, RegInv, HtsFloorFor, HTS_FLOOR
      <4>3. pc = "aec" => plan.hts \in Nat
        BY <4>1 DEF ExposeInv, TunedInv, PlannedInv
      <4> QED
        BY <4>1, <4>2, <4>3 DEF Lower
    <3>3. ~Lose
      BY <2>2 DEF Lose, PllInv
    <3>4. ~Tune
      BY <2>2 DEF Tune, Settle, ApplyOutputSize, ApplyCropWindow, ApplyCropRest, ApplyTightRows,
         ApplyHtsFloor, ApplyTunedTiming, ApplyFrame, ApplyScalerClock, ApplyAecLimits, Step
    <3> QED
      BY <2>2, <3>1, <3>2, <3>3, <3>4 DEF Next
  <2> HIDE DEF IInv
  <2> QED
    BY <2>1, <2>2
<1>2. Spec => []IInv
  BY LimitInvariant
<1>3. [][A]_vars => HtsNoShorter
  BY PTL DEF HtsNoShorter
<1> HIDE DEF IInv, A
<1>4. Spec => [][A]_vars
  BY <1>1, <1>2, PTL DEF Spec
<1> QED
  BY <1>3, <1>4
=============================================================================
