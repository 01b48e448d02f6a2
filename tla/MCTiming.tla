------------------------------ MODULE MCTiming ------------------------------
(* The sizes of frameData[] that differ in how they are tuned, as            *)
(* set_framesize() of the driver leaves them.                                *)
EXTENDS SensorTiming, TLC

Tall(ss, outW, outH, baseH, pre, hts, vts, max, byClock) ==
    [ySt |-> 0, rows |-> 1952, cols |-> 2624, ss |-> ss, xOff |-> 32 \div ss, yOff |-> 16 \div ss,
     outW |-> outW, outH |-> outH, baseH |-> baseH, pre |-> pre,
     hts |-> hts, vts |-> vts, maxFPS |-> max, byClock |-> byClock]
Wide(ss, outW, outH, pre, hts, vts, max, byClock) ==
    [Tall(ss, outW, outH, outH, pre, hts, vts, max, byClock) EXCEPT !.ySt = 240, !.rows = 1472]

MCDriver ==
    "VGANARROW" :> Tall(2, 640, 480, 480, 640, 2060, 984, 77, FALSE) @@
    "1280X960"  :> Tall(2, 1280, 960, 768, 0, 2644, 984, 42, FALSE) @@
    "HDV2"      :> Wide(2, 1280, 720, 0, 2644, 744, 56, FALSE) @@
    "FHDNARROW" :> Wide(1, 1920, 1080, 0, 2844, 1488, 16, FALSE) @@
    "FHDMID"    :> Wide(1, 1920, 1080, 2304, 2844, 1488, 12, TRUE) @@
    "QSXGA"     :> Tall(1, 2560, 1920, 1920, 0, 2844, 1968, 6, FALSE)
=============================================================================
