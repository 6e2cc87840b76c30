--------------------------- MODULE MCAlertManager ---------------------------
(* Small instances of AlertManager for TLC.                                *)
EXTENDS AlertManager

Crack(d, w) == [max_depth |-> d, max_width |-> w]
Laser(detected, cs) == [kind |-> "laser", crack_detected |-> detected, cracks |-> cs]
Vibration(rms, peak) == [kind |-> "vibration", rms_value |-> rms, peak_value |-> peak]
Prediction(level) == [kind |-> "prediction", risk_level |-> level]

\* Thresholds 2 and 2: a crack on the threshold, over one, over both.
MCReport ==
    {Laser(TRUE, <<Crack(2, 2), Crack(3, 3)>>),
     Laser(TRUE, <<Crack(3, 1), Crack(1, 3)>>),
     Laser(FALSE, <<>>),
     Vibration(10, 50), Vibration(11, 0), Vibration(0, 51),
     Prediction("MEDIUM"), Prediction("HIGH"), Prediction("CRITICAL")}

=============================================================================
