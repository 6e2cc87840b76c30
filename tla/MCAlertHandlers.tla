--------------------------- MODULE MCAlertHandlers ---------------------------
(* A small instance of AlertHandlers for TLC.                              *)
EXTENDS AlertHandlers

Plain == [kind |-> "dem", porcelain |-> 1, utf8 |-> TRUE, detected |-> FALSE,
          cracks |-> <<>>, alarm |-> FALSE]

Deep == {"CRACK_DEPTH_EXCEEDED"}
Wide == {"CRACK_WIDTH_EXCEEDED"}

\* A scan with two cracks of one porcelain, whose codes collide within a second;
\* a scan of two cracks that says it found none; a packet that is not UTF-8; an
\* alarm of each other kind.
SomeMessages == {
    [Plain EXCEPT !.kind = "laser", !.detected = TRUE, !.cracks = <<Deep \union Wide, Wide>>],
    [Plain EXCEPT !.kind = "laser", !.cracks = <<Deep, {}>>],
    [Plain EXCEPT !.kind = "laser", !.detected = TRUE, !.utf8 = FALSE, !.cracks = <<Deep>>],
    [Plain EXCEPT !.kind = "vibration", !.alarm = TRUE],
    [Plain EXCEPT !.kind = "prediction", !.alarm = TRUE],
    Plain}
=============================================================================
