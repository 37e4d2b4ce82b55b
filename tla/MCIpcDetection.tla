--------------------------- MODULE MCIpcDetection ---------------------------
(* Instances of IpcDetection for TLC: three labels (nothing and two        *)
(* detections), so that two different detections can meet in one payload.  *)
EXTENDS IpcDetection

MCLabelIds == 0 .. 2
=============================================================================
