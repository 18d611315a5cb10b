--------------------------- MODULE MCPhotoWatcher ---------------------------
(* Model values for PhotoWatcher: two photos of one model.                    *)
EXTENDS PhotoWatcher

CONSTANTS jpg, png, m, other

MCSorted == <<jpg, png>>
MCModelOf == [f \in Photos |-> m]
=============================================================================
