-------------------------- MODULE MCObservation --------------------------
(* Two clock readings per /proc tick, so that a scanned start time is off  *)
(* by one; a ring of one event, so that events are dropped.  ObsLineage has*)
(* four processes over three pids, so that a pid is recycled under another *)
(* parent, more nodes than the cap allows and, while there are two         *)
(* processes, a second thread in each; ScannedTrust has trusted images.    *)
EXTENDS Observation
=============================================================================
