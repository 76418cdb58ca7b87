------------------------ MODULE MCRUDPChannelStream ------------------------
(* One end of a stream whose peer may claim anything.                      *)
EXTENDS RUDPChannelStream

Vectors == {<< >>, << [state |-> "Received", run |-> 1] >>}

AckSet ==
  [next : {1}, gsnr : 0..2, gsnfr : 0..2, vector : Vectors,
   vp : BOOLEAN, pg : {TRUE}, xp : BOOLEAN]

(* Two packets: one that is expected and one beyond a gap.                 *)
MessageSet ==
  [seq : 1..2, ps : {TRUE}, ar : {TRUE}, gsnr : {1}, gsnfr : 0..1,
   vector : {<< >>}, vp : {FALSE}, pg : {TRUE}, xp : BOOLEAN, data : {"d"}]

(* Nothing reads the wire here: the network hands in what it likes. *)
WithoutWire == <<ctl, tx, rx, io, burst, posted, due, app>>
=============================================================================
