------------------------------- MODULE MCData -------------------------------
(* The ways of the data, from the inputs to what is read back from disk    *)
(* and what the panels show.  The components run apart: in every behaviour *)
(* one of them moves, the others stay in their initial state.              *)
EXTENDS Sources, Sinks, Detection, Framer, FileTail, Pcap, Recording, Wal,
        Display

VARIABLE part   \* the component that moves in this behaviour

data_vars == <<part, src_vars, sink_vars, det_vars, fr_vars, tail_vars,
  cap_vars, rec_vars, vars, display_vars>>

DataInit ==
  /\ part \in {"sources", "sinks", "detection", "framer", "tail", "pcap",
               "recording", "wal", "display"}
  /\ SrcInit /\ SinkInit /\ DetInit /\ FrInit /\ TailInit /\ CapInit
  /\ RecInit /\ Init /\ DisplayInit
  /\ part # "wal" => disk = CHOOSE d \in Disks : TRUE
  /\ part # "sinks" => sink = "udp"
  /\ part # "display" => \A l \in Limits : shown.limit <= l

Rests(p, v) == IF part = p THEN TRUE ELSE UNCHANGED v

DataNext ==
  /\ UNCHANGED part
  /\ Rests("sources", src_vars) /\ Rests("sinks", sink_vars)
  /\ Rests("detection", det_vars) /\ Rests("framer", fr_vars)
  /\ Rests("tail", tail_vars) /\ Rests("pcap", cap_vars)
  /\ Rests("recording", rec_vars) /\ Rests("wal", vars)
  /\ Rests("display", display_vars)
  /\ \/ part = "sources" /\ SrcNext
     \/ part = "sinks" /\ SinkNext
     \/ part = "detection" /\ DetNext
     \/ part = "framer" /\ FrNext
     \/ part = "tail" /\ TailNext
     \/ part = "pcap" /\ CapNext
     \/ part = "recording" /\ RecNext
     \/ part = "wal" /\ Next
     \/ part = "display" /\ DisplayNext

DataSpec == DataInit /\ [][DataNext]_data_vars
=============================================================================
