----------------------------- MODULE MCStreamer -----------------------------
(* Streamer with some command lines.                                       *)
EXTENDS Streamer

Line(ins, outs, sizes, pics) ==
  [ins |-> ins, outs |-> outs, sizes |-> sizes, pics |-> pics, spurious |-> FALSE]
WakesAlone(line) == [line EXCEPT !.spurious = TRUE]
To(kind, input) == [kind |-> kind, input |-> input]

\* Each plugin; several outputs for one input, one output for each of two
\* inputs, libraries that are loaded twice, outputs that read an input before
\* their own number, or one that is not there, pictures of sizes that the
\* buffers do and do not allow for, and waits that return unasked.
CommandLines == {
  Line(<<"file">>, <<To("udp", 1)>>, {1}, 2),
  Line(<<"ptp2">>, <<To("zmqserver", 1)>>, {1, 2}, 2),
  Line(<<"opencv">>, <<To("zmqserver", 1)>>, {1, 4}, 2),
  Line(<<"testpicture">>, <<To("viewer", 1), To("rtsp", 1)>>, {1}, 2),
  Line(<<"testpicture", "file">>, <<To("autofocus", 1), To("viewer", 2)>>, {1}, 1),
  Line(<<"file", "testpicture">>, <<To("rtsp", 1)>>, {1}, 2),
  Line(<<"testpicture", "testpicture">>, <<To("udp", 1)>>, {1}, 1),
  Line(<<"opencv", "opencv">>, <<To("udp", 2), To("viewer", 1)>>, {1}, 1),
  Line(<<"opencv">>, <<To("udp", 1), To("udp", 1)>>, {1}, 1),
  Line(<<"file", "file">>, <<To("udp", 1), To("autofocus", 3)>>, {4}, 2),
  Line(<<"opencv">>, <<To("viewer", 2)>>, {1}, 2),
  WakesAlone(Line(<<"file">>, <<To("udp", 1)>>, {1}, 2)),
  WakesAlone(Line(<<"ptp2">>, <<To("viewer", 1)>>, {1}, 1)),
  WakesAlone(Line(<<"opencv">>, <<To("zmqserver", 1)>>, {1, 2}, 2)),
  WakesAlone(Line(<<"testpicture">>, <<To("viewer", 1)>>, {1}, 2)) }
=============================================================================
