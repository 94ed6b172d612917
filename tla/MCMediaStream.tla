--------------------------- MODULE MCMediaStream ----------------------------
EXTENDS MediaStream

HLS1 == [hls |-> TRUE, sizes |-> <<1, 1, 1>>, maxSeeks |-> 1, maxFailures |-> 1]
HLS2 == [hls |-> TRUE, sizes |-> <<2, 1>>, maxSeeks |-> 2, maxFailures |-> 0]
PB1 == [hls |-> FALSE, sizes |-> <<3>>, maxSeeks |-> 2, maxFailures |-> 0]
PB2 == [hls |-> FALSE, sizes |-> <<3>>, maxSeeks |-> 1, maxFailures |-> 1]
MCStreams == {HLS1, HLS2, PB1, PB2}
=============================================================================
