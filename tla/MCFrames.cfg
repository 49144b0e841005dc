\* Streams of up to four characters and line ends, cut anywhere.
SPECIFICATION FramesSpec
INVARIANT CutsAreHidden
CHECK_DEADLOCK FALSE
