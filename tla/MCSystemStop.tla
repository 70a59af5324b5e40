--------------------------- MODULE MCSystemStop ---------------------------
(* The configurations of SystemStop that TLC looks at: a sequential bus with *)
(* two motors beside a stream, a stream with two motors, and two streams,    *)
(* one of them broadcast.                                                    *)
EXTENDS SystemStop

MCWirings ==
    { {<<"can0", 1>>, <<"can0", 2>>, <<"can1", 1>>},
      {<<"can1", 1>>, <<"can1", 2>>},
      {<<"can1", 1>>, <<"can2", 1>>} }
===========================================================================
