---------------------------- MODULE MCWifiRequest ----------------------------
(* Constants of WifiRequest for TLC.                                       *)
EXTENDS WifiRequest

MCQueries == {Query("channels", 1), Query("channels", 2), Query("matrix", 2),
              Query("gscan", 1), Query("rtt", 1), Query("order", 1)}
=============================================================================
