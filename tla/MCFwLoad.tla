---- MODULE MCFwLoad ----
\* Images for TLC: one too small, ones that fill one packet and a half and two packets,
\* and one too large.
EXTENDS FwLoad

MCImages == {<<0, 1>>, <<1, 0, 0>>, <<0, 0, 1>>, <<0, 1, 0, 1>>, <<0, 0, 0, 0, 0>>}

====
