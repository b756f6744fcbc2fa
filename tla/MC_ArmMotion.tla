---------------------------- MODULE MC_ArmMotion ----------------------------
(* The table of the firmware, and one whose slot 1 was measured at the end   *)
(* of the range of J4, where only the pose in the slot itself is out of it.    *)
EXTENDS ArmMotion

Measured ==
  << <<2283, 1808, 2539, 1695, 2011>>, <<2062, 1770, 2572, 1698, 2012>>,
     <<1807, 1893, 2450, 1709, 2014>>, <<2264, 1803, 2283, 1966, 2060>>,
     <<2052, 1747, 2340, 1980, 2015>>, <<1840, 1830, 2245, 1968, 2014>>,
     <<2249, 1902, 1875, 2288, 1977>>, <<2044, 1848, 1985, 2202, 1968>>,
     <<1821, 1911, 1895, 2235, 1997>> >>
MCCalibrations == {Measured, [Measured EXCEPT ![1] = <<2283, 2500, 2000, 930, 2011>>]}
=============================================================================
