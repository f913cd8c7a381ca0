------------------------------ MODULE MCVerify ------------------------------
(* Verify on small instances.  Symmetry would be unsound: workers are numbers. *)
EXTENDS Verify

Cfg(program, pattern, nworks, ntimes, rounds, cells) ==
    [program |-> program, pattern |-> pattern, nworks |-> nworks, ntimes |-> ntimes,
     rounds |-> rounds, cells |-> cells, window |-> 1,
     broken |-> FALSE, registry |-> FALSE, latency |-> FALSE]

\* The gate: three workers over the barriers, two with a ring, the negative
\* control that has only the stamps to be caught by, and the boundary check of
\* a correct allocator and of the broken one.
\* The benchmark: two workers over the barriers, and two with sampling.
CheckedConfigs ==
    { [Cfg("check", "cross", 3, 1, 2, 6) EXCEPT !.registry = TRUE],
      [Cfg("check", "interleaved", 2, 2, 1, 6) EXCEPT !.registry = TRUE],
      [Cfg("check", "cross", 2, 2, 2, 2) EXCEPT !.broken = TRUE],
      Cfg("boundary", "bulk", 1, 4, 1, 5),
      [Cfg("boundary", "bulk", 1, 4, 1, 3) EXCEPT !.broken = TRUE],
      Cfg("bench", "cross", 2, 2, 2, 6),
      [Cfg("bench", "bulk", 2, 2, 1, 6) EXCEPT !.latency = TRUE],
      [Cfg("bench", "interleaved", 2, 2, 1, 6) EXCEPT !.latency = TRUE] }
=============================================================================
