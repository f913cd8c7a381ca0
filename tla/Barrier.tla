------------------------------ MODULE Barrier -------------------------------
(***************************************************************************)
(* The arithmetic of WaitAtBarrier (main.cpp:206-217, and the lambda of    *)
(* the same name in verify.cpp:216-223): one counter that is never reset,  *)
(* whose quotient by the number of threads is the generation.              *)
(***************************************************************************)
EXTENDS Integers

\* The generation of a counter, which a thread reads before it arrives.
Generation(state, n) == state \div n

\* Whether the thread whose fetch_add found `state` was the last to arrive.
LastThrough(state, gen, n) == state + 1 = (gen + 1) * n

\* Whether a waiting thread may go on: the generation has advanced.
Advanced_Next(state, gen, n) == Generation(state + 1, n) # gen
Advanced_Skips(state, gen, n) == Generation(state, n) > gen + 1
Advanced(state, gen, n) == Generation(state, n) # gen
=============================================================================
