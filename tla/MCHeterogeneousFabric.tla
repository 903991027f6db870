------------------------ MODULE MCHeterogeneousFabric ------------------------
(***************************************************************************)
(* AT-6 for TLC: the program's five cases, all of which keep the fabric    *)
(* busy from the first record to the last, and two in which it runs dry:   *)
(* the baseline profile with longer gaps, with and without a cap.          *)
(***************************************************************************)
EXTENDS HeterogeneousFabric

light_case(name, policy, token_gap) ==
  Case(name, policy, <<12, 16, 12, 12>>, <<330, 295, 350, 335>>, <<4, 8, 1, 6>>,
       <<20, 60, 0, 24>>, <<64, 256, 384, 128>>, <<86, 108, 122, 94>>, 34, token_gap)

light_cases == {light_case("light_rr", "round_robin", 0),
                light_case("light_cap_npu", "latency_priority_with_npu_cap", 420)}

all_cases == default_cases \cup light_cases
=============================================================================
