------------------------- MODULE MCBranchPredictors -------------------------
(* A loop with a forward branch, a backward branch and a jump back:        *)
(*   64: ...  72: branch 128   100: branch 64   132: jump 64               *)
EXTENDS BranchPredictors

MCProgram == {[pc |-> 72,  op |-> "LBRANCH", target |-> 128, ldpc |-> 48, dataSign |-> 1],
              [pc |-> 100, op |-> "LBRANCH", target |-> 64,  ldpc |-> 52, dataSign |-> 0],
              [pc |-> 132, op |-> "RJUMP",   target |-> 64,  ldpc |-> 0,  dataSign |-> 0]}

\* One set of two ways per bank: less than the control instructions.
MCGeometry == [assoc |-> 2, log2Sets |-> 0, log2AddrLs |-> 0, xorIndex |-> FALSE,
               confMax |-> 2, confHigh |-> 0, hawkSize |-> 4]

MCBtb == [size |-> 2, fetch_predict |-> TRUE, tag_offset |-> FALSE, tag_hybrid |-> FALSE,
          tag_bits |-> 8, log2_nsub |-> 0, split_il1 |-> FALSE, history_size |-> 0, max_bb |-> 1]

\* Every kind with the plain buffer, the oracle with all of them.
MCBtbConfs(k) ==
  CASE k = "imli_inst" -> {[MCBtb EXCEPT !.fetch_predict = FALSE]}
    [] k = "oracle" -> {MCBtb, [MCBtb EXCEPT !.size = 0],
                           [MCBtb EXCEPT !.tag_offset = TRUE, !.log2_nsub = 1],
                           [MCBtb EXCEPT !.tag_hybrid = TRUE, !.max_bb = 2],
                           [MCBtb EXCEPT !.split_il1 = TRUE],
                           [MCBtb EXCEPT !.history_size = 4]}
    [] OTHER -> {MCBtb}

MCSimple == [addrShift |-> 0, log2Size |-> 8, bits |-> 2, historySize |-> 4, tagBits |-> 4]

MCStreams == {<<0>>, <<1, 2, 3>>}

MCMacros == [NHIST |-> 3, LOGG |-> 4, LOGASSOC |-> 1, LOGB |-> 8, LOGBIAS |-> 8,
             TBITS |-> 8, MAXBR |-> 4, LOGREAD |-> 2, PHISTWIDTH |-> 8,
             HISTBUFFERLENGTH |-> 16, BORNTICK |-> 4, m |-> <<4, 8, 12>>,
             CI |-> <<5, 5, 7>>, CT0 |-> 7, CT1 |-> 5]

MCMacros1 == [MCMacros EXCEPT !.NHIST = 2, !.LOGG = 3, !.LOGB = 6, !.LOGBIAS = 7,
                              !.TBITS = 6, !.m = <<4, 8>>, !.CI = <<5, 5>>]

MCImli == [nhist |-> 3, logg |-> 3, log2_tage_nsub |-> 0, TBITS |-> 5, m |-> <<2, 4, 9>>,
           PHISTWIDTH |-> 8, HISTBUFFERLENGTH |-> 16, HASHBITS |-> 9,
           log2_bimodal |-> 3, log2_bimodal_nsub |-> 1, bwidth |-> 8,
           use_tag_offset |-> FALSE]
=============================================================================
