-------------------------------- MODULE Rates --------------------------------
(***************************************************************************)
(* The conversions of libibverbs between the rates of a link (the numbers  *)
(* of enum ibv_rate), multiples of 2.5 Gbit/s and Mbit/s.  Four tables,    *)
(* written out one by one in the code, that have to agree: LibsuiwProofs   *)
(* shows where they do.                                                    *)
(***************************************************************************)
EXTENDS Integers

RATE_MAX == 0
RATE_2_5_GBPS == 2
RATE_5_GBPS == 5
RATE_10_GBPS == 3
RATE_20_GBPS == 6
RATE_30_GBPS == 4
RATE_40_GBPS == 7
RATE_60_GBPS == 8
RATE_80_GBPS == 9
RATE_120_GBPS == 10
RATE_14_GBPS == 11
RATE_56_GBPS == 12
RATE_112_GBPS == 13
RATE_168_GBPS == 14
RATE_25_GBPS == 15
RATE_100_GBPS == 16
RATE_200_GBPS == 17
RATE_300_GBPS == 18

Rate == {RATE_MAX, RATE_2_5_GBPS, RATE_5_GBPS, RATE_10_GBPS, RATE_20_GBPS,
         RATE_30_GBPS, RATE_40_GBPS, RATE_60_GBPS, RATE_80_GBPS, RATE_120_GBPS,
         RATE_14_GBPS, RATE_56_GBPS, RATE_112_GBPS, RATE_168_GBPS, RATE_25_GBPS,
         RATE_100_GBPS, RATE_200_GBPS, RATE_300_GBPS}

ibv_rate_to_mult(rate) ==
  CASE rate = RATE_2_5_GBPS -> 1 [] rate = RATE_5_GBPS -> 2 [] rate = RATE_10_GBPS -> 4
    [] rate = RATE_20_GBPS -> 8 [] rate = RATE_30_GBPS -> 12 [] rate = RATE_40_GBPS -> 16
    [] rate = RATE_60_GBPS -> 24 [] rate = RATE_80_GBPS -> 32 [] rate = RATE_120_GBPS -> 48
    [] OTHER -> -1

mult_to_ibv_rate(mult) ==
  CASE mult = 1 -> RATE_2_5_GBPS [] mult = 2 -> RATE_5_GBPS [] mult = 4 -> RATE_10_GBPS
    [] mult = 8 -> RATE_20_GBPS [] mult = 12 -> RATE_30_GBPS [] mult = 16 -> RATE_40_GBPS
    [] mult = 24 -> RATE_60_GBPS [] mult = 32 -> RATE_80_GBPS [] mult = 48 -> RATE_120_GBPS
    [] OTHER -> RATE_MAX

ibv_rate_to_mbps(rate) ==
  CASE rate = RATE_2_5_GBPS -> 2500 [] rate = RATE_5_GBPS -> 5000
    [] rate = RATE_10_GBPS -> 10000 [] rate = RATE_20_GBPS -> 20000
    [] rate = RATE_30_GBPS -> 30000 [] rate = RATE_40_GBPS -> 40000
    [] rate = RATE_60_GBPS -> 60000 [] rate = RATE_80_GBPS -> 80000
    [] rate = RATE_120_GBPS -> 120000 [] rate = RATE_14_GBPS -> 14062
    [] rate = RATE_56_GBPS -> 56250 [] rate = RATE_112_GBPS -> 112500
    [] rate = RATE_168_GBPS -> 168750 [] rate = RATE_25_GBPS -> 25781
    [] rate = RATE_100_GBPS -> 103125 [] rate = RATE_200_GBPS -> 206250
    [] rate = RATE_300_GBPS -> 309375 [] OTHER -> -1

mbps_to_ibv_rate(mbps) ==
  CASE mbps = 2500 -> RATE_2_5_GBPS [] mbps = 5000 -> RATE_5_GBPS
    [] mbps = 10000 -> RATE_10_GBPS [] mbps = 20000 -> RATE_20_GBPS
    [] mbps = 30000 -> RATE_30_GBPS [] mbps = 40000 -> RATE_40_GBPS
    [] mbps = 60000 -> RATE_60_GBPS [] mbps = 80000 -> RATE_80_GBPS
    [] mbps = 120000 -> RATE_120_GBPS [] mbps = 14062 -> RATE_14_GBPS
    [] mbps = 56250 -> RATE_56_GBPS [] mbps = 112500 -> RATE_112_GBPS
    [] mbps = 168750 -> RATE_168_GBPS [] mbps = 25781 -> RATE_25_GBPS
    [] mbps = 103125 -> RATE_100_GBPS [] mbps = 206250 -> RATE_200_GBPS
    [] mbps = 309375 -> RATE_300_GBPS [] OTHER -> RATE_MAX
=============================================================================
