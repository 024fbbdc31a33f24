--------------------------------- MODULE MCHost ---------------------------------
(* Model values of QuantConnectHost: days of two minutes; chains of up to  *)
(* two contracts, with and without open interest.                          *)
EXTENDS QuantConnectHost

Listed(contract, open) == [contract |-> contract, open |-> open]

MCChains ==
    {<<>>, <<<<Listed("ESH6", TRUE), Listed("ESM6", FALSE)>>>>, <<<<Listed("ESM6", TRUE)>>>>}

MCDeliveries == [endDate : 0..1, nonNull : SUBSET {"dealer_long", "open_interest"}]
=============================================================================
