---------------------------- MODULE MCGattServer ----------------------------
(***************************************************************************)
(* TLC instances of GattServer.  The MTUs straddle the sizes at which a    *)
(* response takes one entry more and the device name one request less.     *)
(***************************************************************************)
EXTENDS GattServer

CONSTANTS p1

MCDiscoveries ==
    {<<"services", "all">>, <<"service", "test">>, <<"characteristics", "all">>,
     <<"attributes", "all">>, <<"attributes", "battery">>}
MCReads == {<<"long_read", "device_name">>, <<"long_read", "battery_level">>,
            <<"by_type", "device_name">>, <<"read_multiple", "all">>}
MCProcedures == MCDiscoveries \union MCReads
MCNameByType == {<<"by_type", "device_name">>}

MCBothBits == {Bits}

MCNotifiable == {<<"battery", "battery_level">>, <<"generic_attribute", "service_changed">>,
                 <<"test", "test_tx">>, <<"test", "test_rx">>}
=============================================================================
