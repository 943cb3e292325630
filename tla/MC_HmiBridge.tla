----------------------------- MODULE MC_HmiBridge -----------------------------
(* The handlers of inverter_cmos_bridge.c with the register constants of    *)
(* inverter_map.c.  The passing run has a handler whose command is accepted *)
(* and one whose command is not, a command register and a published         *)
(* measurement; the other run has all handlers and all command registers.   *)
EXTENDS HmiBridge

MCHandlers == {"main_pump", "operation", "frequency_write", "fault_control"}
MCTwoHandlers == {"main_pump", "frequency_write"}
Constants == [main_pump       |-> 8193,
              operation       |-> 45056,
              frequency_write |-> 45057,
              fault_control   |-> 45058]
MCRegister == [h \in Handlers |-> Constants[h]]

MCTable == <<[dev |-> 8193, pool |-> 45057, access |-> "RW"],
             [dev |-> 8449, pool |-> 47873, access |-> "RO"]>>
MCCommandTable == <<[dev |-> 8192, pool |-> 45056, access |-> "RW"],
                    [dev |-> 8193, pool |-> 45057, access |-> "RW"],
                    [dev |-> 8194, pool |-> 45058, access |-> "RW"],
                    [dev |-> 8449, pool |-> 47873, access |-> "RO"]>>
MCKeys == <<47873>>
=============================================================================
