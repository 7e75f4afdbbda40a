--------------------------- MODULE MCNativeBridge ---------------------------
(* A small instance of NativeBridge for TLC.                               *)
EXTENDS NativeBridge

Exact == [model |-> "exact", usb_vendor |-> 1, usb_product |-> 1]
Generic == [model |-> PtpClass, usb_vendor |-> 0, usb_product |-> 0]
MCDrivers == {Exact, Generic}
MCUsbIds == {[vendor |-> 1, product |-> 1], [vendor |-> 1193, product |-> 2]}

\* root holds a and b, a holds c; root lists a file and a folder twice; an entry
\* without a name leads from root and from c back to themselves.
Tree == [files |-> [f \in Folders |-> CASE f = "root" -> <<"p", "p", NoName>>
                                        [] f = "a" -> <<"p">>
                                        [] OTHER -> <<>>],
         sub |-> [f \in Folders |-> CASE f = "root" -> <<"a", NoName, "b", "a">>
                                      [] f = "a" -> <<"c">>
                                      [] f = "c" -> <<NoName>>
                                      [] OTHER -> <<>>]]

\* A card that is listed within the limits, where the other one exceeds them.
SmallTree == [files |-> [f \in Folders |-> IF f \in {"root", "a"} THEN <<"p">> ELSE <<>>],
              sub |-> [f \in Folders |-> IF f = "root" THEN <<"a", NoName>> ELSE <<>>]]
MCTrees == {Tree, SmallTree}
MCFailures == {GP_ERROR}
=============================================================================
