---------------------------- MODULE MCMctpReceive ---------------------------
(* Instances of MctpReceive for TLC: two senders of the same endpoint ID,  *)
(* with tags of their own.                                                 *)
EXTENDS MctpReceive, TLC

CONSTANTS s1, s2

OwnTags   == s1 :> 0 @@ s2 :> 1
SameEid   == s1 :> 8 @@ s2 :> 8
AllShapes == {<<"Pldm", 1, {}>>, <<"Pldm", 2, {}>>, <<"VendorIani", 5, {}>>,
              <<"Spdm", 7, {}>>, <<"Spdm", 5, {2, 5}>>, <<"VendorPci", 2, {}>>,
              <<"Control", 1, {}>>, <<"Other", 1, {}>>, <<"Other", 2, {}>>,
              <<"Refused", 2, {}>>}
Oversized == {<<"Pldm", 1, {}>>, <<"Pldm", 4, {}>>}
=============================================================================
