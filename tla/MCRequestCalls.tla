--------------------------- MODULE MCRequestCalls ---------------------------
(* Instances of RequestCalls for TLC: lists of securities and fields.      *)
EXTENDS RequestCalls
CONSTANTS s1, s2, f1, f2, b1

OneSecurity == {<<s1>>}
OneOrTwoSecurities == {<<s1>>, <<s2, s1>>}
OneField == {<<f1>>}
OneOrTwoFields == {<<f1>>, <<f2, f1>>}
NoClasses == {}
RefusedClasses == Classes \ {"FieldInfo"}
ReferenceClasses == {"Reference", "Historical"}
SearchAndDataClasses == {"FieldSearch", "Reference", "Historical"}
=============================================================================
