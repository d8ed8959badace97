----------------------------- MODULE MCJsonPath ------------------------------
(***************************************************************************)
(* JsonPath for TLC: four documents, every path of at most MaxTokens       *)
(* tokens, and the three paths at which the text of an error is sought.    *)
(*                                                                         *)
(*   list     {"u": ["l1", {"U": "l2", "0": [["l3"]]}], "U": "l4"}         *)
(*   array    [["a1", "a2"], {"uu": "a3"}, 1]                              *)
(*   nested   {"message": null, "error": {"message": "n1"}}                *)
(*   flat     {"error": "f1"}                                              *)
(***************************************************************************)
EXTENDS JsonPath

CONSTANTS
    MaxTokens   \* bound: tokens in a path

MCKeys == {"u", "U", "message", "error"}

MCDigits == [d \in {"0", "1"} |-> IF d = "0" THEN 0 ELSE 1]

MCLower == [t \in Tokens |-> IF t = "U" THEN "u" ELSE t]

MCNodes == {"list", "l0", "l1", "l12", "l2", "l120", "l121", "l3", "l4",
            "array", "a0", "a1", "a2", "a12", "a3", "a4",
            "nested", "null", "n0", "n1", "flat", "f1"}

MCRoots == {"list", "array", "nested", "flat"}

MCKind == [n \in MCNodes |->
    CASE n \in {"list", "l12", "a12", "nested", "n0", "flat"} -> "object"
      [] n \in {"l0", "l120", "l121", "array", "a0"} -> "array"
      [] n \in {"null", "a4"} -> "scalar"
      [] OTHER -> "string"]

Named(name, n) == [name |-> name, node |-> n]

MCItems == [n \in MCNodes |->
    CASE n = "list" -> <<Named(<<"u">>, "l0"), Named(<<"U">>, "l4")>>
      [] n = "l0" -> <<Named(<<>>, "l1"), Named(<<>>, "l12")>>
      [] n = "l12" -> <<Named(<<"U">>, "l2"), Named(<<"0">>, "l120")>>
      [] n = "l120" -> <<Named(<<>>, "l121")>>
      [] n = "l121" -> <<Named(<<>>, "l3")>>
      [] n = "array" -> <<Named(<<>>, "a0"), Named(<<>>, "a12"), Named(<<>>, "a4")>>
      [] n = "a0" -> <<Named(<<>>, "a1"), Named(<<>>, "a2")>>
      [] n = "a12" -> <<Named(<<"u", "u">>, "a3")>>
      [] n = "nested" -> <<Named(<<"message">>, "null"), Named(<<"error">>, "n0")>>
      [] n = "n0" -> <<Named(<<"message">>, "n1")>>
      [] n = "flat" -> <<Named(<<"error">>, "f1")>>
      [] OTHER -> <<>>]

PathTokens == {".", "[", "]", "0", "1", "u", "U"}

ErrorPaths == <<<<"message">>, <<"error">>, <<"error", ".", "message">>>>

MCRequests ==
    {<<s>> : s \in UNION {[1 .. n -> PathTokens] : n \in 0 .. MaxTokens}}
        \union {ErrorPaths}
=============================================================================
