----------------------------- MODULE MCAsmFixed -----------------------------
EXTENDS AsmFixed

CONSTANT MaxLength   \* instructions of a function

Codes == {c \in UNION {[1..n -> Kinds] : n \in 0..MaxLength} :
             \A n \in DOMAIN c : c[n] = "label" => n < Len(c)}
FunctionOf(local, push, fpush, params, code) ==
    [local |-> local, push |-> push, fpush |-> fpush, params |-> params, code |-> code]
P(offs, moved, deleted) == [offs |-> offs, moved |-> moved, deleted |-> deleted]
Params == {<<P(0, 0, FALSE), P(4, 8, FALSE)>>, <<P(0, 0, TRUE), P(0, 16, FALSE)>>}

(* Every frame of a few words with one code, every code with one frame.    *)
Frames == {FunctionOf(local, push, fpush, params, <<"plain">>) :
              local \in {0, 4, 8, 12, 20, 4096}, push \in 1..3, fpush \in 0..2, params \in Params}
AllFunctions == Frames \cup {FunctionOf(0, 1, 0, <<>>, code) : code \in Codes}
=============================================================================
