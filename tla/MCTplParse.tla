----------------------------- MODULE MCTplParse -----------------------------
EXTENDS TplParse
MCWords == {[typ |-> k, val |-> ""] : k \in Keywords \ {"With", "Nil", "Finally"}} \cup
           {[typ |-> "Identifier", val |-> "unknown"]}
MCSigns == {[typ |-> "ColonEquals", val |-> ":="], [typ |-> "Pipe", val |-> "|"],
            [typ |-> "Char", val |-> ","]}
MCMaxItems == <<6, 4, 3>>
=============================================================================
