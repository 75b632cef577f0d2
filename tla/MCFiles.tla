-------------------------------- MODULE MCFiles --------------------------------
(* Files that the readers of Files take: the groups of MCConfig, networks of six  *)
(* blocks, dictionaries of two entries.                                           *)
EXTENDS MCConfig, Files

B0 == [type |-> "net", complete |-> TRUE, from |-> 0, layers |-> <<>>, filters |-> 0,
       size |-> 0, bias |-> FALSE, groups |-> 0, group_id |-> -1, activation |-> "linear"]
Of(t) == [B0 EXCEPT !.type = t]
Deconv(f, g) == [Of("deconvolutional") EXCEPT !.filters = f, !.size = 2, !.bias = TRUE, !.groups = g]
Norm == [Of("batchnorm") EXCEPT !.filters = 2]
From(t, l) == [Of(t) EXCEPT !.from = l]
Route(ls, g, id) == [Of("route") EXCEPT !.layers = ls, !.groups = g, !.group_id = id]
Less(b) == [b EXCEPT !.complete = FALSE]

First == {Deconv(2, 0), Deconv(4, 2), Of("upsample"), Of("dropout")}
Second == {Norm, Deconv(2, 0), Of("dropout"), Less(Norm)}
Merged == {From("shortcut", -2), From("shortcut", -3), From("shortcut", 1), From("sam", -2),
           From("shift_channels", -2), From("shortcut", -1), From("sam", -7),
           Route(<<-2>>, 0, -1), Route(<<-1, 0>>, 0, -1), Route(<<-1, 1>>, 2, 1),
           Route(<<>>, 0, -1), Route(<<-1>>, 2, -1), Route(<<5>>, 0, -1)}
Third == Merged \cup {Less(Of("upsample")), Norm, Of("convolutional")}
Fourth == Merged \cup {Deconv(2, 2), [Norm EXCEPT !.activation = "other"], Of("detect"),
                       Less(Of("yolo")), [From("shortcut", -2) EXCEPT !.activation = "other"]}
Fifth == {Of("yolo"), Of("none"), Deconv(3, 0)}

\* Six blocks, of which three and four may be any; the weights of some fit.
Small ==
  {[blocks |-> <<B0, a, b, c, d, e>>, channels |-> 2, weights |-> w, supported |-> w # 29] :
     a \in First, b \in Second, c \in Third, d \in Fourth, e \in Fifth, w \in {0, 8, 26, 29}}
\* With single characters, and with an empty line.
Entries == {<<<<"0">>, <<"q">>>>, <<<<"8">>, <<>>>>}
===============================================================================
