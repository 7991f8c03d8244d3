------------------------------ MODULE MCSpiffs ------------------------------
EXTENDS Spiffs

MCModes == {{"RDONLY", "WRONLY", "CREAT"}, {"RDONLY", "WRONLY", "TRUNC"}}
MCDatas == {<<1>>, <<2, 3, 4>>}
MCPageModes == {{"RDONLY"}}
MCOffsets == {0, 1}
MCHistories == {<<>>, <<[name |-> "a", data |-> <<5, 6, 7>>], [name |-> "b", data |-> <<9, 9>>],
                [name |-> "a", data |-> <<8, 5, 6, 7>>]>>}
=============================================================================
