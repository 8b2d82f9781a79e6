------------------------------ MODULE MCEditor ------------------------------
(* An instance of Display: a screen of two or three columns, two prompts,  *)
(* lines of up to five runes.  One client types, moves and deletes, one    *)
(* completes words, the others enter lines, recall them and paste.         *)
EXTENDS Display

MCWords == {<<"b", "b">>}
MCMessageRow == <<"~">>

Escape(s) == <<"esc">> \o s
Editor ==
    [types |-> {<<c>> : c \in {"b", " ", "^B", "^E", "^W", "^K", "^L", "^D",
                               "^U", "del"}}
               \cup {Escape(s) : s \in {<<"b">>, <<"f">>, <<"[", "C">>,
                                        <<"[", "H">>, <<"[", "1", "~">>}},
     pastes |-> {},
     upTo |-> 3, prompts |-> {<<"A">>, <<"A", "A">>}, clears |-> TRUE]

Completer ==
    [types |-> {<<c>> : c \in {"b", " ", "^B", "tab"}}, pastes |-> {},
     upTo |-> 2, prompts |-> {<<"A">>}, clears |-> TRUE]

(* A paste may have a rune cut in two and a line end in it, or a key that  *)
(* is not known.                                                           *)
Rune == <<"lead", "cont">>
Recaller(clears) ==
    [types |-> {<<"b">>, <<"^B">>, <<"del">>, <<"cr">>, <<"cr", "esc">>,
                PasteStart, Escape(<<"[", "A">>), Escape(<<"[", "B">>)},
     pastes |-> {Rune, <<"lead">>, Rune \o <<"cr">>, PasteEnd},
     upTo |-> 2, prompts |-> {<<"A", "A">>}, clears |-> clears]

Paster ==
    [types |-> {<<"b">>, <<"^B">>, <<"cr">>, PasteStart},
     pastes |-> {Escape(<<"[", "A">>), PasteEnd},
     upTo |-> 2, prompts |-> {<<"A", "A">>}, clears |-> TRUE]

MCClients == {Editor, Completer, Recaller(TRUE), Recaller(FALSE), Paster}
=============================================================================
