--------------------------- MODULE MCConfigParser ---------------------------
(* Instances of ConfigParser for TLC: files of words, marks, a string, a     *)
(* comment and whole statements.                                            *)
EXTENDS ConfigParser

MCWords   == {"4", "listen", "http", "https", "ftp", "threads", "hostname", "80", "2", "w"}
MCLetters == MCWords \cup {"h"}
MCDigits  == {"4", "80", "2"}

MCHost    == <<"\"", "h", "\"">>
MCComment == <<"#", "{", "\n">>

MCPhrases ==
    { << <<"w">> >>, << <<";">> >>, << <<"{">> >>, << <<"}">> >>, << <<"'", ";", "'">> >>,
      << MCComment >>,
      << <<"listen">>, <<"http">>, <<"80">>, <<";">> >>,
      << <<"listen">>, <<"http">>, <<"80">>, <<"{">> >>,
      << <<"listen">>, <<"ftp">>, <<"80">>, <<";">> >>,
      << <<"listen">>, <<"80">>, <<";">>, <<"threads">>, <<"w">>, <<";">> >>,
      << <<"threads">>, <<"2">>, <<";">> >>,
      << <<"hostname">>, MCHost, <<";">> >> }
=============================================================================
