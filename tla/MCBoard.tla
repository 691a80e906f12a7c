------------------------------ MODULE MCBoard ------------------------------
(* The drivers for TLC: two LEDs on port B, one lit by a 0, next to a pin of
   the LCD that one of them shares, keypad and switches on port A that share a
   pin too, and a switch without an entry, whose port is NULL. *)
EXTENDS Board

MCParts == {"peripherals", "oscillators", "timer", "pins", "nvic", "serial"}
MCMasks == {{0}, {0, 1}, {7}}
MCFactors == {<<"M", {1}>>, <<"M", {6}>>, <<"N", {12, 13, 6}>>, <<"P", {16}>>, <<"P", {2}>>}
MCPins == {<<"GPIOA", 0>>, <<"GPIOA", 4>>, <<"GPIOB", 1>>, <<"GPIOB", 2>>, <<"GPIOA", 9>>, <<"GPIOA", 1>>}
MCLeds == [l \in {"LED_GREEN", "LED_RED"} |->
             IF l = "LED_RED" THEN [pin |-> <<"GPIOB", 2>>, connection |-> 1]
             ELSE [pin |-> <<"GPIOB", 1>>, connection |-> 0]]
MCKeypad == [col |-> <<<<"GPIOA", 4>>>>, colMode |-> 1, row |-> <<<<"GPIOA", 0>>>>, rowMode |-> 8]
MCSwitch == [s \in {1, 2} |-> IF s = 1 THEN [pin |-> <<"GPIOA", 4>>, mode |-> 8]
                              ELSE [pin |-> <<"NULL", 0>>, mode |-> 0]]
MCLcd == <<<<"GPIOB", 1>>>>
MCAFPin == <<"GPIOA", 9>>
=============================================================================
