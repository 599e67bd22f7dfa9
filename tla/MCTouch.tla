------------------------------ MODULE MCTouch ------------------------------
(* Compositors with either shell or none, the dmabuf protocol new, old or  *)
(* missing, with and without a seat or presentation feedback.              *)
EXTENDS Touch

Weston  == <<"wl_compositor", "wp_presentation", "wl_seat", "zwp_linux_dmabuf_v1", "zxdg_shell_v6">>
Kiosk   == <<"zwp_fullscreen_shell_v1", "wp_presentation", "zwp_linux_dmabuf_v1", "wl_compositor">>
NoSeat  == <<"wl_compositor", "zxdg_shell_v6", "zwp_fullscreen_shell_v1", "zwp_linux_dmabuf_v1", "wp_presentation">>
Lacking == {<<"wl_compositor", OldDmabuf, "zxdg_shell_v6">>, <<"zwp_linux_dmabuf_v1", "zxdg_shell_v6">>,
            <<"wl_compositor", "zwp_linux_dmabuf_v1">>,
            <<"wl_compositor", "zxdg_shell_v6", "zwp_linux_dmabuf_v1">>}

SomeCompositors ==
  {[globals |-> Weston, touch |-> TRUE, prompt |-> TRUE]}
    \union [globals : {NoSeat}, touch : {FALSE}, prompt : {FALSE}]
    \union [globals : {Kiosk} \union Lacking, touch : {FALSE}, prompt : {TRUE}]
=============================================================================
